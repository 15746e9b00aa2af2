------------------------------ MODULE IrcServer ------------------------------
(***************************************************************************)
(* The server as its clients use it: the sessions of Session and the       *)
(* channels of Membership over one list of clients, one registration, and  *)
(* commands that name their target by nickname.  Membership takes its      *)
(* targets as objects and a MODE command letter by letter; here they go    *)
(* through findClientByNick, and executeModes is a loop that looks at the  *)
(* standing of the sender once, before the first letter.                   *)
(*                                                                         *)
(* The server is one thread: while executeModes runs (mode # NoMode) no    *)
(* other handler does.  A refused command is a stuttering step.            *)
(***************************************************************************)
EXTENDS Session

CONSTANTS
  Channel, Key, NoKey, Topic, NoTopic, MaxClient, ModeLetter,
  MaxJoined         \* all as in Membership

ASSUME ServerAssumption ==
  /\ IsFiniteSet(Client)
  /\ NoKey \notin Key
  /\ NoTopic \notin Topic
  /\ MaxClient \in Nat
  /\ ModeLetter \subseteq {"i", "t", "k", "l"}
  /\ MaxJoined \in Nat

VARIABLES
  joinedChannels, invitations, channels, channelUsers, ops,
  modes, pw, maxUser, topic,    \* as in Membership
  mode,             \* the sender and the channel of a running executeModes
  names             \* names[m][ch]: the nicknames that m lists for ch

channelVars == <<joinedChannels, invitations, channels, channelUsers, ops,
                 modes, pw, maxUser, topic>>

serverVars == <<vars, channelVars, mode, names>>

Registered == {c \in Client : isRegistered[c]}

M == INSTANCE Membership WITH cls <- Live, registered <- Registered

NoMode == <<>>

ServerTypeOK ==
  /\ mode \in {NoMode} \cup (Client \X Channel)
  /\ names \in [Client -> [Channel -> SUBSET Nick]]

ServerInit ==
  /\ Init
  /\ M!Init
  /\ mode = NoMode
  /\ names = [m \in Client |-> [ch \in Channel |-> {}]]

-----------------------------------------------------------------------------
\* The first client of cls that bears n, if any.  The empty name, which a
\* command can give as its last parameter, finds a client without nickname.
FindClientByNick(n) ==
  LET found == SelectInSeq(cls, LAMBDA c : nickname[c] = n)
  IN  IF found = 0 THEN Nobody ELSE cls[found]

\* Mutant of PrivmsgReceivers: who sent the message gets it, too.
PrivmsgReceiversAll(c, ch) == IF M!IsMember(c, ch) THEN M!Members(ch) ELSE {}

\* Whom PRIVMSG of a registered client c to a channel is sent to.
PrivmsgReceivers(c, ch) ==
  IF M!IsMember(c, ch) THEN M!Members(ch) \ {c} ELSE {}

-----------------------------------------------------------------------------
\* What a message about the user called n does to the lists of the members of
\* a channel.  A client that leaves closes the channel.
Listed(ch, users, n) ==
  [m \in Client |-> [d \in Channel |->
     IF d = ch /\ m \in users THEN names[m][d] \cup {n} ELSE names[m][d]]]

Unlisted(left, c) ==
  [m \in Client |-> [d \in Channel |->
     IF d \notin left \/ m \notin M!Members(d) THEN names[m][d]
     ELSE IF m = c THEN {}
     ELSE names[m][d] \ {nickname[c]}]]

\* Mutant of OldNick: the message is composed when the nickname has changed.
OldNickAfter(c) == nickname'[c]

\* old_nick, the prefix of the NICK message.
OldNick(c) == nickname[c]

\* Whom the NICK message is sent to: all members of the channels in
\* joinedChannels, or c alone.
RenameAudience(c) ==
  IF joinedChannels[c] = <<>> THEN {c}
  ELSE UNION {M!Members(ch) : ch \in ToSet(joinedChannels[c])}

Renamed(c) ==
  [m \in Client |-> [ch \in Channel |->
     IF m \in RenameAudience(c) /\ OldNick(c) \in names[m][ch]
     THEN (names[m][ch] \ {OldNick(c)}) \cup {nickname'[c]}
     ELSE names[m][ch]]]

-----------------------------------------------------------------------------
\* Connection, registration and departure.

ConnectClient(c) ==
  /\ Connect(c)
  /\ M!Connect(c)
  /\ names' = [names EXCEPT ![c] = [ch \in Channel |-> {}]]
  /\ UNCHANGED mode

\* quitHandle, from QUIT, a lost connection or the third wrong PASS.
RemoveClient(c) ==
  /\ Quit(c) \/ PassRejectedForGood(c)
  /\ M!Quit(c)
  /\ names' = Unlisted(M!LeftByQuit(c), c)
  /\ UNCHANGED mode

Authenticate(c) ==
  /\ PassAccepted(c) \/ PassRejected(c) \/ CapEnd(c) \/ SetUser(c)
  /\ UNCHANGED <<channelVars, mode, names>>

ChangeNick(c, n) ==
  /\ SetNick(c, n)
  /\ names' = IF isRegistered[c] THEN Renamed(c) ELSE names
  /\ UNCHANGED <<channelVars, mode>>

-----------------------------------------------------------------------------
\* Channel commands; the target of KICK and INVITE is a nickname.

JoinChannel(c, ch, key) ==
  /\ UNCHANGED <<vars, mode>>
  /\ M!Join(c, ch, key)
  /\ LET users == ToSet(channelUsers'[ch])
         told == Listed(ch, users, nickname[c])
     IN  names' = [told EXCEPT ![c][ch] = {nickname[u] : u \in users}]

PartChannel(c, ch) ==
  /\ UNCHANGED <<vars, mode>>
  /\ M!Part(c, ch)
  /\ names' = Unlisted({ch}, c)

KickByNick(c, n, ch) ==
  /\ UNCHANGED <<vars, mode>>
  /\ FindClientByNick(n) # Nobody
  /\ M!Kick(c, FindClientByNick(n), ch)
  /\ names' = Unlisted({ch}, FindClientByNick(n))

InviteByNick(c, n, ch) ==
  /\ UNCHANGED <<vars, mode, names>>
  /\ FindClientByNick(n) # Nobody
  /\ M!Invite(c, FindClientByNick(n), ch)

ChangeTopic(c, ch, tp) ==
  /\ UNCHANGED <<vars, mode, names>>
  /\ M!SetTopic(c, ch, tp)

-----------------------------------------------------------------------------
\* MODE.  The checks of chanCommands come once, before the loop of
\* executeModes; no letter of the loop looks at the sender's standing again.

\* Mutant of MayChangeModes: only one of the two checks.
MayChangeModesIfOperator(c, ch) == ch \in channels /\ c \in ops[ch]

MayChangeModes(c, ch) ==
  ch \in channels /\ c \in M!Members(ch) /\ c \in ops[ch]

StartMode(c, ch) ==
  /\ c \in Live
  /\ MayChangeModes(c, ch)
  /\ mode' = <<c, ch>>
  /\ UNCHANGED <<vars, channelVars, names>>

\* Mutant of IsSender: nothing keeps a sender from naming itself.
NeverSender(c, t) == FALSE

\* The test of mode_Plus_O and mode_Minus_O that the target is the sender
\* compares nicknames, not pointers.
IsSender(c, t) == nickname[t] = nickname[c]

LetterO(c, ch, n) ==
  /\ FindClientByNick(n) # Nobody
  /\ ~IsSender(c, FindClientByNick(n))
  /\ \/ ops' = [ops EXCEPT ![ch] = @ \cup {FindClientByNick(n)}]
     \/ ops' = [ops EXCEPT ![ch] = @ \ {FindClientByNick(n)}]
  /\ UNCHANGED <<modes, pw, maxUser>>

LetterFlag(ch, x) ==
  /\ x \in {"i", "t"} \cap ModeLetter
  /\ \/ modes' = [modes EXCEPT ![ch] = @ \cup {x}]
     \/ modes' = [modes EXCEPT ![ch] = @ \ {x}]
  /\ UNCHANGED <<ops, pw, maxUser>>

LetterK(ch, k) ==
  /\ "k" \in ModeLetter
  /\ \/ /\ modes' = [modes EXCEPT ![ch] = @ \cup {"k"}]
        /\ pw' = [pw EXCEPT ![ch] = k]
     \/ /\ modes' = [modes EXCEPT ![ch] = @ \ {"k"}]
        /\ pw' = [pw EXCEPT ![ch] = NoKey]
  /\ UNCHANGED <<ops, maxUser>>

LetterL(ch, limit) ==
  /\ "l" \in ModeLetter
  /\ \/ /\ modes' = [modes EXCEPT ![ch] = @ \cup {"l"}]
        /\ maxUser' = [maxUser EXCEPT ![ch] = limit]
     \/ /\ modes' = [modes EXCEPT ![ch] = @ \ {"l"}]
        /\ UNCHANGED maxUser
  /\ UNCHANGED <<ops, pw>>

\* One iteration of the loop: some letter, with the sign and the parameter
\* that executeModes has come to.
ModeLetterOf(c, ch) ==
  /\ \/ \E n \in Nick \cup {NoNick} : LetterO(c, ch, n)
     \/ \E x \in ModeLetter : LetterFlag(ch, x)
     \/ \E k \in Key : LetterK(ch, k)
     \/ \E limit \in 0..MaxClient : LetterL(ch, limit)
  /\ UNCHANGED <<vars, joinedChannels, invitations, channels, channelUsers,
                 topic, mode, names>>

EndMode ==
  /\ mode # NoMode
  /\ mode' = NoMode
  /\ UNCHANGED <<vars, channelVars, names>>

-----------------------------------------------------------------------------
ChannelCommand(c, ch) ==
  \/ \E key \in Key \cup {NoKey} : JoinChannel(c, ch, key)
  \/ PartChannel(c, ch)
  \/ \E n \in Nick \cup {NoNick} : KickByNick(c, n, ch)
  \/ \E n \in Nick : InviteByNick(c, n, ch)
  \/ \E tp \in Topic \cup {NoTopic} : ChangeTopic(c, ch, tp)
  \/ StartMode(c, ch)

Command(c) ==
  /\ mode = NoMode
  /\ \/ ConnectClient(c)
     \/ RemoveClient(c)
     \/ Authenticate(c)
     \/ \E n \in Nick : ChangeNick(c, n)
     \/ \E ch \in Channel : ChannelCommand(c, ch)

ServerNext ==
  \/ \E c \in Client : Command(c)
  \/ mode # NoMode /\ ModeLetterOf(mode[1], mode[2])
  \/ EndMode

ServerSpec == ServerInit /\ [][ServerNext]_serverVars

-----------------------------------------------------------------------------
\* Members of a channel list each other by the present nicknames, and every
\* name in the list of one is an address: KICK, INVITE, MODE +o and PRIVMSG to
\* it find the member meant and nobody else, however clients registered, left
\* and changed their nicknames.
NamesResolve ==
  \A ch \in Channel : \A m \in M!Members(ch) :
    /\ names[m][ch] = {nickname[d] : d \in M!Members(ch)}
    /\ FindClientByNick(nickname[m]) = m

\* The invariant behind it.
NamesInv == ServerTypeOK /\ NamesResolve

\* A message to a channel comes to all others who list its sender, and only
\* to them: no receiver has closed the channel or misses the sender.
MessagesHaveKnownSenders ==
  \A ch \in Channel, c \in Registered :
    M!IsMember(c, ch) =>
      PrivmsgReceivers(c, ch) = {m \in Client \ {c} : nickname[c] \in names[m][ch]}

\* While executeModes runs its sender remains an operator and a member of the
\* channel, so that one look at its standing is enough for all the letters: no
\* letter can name the sender, by whatever nickname.
SenderStaysOperator ==
  mode # NoMode =>
    /\ mode[1] \in M!Members(mode[2])
    /\ mode[1] \in ops[mode[2]]

\* Every step of the composed server is one of Membership or leaves it alone:
\* what holds of channels there holds here, where registration is what
\* Session does, targets are nicknames and MODE is a loop.
ImplementsMembership == M!Spec
=============================================================================
