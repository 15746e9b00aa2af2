# ourIRC in TLA+

A verification project for `src/`: an IRC server of 2300 lines of C++98 that
serves all its clients from one thread with `poll`. It has no tests. The
modules here model its protocol state, its event loop, the path of the bytes
between the two and the text of its commands; TLC checks them on small instances
and TLAPS proves the invariants that matter most for any number of clients and
channels.

## The system

One process, one thread. `main` checks the command line and calls
`Server::startServer` (socket set-up) and `Server::Routine` (the loop). There is
no persistence and no second server. Concurrency is between the server and what
the network does to its sockets: peers connect, send, close and reset at any
moment, TCP cuts and glues their bytes, and signals arrive anywhere. The
handlers themselves run one after the other, to their end.

| Component | State | Operations | Source |
|---|---|---|---|
| Event loop | `fd_polls`, `cls` (two vectors kept in step by position), `signal`, `errno` | `Routine`, `addClient`, `quitHandle` + `removeClient`, `handleSignal`, `~Server` | `Server.cpp` |
| Inbound framing | `Client::buffer`, `Server::to_remove` | `sendAndReceiveClient` | `Server.cpp`, `Client.cpp` |
| Dispatch | none | `splitIRCMessage`, `parseHandleCmd` | `Server.cpp` |
| Session | `hasPassword`, `nickname`, `username`, `isRegistered`, `got_cap_end`, `invalid_password_attempts` | PASS, CAP, NICK, USER, QUIT | `ServerCommands.cpp`, `Client.cpp` |
| Membership | `Client::joinedChannels`, `Client::invitations`, `Channel::channelUsers`, `ops`, `modes`, `pw`, `maxUser`, `topic`, `Server::channels` | JOIN, PART, KICK, INVITE, TOPIC, MODE, QUIT | `ChannelCommands.cpp`, `modes.cpp`, `Channel.cpp`, `ServerCommands.cpp` |
| Delivery | none in the server; the picture of a channel at each client | `Channel::broadcast`, NAMES, NICK, PRIVMSG | `Channel.cpp`, the handlers |
| Keepalive | `last_activity`, `last_ping_time`, `waiting_for_pong` | `checkPingTimeouts`, PING | `Server.cpp`, `Client.cpp` |
| Replies | none | `Replies`, numeric codes | `Server.cpp`, `Replies.hpp` |
| Set-up, command line | none | `startServer`, `checkPortisValid`, `passCheck` | `Server.cpp`, `main.cpp` |

How they interact: `Routine` calls `sendAndReceiveClient(i)` for a readable
socket, which appends to the buffer and calls `parseHandleCmd` once for each
complete command; the handlers share the `Client` and `Channel` objects by raw
pointers. Every way to end (QUIT, a third wrong PASS, a message too long, a lost
connection) comes to `quitHandle`, which sends the client through PART for each
name in `joinedChannels`, then erases it from both vectors and deletes the
object, while the scan of the loop and perhaps the loop over its buffer are
still running.

### What is hard

- **Stale and short lists.** `Client::removeJoinedChannel` returns after its
  first iteration, so `joinedChannels` keeps names of channels that were left and
  gets duplicates. QUIT and NICK go through this list alone.
- **Raw pointers.** A member whose object is deleted would be dereferenced by
  the next broadcast. `ops` may hold clients outside the channel, and such an
  entry does survive the object.
- **Succession.** PART promotes only if exactly one operator is recorded, KICK
  never; a channel can lose its last operator for good.
- **Two vectors in step.** `cls[i - 1]` stands for the client of `fd_polls[i]`
  while the scan appends to and erases from both.
- **Deletion under a loop.** `to_remove`, one flag for all clients and not
  initialised, is all that stops the loop over a deleted client's buffer.
- **Framing.** CR and LF in different chunks, several commands in one chunk, a
  limit on the length that is compared before commands are taken out.
- **`errno`** is read after calls that do not set it.
- **Names for objects.** Commands name a target by a nickname that may have
  changed, `findClientByNick` sees clients that are not registered yet, and MODE
  looks at the sender's standing once for any number of letters.
- **Numbers and words.** Ports and limits go through `atoi` and conversions
  that wrap; names that NICK and JOIN accept may not be words of a later command.

`PROJECT.json` lists each hazard at its line with the properties aimed at it.

### What makes each component correct

- Event loop: table and clients in step; a descriptor is open if and only if it is in the
  table; a removal hits the client whose event is handled; nobody is passed
  over for ever; a lost connection is removed; a signal ends the server.
- Framing: a stream of commands, each handled once, whole and in order; no
  complete command left in a buffer; no access to a deleted client.
- Session: nicknames unique; registered exactly when complete; welcomed.
- Membership: a deleted client is in no channel; limits, keys and invitations
  are respected and spent; a channel keeps an operator as long as its members
  did not give that up.
- Delivery: what the members are shown is what is.
- Keepalive: a silent client is asked, and one that does not answer is removed.
- Sessions and channels together: a name in the list of a channel addresses the
  member meant; a sender is listed by whoever gets its messages.
- Texts: words become parameters in order, each mode letter gets its own, and a
  number is taken for what is written or refused.

## The modules

| Module | Models | Used by |
|---|---|---|
| `Membership` | channels, members, operators, modes | `Delivery`, `IrcServer`, `MembershipProofs` |
| `Delivery` | extends `Membership` by what clients are told | `MCDelivery`, `DeliveryProofs` |
| `Session` | registration and nicknames; implements `NickRegistry` | `IrcServer`, `SessionProofs` |
| `NickRegistry` | abstract: a table from nicknames to owners | `Session` |
| `IrcServer` | `Session` and `Membership` composed; implements both | `MCIrcServer`, `IrcServerProofs` |
| `Inbound` | bytes to commands; implements `CommandStream` | `MCInbound`, `InboundProofs` |
| `CommandStream` | abstract: a stream per connection, cut at CRLF | `Inbound` |
| `CommandText` | words, mode letters, names and numbers as functions | `MCCommandText`, `CommandTextProofs` |
| `EventLoop` | `Routine`, the poll table, the kernel's side | `MCEventLoop`, `EventLoopProofs` |
| `Keepalive` | `checkPingTimeouts` and its time stamps | `MCKeepalive` |
| `SequenceLemmas`, `MembershipProofs`, `DeliveryProofs`, `SessionProofs`, `IrcServerProofs`, `InboundProofs`, `EventLoopProofs`, `CommandTextProofs` | proofs | |
| `MC*` | instances for TLC: symmetry sets | the runs |

### Membership

A client is the ADDRESS of a `Client` object: the code compares pointers, and
`Connect` may reuse any address that is not live, whatever still points to it.
`cls` is a set here, because no handler of this module looks at its order.
`joinedChannels` is a sequence with duplicates, exactly as the code leaves it;
`channelUsers` keeps the order of arrival, which decides who is promoted; `ops`
and `invitations` are sets, because `addOperator` and `addInvitation` refuse
duplicates. One handler is one action: `Join`, `Part`, `Kick`, `Invite`, `SetTopic`,
and one action per mode letter and sign. A MODE command of several letters is
the sequence of its letters, each with the sender's standing looked at; that the
one look of the code is enough is shown in `IrcServer`. A
refused command changes nothing and is a stuttering step. JOIN is an exception:
it creates the channel before the checks.

### Delivery

Adds, for every client, the list of users and the marks of operators that it
shows for a channel, and the set of clients whose present nickname it has not
been told. The actions conjoin a step of `Membership` with what that step sends.
The clients follow the protocol: on its own PART or KICK a client closes the
channel. Sends that fail are left out: the code does not look at the result of
`send`. PRIVMSG, which changes nothing, is an operator of `IrcServer`.

### Session and NickRegistry

One client's way from connection to registration, with the count of wrong
passwords, and the departure of the client inside its own PASS handler. `cls` is
a sequence: `NickInUse` walks through it. `NickRegistry` knows only Take (a
nickname that is free or one's own) and Leave.

### IrcServer

The two modules above over one state: `Membership` is instantiated with the
clients of `Session`'s `cls` and its registered clients, so that one departure
removes the client from the nicknames and from the channels in the same step.
Each action conjoins the one of `Session` and the one of `Membership` that its
handler performs. KICK, INVITE and MODE +o take nicknames, which
`FindClientByNick` looks up in the order of `cls`; the empty name is one a command
can give as its last parameter. MODE is a loop: `StartMode` makes the checks of
`chanCommands`, `ModeLetterOf` is one iteration of `executeModes`, `EndMode` its end, and
between them no other handler runs. Which letter comes next and with which
parameter is left open here and is what `CommandText` computes.

`names[m][ch]` is the list of nicknames that client `m` shows for a channel, built
from what JOIN, NAMES, PART, KICK, QUIT and NICK send it. It says of names what
`Delivery` says of objects. `PrivmsgReceivers` is whom a message to a channel
is sent to.

### CommandText

No handler runs here: a text grows by one character at a time and the functions of
the program are evaluated on every one. `SplitIRCMessage` and
`ParseHandleCmd` cut a line and choose the handler, `ExecuteModes` is the loop over the
letters with the parameters it takes from the front, `LimitOf` and `PortOf` are
the checks before `atoi` and the conversions, in the order of the code, with an `int`
that wraps. A character stands for its class (`VT` for the blanks that `operator>>` knows
and `passCheck` does not); the name of a command (`CommandName`) counts as one. `Fits` is the
check of the buffer's length for a PASS line that is sent alone. The loops of the code are recursive functions, over the lines of any length made
of `Char` or over the positions of a text. The reference definitions
(`ParameterAt`, `Number`, `NeedsParam`) say what the texts mean without the loops.

### Inbound and CommandStream

`Receive` is one `recv` with the append, the length check and the entry of the
loop; `Handle` one iteration; `Return` its end. Peers may send between any two
of them. Bytes are `x` (any), `q` (starts a command that ends the connection),
CR, LF and NUL. `CommandStream` has no chunks and no buffer: a stream of
bytes per connection, from which the server takes the first command, or which
it may refuse while more than `Limit` bytes wait.

### EventLoop

The kernel's side (`descriptors`, `unread`, `finished`, `reset`, `backlog`) may
change between any two steps of the scan. `Poll` fills `revents`; each entry of the
scan is one step; what a handler does with the bytes is left open, it keeps the
client or removes it, and leaves any `errno`. `accept`, `recv` and `poll` may
fail in the ways the code distinguishes. `KilledBySigPipe` is the end of the
process by a second send to a connection that was reset: nobody ignores SIGPIPE.

### Keepalive

Time in seconds up to a bound, the three fields of a client, `cls` in its order, and
`CheckPingTimeouts` as one action over the clients that the loop comes to (`LookedAt`):
the one behind a client that it removes is passed over.

## The runs

All of them use the modules as they stand; a `.cfg` only gives constants
their values.

| Run | Instance | Distinct states | Checks |
|---|---|---|---|
| `delivery_two_channels` | 2 clients, 2 channels, lists up to 3 names | 115,000 | `MembershipInv`, `NoDanglingMember`, `NicknamesAreKnown` |
| `delivery_three_clients` | 3 clients, 1 channel, letter `i` | 34,000 | `ViewInv`, `LeavingVoidsInvitation`, `OutsidersOnlyByGrant`, `OperatorSuccession`, `OperatorsAreAppointed` |
| `membership_modes` | 2 clients, 1 channel, letters `itkl`, 2 keys, limits 0 to 2 | 17,000 | `DeadChannelStaysDead`, `AdmittedWithinLimit` |
| `irc_server` | 2 clients, 2 nicknames, 1 channel, letters `ikl` | 195,000 | `SessionInv`, `NamesInv`, `MessagesHaveKnownSenders`, `SenderStaysOperator`, `ImplementsRegistry`, `ImplementsMembership` |
| `inbound_stream` | 1 connection, 4 bytes per chunk, limit 4, 5 bytes ahead | 48,000 | `InboundInv`, `ImplementsCommandStream`, `ServedEventually` |
| `command_text` | lines of 6 characters of 7 kinds, numbers of 5, mode strings of 5 | 166,000 | `SplitIsByWords`, `NamesCanBeRepeated`, `PasswordCanBeGiven`, `LimitIsWhatIsWritten`, `PortIsWhatIsWritten`, `ParametersInOrder` |
| `event_loop` | 2 descriptors, backlog of 1 | 46,000 | `EventLoopInv`, `RemovalsAreForTheReader`, `ClientsAreServed`, `ResetsAreNoticed`, `SignalsEndTheServer` |

What they show:

- `MembershipInv` is the reason why the broken `removeJoinedChannel` does no
  harm where it could: the list is too long but never too short, so QUIT reaches
  every channel (`NoDanglingMember`) and a new nickname every acquaintance
  (`NicknamesAreKnown`).
- `ViewInv`: the list each member shows is the list of members, and it knows
  whether it is an operator. This depends on the order of messages and
  removals in JOIN, PART and KICK.
- `OutsidersOnlyByGrant`: an operator outside the channel comes from MODE +o
  alone, and only such an entry outlives its object.
- `OperatorSuccession`, `OperatorsAreAppointed`: when a channel keeps an operator,
  and by which commands a client becomes one: MODE +o, a JOIN alone, and the
  departure of the only operator, which promotes the first of those who remain.
  So an operator who kicks itself may leave a channel that only a client alone in
  it can give one again.
- `DeadChannelStaysDead`: from which states of a channel there is no way back.
- `OutsidersOnlyByGrant`, `DeadChannelStaysDead` and the exceptions in the other
  two bound what goes wrong in this code; they do not exclude it. A pointer in `ops` does outlive its
  object, a channel can be orphaned or closed for good, and no text of the
  repository promises otherwise.
- `AdmittedWithinLimit`, `LeavingVoidsInvitation`: the limit holds at each JOIN
  though +l may be set below the number of members; who leaves needs a new
  invitation.
- `SessionInv`, `ImplementsRegistry`: no nickname has two bearers, in whatever
  order clients register and leave; NICK and USER cannot leave a complete
  client unregistered.
- `ImplementsMembership`: every step of the composed server is one of `Membership`
  or leaves it alone. What is checked and proved of channels with objects as
  targets holds for nicknames, with registration by `Session` and MODE as a loop.
- `SenderStaysOperator`: while the letters of a MODE are applied their sender
  remains an operator and a member, so that one look at its standing is enough.
  This rests on the comparison of nicknames in `mode_Plus_O`, hence on `SessionInv`.
- `NamesInv`: the members of a channel list exactly the present nicknames of its
  members, and each name is an address: KICK or MODE +o with it reaches that
  member, though `cls` also holds clients that are not registered.
- `MessagesHaveKnownSenders`: a message to a channel comes to all who list its
  sender, except itself, and to nobody else.
- `SplitIsByWords`, `ParametersInOrder`: blanks and colons, signs and letters may
  mix in any way; parameters come in order and none shifts.
- `NamesCanBeRepeated` says which of the accepted names a later command can write
  at all. A channel name with a blank, or a nickname with a TAB or a leading
  colon, is accepted and can then be given only as the last parameter: nobody can
  be kicked from such a channel.
- `PasswordCanBeGiven` says which of the passwords that `passCheck` accepts a client
  can give. `passCheck` refuses a space and a TAB, `operator>>` also stops at CR, VT and
  FF: with one of those in it the password can be given only behind a colon. With
  a line feed, or when the PASS line exceeds the 511 characters of
  `sendAndReceiveClient`, the server starts and no client can ever register.
- `LimitIsWhatIsWritten`, `PortIsWhatIsWritten`: no number is taken for what it wraps to.
- `ImplementsCommandStream`: chunks do not show. `InboundInv`: no complete
  command stays behind in a buffer, the loop never touches a deleted client, and the
  shared `to_remove` does not leak from one client to the next.
- `EventLoopInv`: the two vectors stay in step at every moment of the scan, no
  descriptor is left open or open without an entry, and an event not yet
  looked at is still true. `RemovalsAreForTheReader`: a removal closes only the
  connection whose event is handled.
- `ClientsAreServed`, `ResetsAreNoticed`: an erase makes the scan pass over one
  entry, but never for ever. `SignalsEndTheServer` needs the next `poll` only.

Runs that end in a violation state what a comment or a reply of the program
says and the program does not do (`PROJECT.json`, `findings`):

| Run | Property | Disagreement |
|---|---|---|
| `membership_limit` | `LimitIsPositive` | +l 0 is accepted |
| `session_welcome` | `RegisteredAreWelcomed` | USER before NICK: no welcome |
| `inbound_too_long` | `OnlyLongMessagesAreRefused` | several short messages in one chunk are "too long" |
| `event_loop_lost` | `LostClientsAreRemoved` | a stale `errno` keeps a closed connection for ever |
| `keepalive_ping` | `SilentClientsArePinged` | no PING is ever sent |

### Bounds

- Two clients and two channels are the least in which a list can be stale for
  one channel and current for another; `MaxJoined = 3` lets a name be in it twice beside
  the other. Three clients are the least with a leaving operator, a successor
  and a witness. `MaxJoined` disables a JOIN that would make the list longer.
- `MaxClient` of 2 instead of 50 gives limits below, at and above the number
  of members, and 0.
- `irc_server`: two clients and two nicknames, so that a name can be taken,
  refused, changed to the other and given up, and the order of `cls` matters.
  `MaxJoined` is 1 and the only limit 0 to leave room for a MODE in progress in
  every state; stale lists are in `delivery_two_channels`, limits in
  `membership_modes`, and the proofs need no bound. Three wrong passwords as in the
  code.
- `command_text`: a limit is at most 50 as in the code; the range of ports (10 to
  205), `int` (999) and `long` (5200) are scaled so that numbers of up to five
  digits reach below, into and above the range, wrap to a port and exceed a `long`.
  `MaxBuffer` is 12 in place of 511, so that a password of four characters still fits behind a
  colon and one of five does not.
  A line of 6 characters holds three words with blanks between them, or a
  trailing parameter with several blanks; a mode string of 5 holds two signs
  with letters under each, for 0 to 3 parameters.
- A chunk of 4 bytes and a limit of 4 hold two empty commands, or a command with half
  of the next separator; `MaxUnhandled` of 5 keeps a byte in the socket and lets the buffer
  exceed the limit.
- Two descriptors: one entry is erased while the other moves to its index, and
  a descriptor is reused at once. A backlog of 1 is enough for an accept in the
  same scan. (With three descriptors the safety properties were checked once:
  2.9 million states.)
- One connection in `inbound_stream`: two, which share `to_remove`, are covered by the
  proof of `InboundInv` and of the refinement for any number.

### Fairness

- `EventLoop`: `WF(Routine)`: the thread takes steps as long as it can. Nothing is
  assumed of peers or signals.
- `Inbound`: `WF` of `Handle` and `Return`, a handler runs to its end, and
  `SF(Receive(c))`: `Receive(c)` is disabled while another client is served, and
  the loop comes back to every readable socket, which is `ClientsAreServed` of
  `EventLoop`.
- `Keepalive`: `WF(CheckPingTimeouts)`, which runs after every scan, at least
  every 100 ms.

Deadlock is checked except in `EventLoop`, whose process may end, and in
`CommandText`, whose texts stop at their greatest length.

## The proofs

For any sets of clients, channels, keys, topics, nicknames, bytes and descriptors,
texts of any length, and any bounds that satisfy the modules' assumptions
(`MembershipAssumption` asks for a finite set of clients, `TextAssumption` for an `int`
that holds three digits and every port).

- `MembershipProofs`: `MembershipInvariant` is the invariant of the runs, and
  it is inductive. `NoDanglingMember` alone is not: that a member is live after QUIT
  needs that QUIT went through all its channels (`MembershipRecorded`), that each
  PART removed the only entry (`MembersAreRegisteredOnce`) and that `findChannel`
  found the object (`OccupiedChannelExists`). The proof has one lemma per action; PART,
  KICK and QUIT share `LeaveKeepsInv`. The action properties follow from the
  invariant and `ChannelStep`, which says what a step may do to one channel.
- `SequenceLemmas`: what `RemoveFirst`, `Append` and `Tail` do to the elements of a
  sequence and to its freedom from duplicates, what a part of a sequence and two joined
  ones are; induction, upwards and downwards, and that functions defined by
  recursion on a number exist (below).
- `SessionProofs`: `SessionInvariant`, again inductive as checked, and
  `SessionImplementsRegistry`: PASS that fails for the last time and QUIT are Leave, NICK is
  Take, everything else stutters; uniqueness makes `Owner` well defined.
- `DeliveryProofs`: `DeliveryImplementsMembership` shows that each step with its
  deliveries is a step of `Membership` or leaves it alone, so the theorems above
  hold of `Delivery` too. `PicturesAreTrue` and `RenamesAreHeard` then rest on
  `MembershipInv`: the audience of a PART is right because nobody is listed
  twice, that of NICK because every member is recorded in its own list. `ViewInv` and
  `NicknamesAreKnown` are inductive beside it.
- `EventLoopProofs`: `EventLoopInvariant`; `EventLoopInv` is inductive as checked,
  through every append and erase in the middle of a scan. The lemmas follow
  the parts of a step: looking at an entry (`LookKeepsInv`), `addClient`
  (`AddClientKeepsInv`), `quitHandle` with its two searches (`RemovalKeepsInv`).
  `RemovalsHitTheReader` follows, because descriptors in the table are distinct.

- `InboundProofs`: `InboundInvariant` and `InboundImplementsStream`. The invariant of
  the run is not inductive: it needs that nobody but the client being served has a
  complete command in its buffer (`OthersWait`), that `to_remove` is true exactly when
  that client is gone (`FlagIsTrue`), and that nothing waits on a closed connection
  (`WiresEnd`). For the refinement, the bytes of a connection are its buffer followed
  by what is unread; `CommandOfPrefix` says that the first command of a buffer is the
  first of any longer stream, and `BytesAssociate` that a chunk may be moved from one to
  the other. The refinement is proved for bytes without NUL, because `append` takes a C
  string; the invariant holds with NUL, too.
- `IrcServerProofs` builds on the others: a step of the composition is a step of
  `Session` (`StepOfSession`), which gives `ServerSessions` and
  `ServerImplementsRegistry`; `MembershipProofs` is instantiated, and
  `ServerImplementsMembership` goes through the letters of a running MODE with
  `SenderStaysOperator`. That property and the refinement need each other:
  a sender is not demoted because a letter that names it is refused, which needs
  unique nicknames, and it is an operator in the first place because of the
  invariant of `Membership`. They are proved as one invariant, `ChannelInv`.
  `NamesAlwaysResolve` needs more: the list of EVERY client for EVERY channel is
  right, empty if it is no member (`ListsTrue`), because a list left over from an
  earlier stay would be shown again after the next JOIN.
  `ServerForgetsWhoLeft`, `ServerKeepsOperators` and `ServerAdmitsWithinLimits` state
  what `ServerImplementsMembership` is for: the theorems of `MembershipProofs`, of
  the server with its nicknames, its sessions and its loop of MODE.
- `CommandTextProofs`: all six invariants of `CommandText`, for texts of any length.
  The state machine only makes texts (`TextInvariant`); the rest is about functions.
  - *Numbers.* `Number` of digits is a natural number, and of three digits at most 999. The
    check on the length in `mode_Plus_L` leaves no more than three, which an `int` holds (`LimitsAreAsWritten`); `checkPortisValid` compares before it converts
    (`PortsAreAsWritten`).
  - *MODE.* `LoopInv` says of each position what the loop has called and which
    parameters are left, by counts of the positions before it (`Rank`). One lemma
    does the step; `ParametersGoInOrder` is `LoopInv` at the end of the text.
  - *Lines.* A recursive function is a CHOOSE, so that nothing follows from its
    equation before some function is shown to satisfy it. `SplitExists` and
    `SplitUnfolds` do that for `SplitIRCMessage`: on lines up to each length one exists
    and no two differ. `SplitOfBlanks`, `SplitOfWord` and `SplitOfTrailing` are
    the three things that the code does with what is left of the line.
  - *Names and passwords* follow a short line (`KICK a :name`, `pass :password`,
    `pass password`) through these three. For a password all directions are proved
    (`PasswordGivenLast`, `PasswordGivenPlain`): which come back and which do not. In `NamesCanBeRepeated` both directions are proved: a name
    with a blank or a leading colon does come back as something else.
  - *Words.* `LinesAreSplitByWords` goes backwards through the positions where the loop
    may stand (`Boundary`): from there on, each word is a parameter and has its
    place by its rank (`ByWords`).

The library's induction theorems take an operator as a parameter and cannot be used
here. `SetInduction` says the same of a SET of numbers, from the well-foundedness of
`<` on `Nat`; an induction then names the set of numbers for which its claim holds,
and shows that 0 is in it and that it is closed.

Only model-checked, with the reasons:

- `ServedEventually`, `ClientsAreServed`, `ResetsAreNoticed` and `SignalsEndTheServer`: liveness
  under fairness needs ENABLED, of which this prover knows nothing.
- `Keepalive`: its one property is violated by the code, and there is nothing to prove.
- The other four runs that end in a violation: a counterexample is all they are for.
- `RECURSIVE` operators are out of the prover's reach. No module declares one:
  recursion is written as functions, of which the proofs above speak.

Every invariant, every safety property of a step and every refinement that a passing run
checks is also a theorem.

## Not modelled

- The wording of replies, numeric codes, logging.
- Failed or partial sends: the code has no reaction to them.
- QUIT without a parameter while in a channel and INVITE with one read an
  element of an empty vector (hazards): the models start from commands that have
  their parameters, and nothing can be said of a run after such a read.
- The calls of `startServer` (socket, setsockopt, bind, listen), each of which
  ends the program if it fails; its result, the entry of the listening socket, is
  the initial state of `EventLoop`.
- `~Server` deletes what is left; only the closing of descriptors is in
  `EventLoop`.
- PRIVMSG to a nickname: one send to `FindClientByNick` of it, of which `NamesInv`
  says that it is the right one.

## Plan

1. Done: `Membership`, `Delivery`, `Session`, `EventLoop` and `Inbound` with proofs,
   `Keepalive`.
2. Done: `IrcServer`, the composition, with proofs; its run took the place of one
   for `Session` alone.
3. Done: `CommandText`, with the letters of MODE, the line, the limit and the
   command line, with proofs.
4. Open: `EventLoop` leaves the handlers open and `Inbound` takes the readable
   sockets as they come; composing them with `IrcServer` would repeat the states of
   all three in one run, which is out of TLC's reach, so that they meet
   only in their interfaces (a handler keeps its client or removes it).
