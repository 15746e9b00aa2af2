------------------------------- MODULE Session -------------------------------
(***************************************************************************)
(* The life of a client's session: connection, password, nickname, user    *)
(* name, registration and departure, as PASS, CAP, NICK, USER and QUIT     *)
(* change the Client object.  A command that is refused changes nothing    *)
(* and is a stuttering step.                                               *)
(*                                                                         *)
(* As in Membership, Client is the set of addresses of Client objects.     *)
(* The fields of an address that is not live have their initial values.    *)
(***************************************************************************)
EXTENDS Integers, Sequences, FiniteSets, SequencesExt

CONSTANTS
  Client,           \* addresses the allocator may give to a Client object
  Nick,             \* nicknames that pass the checks of length and characters
  NoNick,           \* the empty nickname of a new client
  Nobody            \* the NULL that findClientByNick returns

ASSUME SessionAssumption == NoNick \notin Nick /\ Nobody \notin Client

\* passHandle disconnects on the third wrong password.
MaxAttempts == 2

VARIABLES
  cls,              \* Server::cls, in order of connection
  hasPassword, nickname, isRegistered, got_cap_end,
  hasUsername,      \* is Client::username non-empty?
  attempts,         \* Client::invalid_password_attempts
  welcomed          \* clients that were sent the replies of a welcome

vars == <<cls, hasPassword, nickname, hasUsername, isRegistered, attempts,
          got_cap_end, welcomed>>

Live == ToSet(cls)

TypeOK ==
  /\ cls \in Seq(Client)
  /\ hasPassword \in [Client -> BOOLEAN]
  /\ nickname \in [Client -> Nick \cup {NoNick}]
  /\ hasUsername \in [Client -> BOOLEAN]
  /\ isRegistered \in [Client -> BOOLEAN]
  /\ attempts \in [Client -> 0..MaxAttempts]
  /\ got_cap_end \in [Client -> BOOLEAN]
  /\ welcomed \subseteq Live

Init ==
  /\ cls = <<>>
  /\ hasPassword = [c \in Client |-> FALSE]
  /\ nickname = [c \in Client |-> NoNick]
  /\ hasUsername = [c \in Client |-> FALSE]
  /\ isRegistered = [c \in Client |-> FALSE]
  /\ attempts = [c \in Client |-> 0]
  /\ got_cap_end = [c \in Client |-> FALSE]
  /\ welcomed = {}

-----------------------------------------------------------------------------
\* Mutants of NickInUse: clients that are not registered yet are passed
\* over; the loop stops one client short.
NickRegistered(c, n) == \E d \in Live \ {c} : isRegistered[d] /\ nickname[d] = n
NickInUseButLast(c, n) ==
  \E i \in 1..(Len(cls) - 1) : cls[i] # c /\ nickname[cls[i]] = n

NickInUse(c, n) == \E d \in Live \ {c} : nickname[d] = n

\* canRegister, of the values that the handler has just given c.
CanRegister(pass, nick, user) == pass /\ nick # NoNick /\ user

Connect(c) ==
  /\ c \notin Live
  /\ cls' = Append(cls, c)
  /\ UNCHANGED <<hasPassword, nickname, hasUsername, isRegistered, attempts,
                 got_cap_end, welcomed>>

\* removeClient deletes the object: the address is free to be used again.
Delete(c) ==
  /\ cls' = RemoveFirst(cls, c)
  /\ hasPassword' = [hasPassword EXCEPT ![c] = FALSE]
  /\ nickname' = [nickname EXCEPT ![c] = NoNick]
  /\ hasUsername' = [hasUsername EXCEPT ![c] = FALSE]
  /\ isRegistered' = [isRegistered EXCEPT ![c] = FALSE]
  /\ attempts' = [attempts EXCEPT ![c] = 0]
  /\ got_cap_end' = [got_cap_end EXCEPT ![c] = FALSE]
  /\ welcomed' = welcomed \ {c}

Quit(c) == c \in Live /\ Delete(c)

PassAccepted(c) ==
  /\ c \in Live
  /\ ~isRegistered[c]
  /\ hasPassword' = [hasPassword EXCEPT ![c] = TRUE]
  /\ UNCHANGED <<cls, nickname, hasUsername, isRegistered, attempts,
                 got_cap_end, welcomed>>

\* A wrong password does not undo an earlier right one.
PassRejected(c) ==
  /\ c \in Live
  /\ ~isRegistered[c]
  /\ attempts[c] < MaxAttempts
  /\ attempts' = [attempts EXCEPT ![c] = @ + 1]
  /\ UNCHANGED <<cls, hasPassword, nickname, hasUsername, isRegistered,
                 got_cap_end, welcomed>>

PassRejectedForGood(c) ==
  /\ c \in Live
  /\ ~isRegistered[c]
  /\ attempts[c] + 1 > MaxAttempts
  /\ Delete(c)

CapEnd(c) ==
  /\ c \in Live
  /\ got_cap_end' = [got_cap_end EXCEPT ![c] = TRUE]
  /\ UNCHANGED <<cls, hasPassword, nickname, hasUsername, isRegistered,
                 attempts, welcomed>>

\* nickNameHandle registers without the replies of a welcome.
SetNick(c, n) ==
  /\ c \in Live
  /\ hasPassword[c]
  /\ ~NickInUse(c, n)
  /\ nickname' = [nickname EXCEPT ![c] = n]
  /\ isRegistered' = [isRegistered EXCEPT ![c] =
                        @ \/ CanRegister(hasPassword[c], n, hasUsername[c])]
  /\ UNCHANGED <<cls, hasPassword, hasUsername, attempts, got_cap_end,
                 welcomed>>

SetUser(c) ==
  /\ c \in Live
  /\ hasPassword[c]
  /\ ~isRegistered[c]
  /\ hasUsername' = [hasUsername EXCEPT ![c] = TRUE]
  /\ isRegistered' = [isRegistered EXCEPT ![c] =
                        CanRegister(hasPassword[c], nickname[c], TRUE)]
  /\ welcomed' = IF isRegistered'[c] THEN welcomed \cup {c} ELSE welcomed
  /\ UNCHANGED <<cls, hasPassword, nickname, attempts, got_cap_end>>

Next ==
  \E c \in Client :
    \/ Connect(c)
    \/ Quit(c)
    \/ PassAccepted(c)
    \/ PassRejected(c)
    \/ PassRejectedForGood(c)
    \/ CapEnd(c)
    \/ \E n \in Nick : SetNick(c, n)
    \/ SetUser(c)

Spec == Init /\ [][Next]_vars

-----------------------------------------------------------------------------
\* A nickname never has two bearers among the live clients, registered or not.
NickUnique ==
  \A c, d \in Live :
    c # d /\ nickname[c] = nickname[d] => nickname[c] = NoNick

\* A client is registered exactly when it has given a password, a nickname
\* and a user name, in whatever order NICK and USER came; neither handler can
\* leave a complete client unregistered.
RegisteredIffComplete ==
  \A c \in Client :
    /\ isRegistered[c] <=> nickname[c] # NoNick /\ hasUsername[c]
    /\ nickname[c] # NoNick \/ hasUsername[c] => hasPassword[c]

\* A Client object is in cls once, and a new one starts from nothing.
LiveOnce ==
  /\ IsInjective(cls)
  /\ \A c \in Client \ Live :
       nickname[c] = NoNick /\ ~hasPassword[c] /\ attempts[c] = 0

\* The inductive invariant behind the properties of this module.
SessionInv == TypeOK /\ NickUnique /\ RegisteredIffComplete /\ LiveOnce

\* Sessions keep the promise of NickRegistry, where the owner of a nickname
\* is the live client that bears it.
Bearers(n) == {c \in Live : nickname[c] = n}

Owner(n) ==
  IF Bearers(n) = {} THEN Nobody ELSE CHOOSE c \in Bearers(n) : TRUE

Registry == INSTANCE NickRegistry WITH owner <- [n \in Nick |-> Owner(n)]

ImplementsRegistry == Registry!Spec

\* ServerCommands.cpp:133: "If all goes well it means registiration was a
\* success and we send a welcome msg".
RegisteredAreWelcomed == \A c \in Live : isRegistered[c] => c \in welcomed
=============================================================================
