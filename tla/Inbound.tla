------------------------------- MODULE Inbound -------------------------------
(***************************************************************************)
(* From bytes to commands: sendAndReceiveClient receives a chunk, appends  *)
(* it to Client::buffer and hands every complete command of the buffer to  *)
(* parseHandleCmd.                                                         *)
(*                                                                         *)
(* The server is one thread: between the chunk and the end of the loop     *)
(* (serving # Nobody) no other client is served, but peers go on sending.  *)
(* What a command does to channels and sessions is in Membership and       *)
(* Session; here it either leaves the connection open or, as QUIT and the  *)
(* third wrong PASS do, deletes the Client object under the running loop.  *)
(***************************************************************************)
EXTENDS Integers, Sequences, FiniteSets, SequencesExt

CONSTANTS
  Client,           \* addresses of Client objects, one per connection
  Nobody,           \* no client: none is being served
  Byte,             \* bytes that peers send; "q" starts a command that closes
  RecvSize,         \* BUFFER_SIZE - 1, the most that one recv returns
  MaxBuffer,        \* 511, the longest buffer that is not "too long"
  MaxUnhandled      \* bound: bytes a peer is ahead of the server

ASSUME InboundAssumption ==
  /\ Nobody \notin Client
  /\ Byte \subseteq {"x", "q", "CR", "LF", "NUL"}
  /\ RecvSize \in Nat \ {0}
  /\ MaxBuffer \in Nat
  /\ MaxUnhandled \in Nat

VARIABLES
  cls,              \* Server::cls, as a set
  wire,             \* bytes that a peer has sent and recv has not returned
  buffer,           \* Client::buffer
  serving,          \* the client whose handler runs
  to_remove,        \* Server::to_remove: a client was removed by a handler
  event             \* what the server did last, for CommandStream

vars == <<cls, wire, buffer, serving, to_remove, event>>

TypeOK ==
  /\ cls \subseteq Client
  /\ wire \in [Client -> Seq(Byte)]
  /\ buffer \in [Client -> Seq(Byte)]
  /\ serving \in Client \cup {Nobody}
  /\ to_remove \in BOOLEAN
  /\ event \in [kind : {"none", "command", "too long", "lost"},
                command : Seq(Byte)]

\* Server::to_remove is not initialised; every handler sets it before it
\* reads it.
Init ==
  /\ cls = {}
  /\ wire = [c \in Client |-> <<>>]
  /\ buffer = [c \in Client |-> <<>>]
  /\ serving = Nobody
  /\ to_remove \in BOOLEAN
  /\ event = [kind |-> "none", command |-> <<>>]

-----------------------------------------------------------------------------
CRLFAt(s, i) == s[i] = "CR" /\ s[i + 1] = "LF"

HasCRLF(s) == \E i \in 1..(Len(s) - 1) : CRLFAt(s, i)

\* Mutant of FindCRLF: the last separator of the buffer, not the first.
FindLastCRLF(s) ==
  CHOOSE i \in 1..(Len(s) - 1) :
    CRLFAt(s, i) /\ \A j \in (i + 1)..(Len(s) - 1) : ~CRLFAt(s, j)

FindCRLF(s) ==
  CHOOSE i \in 1..(Len(s) - 1) :
    CRLFAt(s, i) /\ \A j \in 1..(i - 1) : ~CRLFAt(s, j)

\* A chunk is appended as a C string: a NUL hides the rest of it.
CString(s) ==
  LET nul == {i \in DOMAIN s : s[i] = "NUL"}
  IN  IF nul = {} THEN s
      ELSE SubSeq(s, 1, (CHOOSE i \in nul : \A j \in nul : i <= j) - 1)

\* Does the handler of this command remove the client that sent it?
Closes(command) == command # <<>> /\ Head(command) = "q"

\* quitHandle deletes the object, whose buffer still lies in freed memory;
\* to_remove tells the loop.
Removed(c) ==
  /\ cls' = cls \ {c}
  /\ wire' = [wire EXCEPT ![c] = <<>>]
  /\ to_remove' = TRUE

-----------------------------------------------------------------------------
\* The peer.
Connect(c) ==
  /\ serving = Nobody
  /\ c \notin cls
  /\ cls' = cls \cup {c}
  /\ buffer' = [buffer EXCEPT ![c] = <<>>]
  /\ UNCHANGED <<wire, serving, to_remove, event>>

Send(c, b) ==
  /\ c \in cls
  /\ Len(buffer[c]) + Len(wire[c]) < MaxUnhandled
  /\ wire' = [wire EXCEPT ![c] = Append(@, b)]
  /\ UNCHANGED <<cls, buffer, serving, to_remove, event>>

\* The connection ends, by a recv that returns nothing or by POLLHUP; in the
\* second case unread bytes may be left.
Lose(c) ==
  /\ serving = Nobody
  /\ c \in cls
  /\ Removed(c)
  /\ event' = [kind |-> "lost", command |-> <<>>]
  /\ UNCHANGED <<buffer, serving>>

\* Mutant of Resets: to_remove keeps the value that the last handler left.
NeverResets == to_remove

\* The value of to_remove before the loop.
Resets == FALSE

\* One recv, the check of the length, and the entry of the loop.
Receive(c) ==
  /\ serving = Nobody
  /\ c \in cls
  /\ \E n \in 1..Len(wire[c]) :
       /\ n <= RecvSize
       /\ LET filled == buffer[c] \o CString(SubSeq(wire[c], 1, n))
          IN  IF Len(filled) > MaxBuffer
              THEN /\ Removed(c)
                   /\ event' = [kind |-> "too long", command |-> <<>>]
                   /\ UNCHANGED <<buffer, serving>>
              ELSE /\ wire' = [wire EXCEPT ![c] = SubSeq(@, n + 1, Len(@))]
                   /\ buffer' = [buffer EXCEPT ![c] = filled]
                   /\ to_remove' = Resets
                   /\ serving' = c
                   /\ UNCHANGED <<cls, event>>

\* Mutant of Loops: a separator at the very end of the buffer is not seen.
LoopsShort == ~to_remove /\ HasCRLF(Front(buffer[serving]))

\* The condition of the loop; the buffer is read only if no handler has
\* removed the client.
Loops == ~to_remove /\ HasCRLF(buffer[serving])

Handle(c) ==
  /\ serving = c
  /\ Loops
  /\ LET pos == FindCRLF(buffer[c])
         command == SubSeq(buffer[c], 1, pos - 1)
     IN  /\ event' = [kind |-> "command", command |-> command]
         /\ buffer' = [buffer EXCEPT ![c] = SubSeq(@, pos + 2, Len(@))]
         /\ IF Closes(command) THEN Removed(c)
                               ELSE UNCHANGED <<cls, wire, to_remove>>
  /\ UNCHANGED serving

Return ==
  /\ serving # Nobody
  /\ ~Loops
  /\ serving' = Nobody
  /\ UNCHANGED <<cls, wire, buffer, to_remove, event>>

Next ==
  \/ \E c \in Client :
       \/ Connect(c)
       \/ \E b \in Byte : Send(c, b)
       \/ Lose(c)
       \/ Receive(c)
       \/ Handle(c)
  \/ Return

Spec == Init /\ [][Next]_vars

\* A handler runs to its end (WF).  Receive(c) is disabled whenever another
\* client is served, but poll reports unread bytes until they are read and
\* the loop comes to every socket (SF): ClientsAreServed of EventLoop.
Fairness ==
  /\ \A c \in Client : SF_vars(Receive(c)) /\ WF_vars(Handle(c))
  /\ WF_vars(Return)

FairSpec == Spec /\ Fairness
-----------------------------------------------------------------------------
\* Bytes that c has sent and that are not handled yet.
Unhandled(c) == IF c \in cls THEN buffer[c] \o wire[c] ELSE <<>>

\* However the network cuts the stream (a CR at the end of one recv and its
\* LF at the start of the next), every command is handled once, whole and in
\* order, and none of a client that a handler has removed.  A NUL breaks
\* this: Byte is without it where this is checked.
Commands ==
  INSTANCE CommandStream WITH
    Connection <- Client, Limit <- MaxBuffer, open <- cls,
    stream <- [c \in Client |-> Unhandled(c)]

ImplementsCommandStream == Commands!Spec

\* When a handler returns, no client's buffer holds a complete command: poll
\* would not call for it again.  All clients share one to_remove.
NothingLeftBehind ==
  serving = Nobody => \A c \in cls : ~HasCRLF(buffer[c])

\* The loop reads the buffer only of a client that is still there.
LoopReadsLiveClient == serving # Nobody /\ ~to_remove => serving \in cls

\* What is kept for later is never longer than what is refused at once.
BufferBounded == \A c \in cls : Len(buffer[c]) <= MaxBuffer

\* The invariant of the module.
InboundInv ==
  TypeOK /\ NothingLeftBehind /\ LoopReadsLiveClient /\ BufferBounded

\* A client whose commands are waiting is served again and again.
ServedEventually ==
  \A c \in Client :
    <>[]HasCRLF(Unhandled(c)) => []<><<Handle(c)>>_vars

(***************************************************************************)
(* What the text of the program says and the program does not do.          *)
(***************************************************************************)

\* A message that is too long for the buffer, its CRLF included.
LongMessage(s) ==
  \E i, j \in DOMAIN s :
    j - i >= MaxBuffer /\ \A k \in i..(j - 2) : ~CRLFAt(s, k)

RefusesLongMessages ==
  \A c \in cls \ cls' :
    event'.kind = "too long" => LongMessage(Unhandled(c))

\* Server.cpp:188, the reason that the other members are given when a client
\* is removed: "Msg is too long, you're now disconnected".
OnlyLongMessagesAreRefused == [][RefusesLongMessages]_vars
=============================================================================
