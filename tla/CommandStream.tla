---------------------------- MODULE CommandStream ----------------------------
(***************************************************************************)
(* What the server promises about the bytes of a connection: cut at every  *)
(* CRLF they are commands, which it handles one by one in the order they   *)
(* were sent, each of them once, until the connection ends.  How the       *)
(* network splits the bytes does not show.                                 *)
(***************************************************************************)
EXTENDS Integers, Sequences

CONSTANTS
  Connection,       \* connections, each with its own stream
  Byte,             \* the bytes that peers send
  Limit,            \* unhandled bytes that a connection may always have
  Closes(_)         \* does the server end the connection at this command?

VARIABLES
  open,             \* connections that the server has accepted
  stream,           \* bytes sent on a connection and not yet handled
  event             \* what the server did last

vars == <<open, stream, event>>

CRLFAt(s, i) == s[i] = "CR" /\ s[i + 1] = "LF"

HasCommand(s) == \E i \in 1..(Len(s) - 1) : CRLFAt(s, i)

\* The position of the CR that ends the first command.
End(s) ==
  CHOOSE i \in 1..(Len(s) - 1) : CRLFAt(s, i) /\ \A j \in 1..(i - 1) : ~CRLFAt(s, j)

First(s) == SubSeq(s, 1, End(s) - 1)
Rest(s) == SubSeq(s, End(s) + 2, Len(s))

Ended(c) ==
  /\ open' = open \ {c}
  /\ stream' = [stream EXCEPT ![c] = <<>>]

Init ==
  /\ open = {}
  /\ stream = [c \in Connection |-> <<>>]
  /\ event = [kind |-> "none", command |-> <<>>]

Open(c) == c \notin open /\ open' = open \cup {c} /\ UNCHANGED <<stream, event>>

Send(c, b) ==
  /\ c \in open
  /\ stream' = [stream EXCEPT ![c] = Append(@, b)]
  /\ UNCHANGED <<open, event>>

Serve(c) ==
  /\ c \in open
  /\ HasCommand(stream[c])
  /\ event' = [kind |-> "command", command |-> First(stream[c])]
  /\ IF Closes(First(stream[c]))
     THEN Ended(c)
     ELSE stream' = [stream EXCEPT ![c] = Rest(@)] /\ UNCHANGED open

\* A connection that keeps more than Limit bytes waiting may be refused.
Refuse(c) ==
  /\ c \in open
  /\ Len(stream[c]) > Limit
  /\ event' = [kind |-> "too long", command |-> <<>>]
  /\ Ended(c)

\* The peer is gone; what it sent last may never be handled.
Lose(c) ==
  /\ c \in open
  /\ event' = [kind |-> "lost", command |-> <<>>]
  /\ Ended(c)

Next ==
  \E c \in Connection :
    Open(c) \/ (\E b \in Byte : Send(c, b)) \/ Serve(c) \/ Refuse(c) \/ Lose(c)

Spec == Init /\ [][Next]_vars
=============================================================================
