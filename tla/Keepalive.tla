------------------------------ MODULE Keepalive ------------------------------
(***************************************************************************)
(* checkPingTimeouts, which Routine calls after every scan, and the time   *)
(* stamps of a client that it reads: PING to a client that has been silent *)
(* for PING_INTERVAL, removal of one that does not answer within           *)
(* PING_TIMEOUT.  Times are in seconds, as time() gives them.              *)
(***************************************************************************)
EXTENDS Integers, SequencesExt

CONSTANTS
  Client,           \* connections
  PING_INTERVAL,
  PING_TIMEOUT,
  MaxTime           \* bound: the clock stops there

VARIABLES
  now,              \* time(NULL), after 1970
  cls,              \* Server::cls, in order of arrival
  last_activity, last_ping_time, waiting_for_pong

vars == <<now, cls, last_activity, last_ping_time, waiting_for_pong>>

TypeOK ==
  /\ now \in 1..MaxTime
  /\ cls \in Seq(Client) /\ IsInjective(cls)
  /\ last_activity \in [Client -> 0..MaxTime]
  /\ last_ping_time \in [Client -> 0..MaxTime]
  /\ waiting_for_pong \in [Client -> BOOLEAN]

Init ==
  /\ now = 1
  /\ cls = <<>>
  /\ last_activity = [c \in Client |-> 0]
  /\ last_ping_time = [c \in Client |-> 0]
  /\ waiting_for_pong = [c \in Client |-> FALSE]

Tick ==
  /\ now < MaxTime
  /\ now' = now + 1
  /\ UNCHANGED <<cls, last_activity, last_ping_time, waiting_for_pong>>

Connect(c) ==
  /\ c \notin ToSet(cls)
  /\ cls' = Append(cls, c)
  /\ last_activity' = [last_activity EXCEPT ![c] = now]
  /\ last_ping_time' = [last_ping_time EXCEPT ![c] = 0]
  /\ waiting_for_pong' = [waiting_for_pong EXCEPT ![c] = FALSE]
  /\ UNCHANGED now

\* recv returned bytes, or the client sent PING.  There is no handler for
\* PONG, and nothing sets waiting_for_pong to false again.
UpdateLastActivity(c) ==
  /\ c \in ToSet(cls)
  /\ last_activity' = [last_activity EXCEPT ![c] = now]
  /\ UNCHANGED <<now, cls, last_ping_time, waiting_for_pong>>

Leave(c) ==
  /\ c \in ToSet(cls)
  /\ cls' = RemoveFirst(cls, c)
  /\ UNCHANGED <<now, last_activity, last_ping_time, waiting_for_pong>>

\* The tests of the loop for one client.  One that has never been sent a PING
\* is passed over, by the first of them.
Pingable(c) == last_ping_time[c] # 0

TimesOut(c) ==
  /\ Pingable(c)
  /\ waiting_for_pong[c]
  /\ now - last_ping_time[c] > PING_TIMEOUT

Silent(c) == now - last_activity[c] > PING_INTERVAL

\* The clients whom the loop comes to: when it removes one the next moves to
\* the index that the loop then leaves.
LookedAt ==
  LET seen[i \in DOMAIN cls] ==
        i > 1 => ~(seen[i - 1] /\ TimesOut(cls[i - 1]))
  IN  {cls[i] : i \in {j \in DOMAIN cls : seen[j]}}

TimedOut == {c \in LookedAt : TimesOut(c)}

Pinged == {c \in LookedAt \ TimedOut : Pingable(c) /\ Silent(c)}

CheckPingTimeouts ==
  /\ cls' = SelectSeq(cls, LAMBDA c : c \notin TimedOut)
  /\ last_ping_time' =
       [c \in Client |-> IF c \in Pinged THEN now ELSE last_ping_time[c]]
  /\ waiting_for_pong' =
       [c \in Client |-> waiting_for_pong[c] \/ c \in Pinged]
  /\ UNCHANGED <<now, last_activity>>

Next ==
  \/ Tick
  \/ CheckPingTimeouts
  \/ \E c \in Client : Connect(c) \/ UpdateLastActivity(c) \/ Leave(c)

\* Routine comes to checkPingTimeouts at least every 100 ms.
Spec == Init /\ [][Next]_vars /\ WF_vars(CheckPingTimeouts)
-----------------------------------------------------------------------------
(***************************************************************************)
(* What the text of the program says and the program does not do.          *)
(***************************************************************************)

\* Server.cpp:322, in English: if there has been no activity for a certain
\* time, we send PING.
SilentClientsArePinged ==
  \A c \in Client :
    c \in ToSet(cls) /\ Silent(c)
      ~> c \notin ToSet(cls) \/ ~Silent(c) \/ waiting_for_pong[c]
=============================================================================
