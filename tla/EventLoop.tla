------------------------------ MODULE EventLoop ------------------------------
(***************************************************************************)
(* Server::Routine: poll, one scan of the poll table, and again, until a   *)
(* signal or an error of poll.  The table fd_polls and the clients cls are *)
(* two vectors kept in step by hand: the client of fd_polls[i] is taken to *)
(* be cls[i - 1], while handlers append to both and erase from both during *)
(* the scan.                                                               *)
(*                                                                         *)
(* A Client object is represented by its descriptor, Client::fd.  The      *)
(* kernel's side is what poll, recv and accept report: it may change       *)
(* between any two steps of the scan.  What a handler does with the bytes  *)
(* it has read is left open (Inbound): the client stays or is removed, and *)
(* the messages it sends may leave any error in errno.                     *)
(***************************************************************************)
EXTENDS Integers, Sequences, FiniteSets, SequencesExt

CONSTANTS
  Fd,               \* descriptors that accept may return
  Listener,         \* Server::Fd
  MaxBacklog        \* bound: connections that wait for accept

ASSUME EventLoopAssumption == Listener \notin Fd /\ MaxBacklog \in Nat

VARIABLES
  \* the kernel
  descriptors,      \* descriptors that are open
  unread,           \* those with bytes to read
  finished,         \* those whose peer has sent its FIN
  reset,            \* those whose connection was reset
  backlog,          \* number of connections that wait for accept
  \* the server
  fd_polls,         \* Server::fd_polls
  cls,              \* Server::cls, as the sequence of their fd
  pc, i,            \* where Routine is: in poll, or at fd_polls[i]
  errno,            \* "EWOULDBLOCK" or "other"
  signal            \* Server::signal

kernelVars == <<descriptors, unread, finished, reset, backlog>>
serverVars == <<fd_polls, cls, pc, i, errno, signal>>
vars == <<kernelVars, serverVars>>

Errno == {"EWOULDBLOCK", "other"}

TypeOK ==
  /\ descriptors \subseteq Fd \cup {Listener}
  /\ unread \subseteq descriptors \ {Listener}
  /\ finished \subseteq descriptors \ {Listener}
  /\ reset \subseteq descriptors \ {Listener}
  /\ backlog \in 0..MaxBacklog
  /\ fd_polls \in Seq([fd : Fd \cup {Listener}, revents : SUBSET {"IN", "HUP"}])
  /\ cls \in Seq(Fd)
  /\ pc \in {"poll", "scan", "exit"}
  /\ i \in Nat
  /\ errno \in Errno
  /\ signal \in BOOLEAN

\* After startServer: the table holds the listening socket.
Init ==
  /\ descriptors = {Listener}
  /\ unread = {} /\ finished = {} /\ reset = {}
  /\ backlog = 0
  /\ fd_polls = <<[fd |-> Listener, revents |-> {}]>>
  /\ cls = <<>>
  /\ pc = "poll" /\ i = 0
  /\ errno = "other"
  /\ signal = FALSE

-----------------------------------------------------------------------------
\* The peers, and the signals that end the server.

Alive(f) == f \in descriptors \ ({Listener} \cup finished \cup reset)

PeerConnects ==
  /\ Listener \in descriptors
  /\ backlog < MaxBacklog
  /\ backlog' = backlog + 1
  /\ UNCHANGED <<descriptors, unread, finished, reset, serverVars>>

PeerSends(f) ==
  /\ Alive(f)
  /\ unread' = unread \cup {f}
  /\ UNCHANGED <<descriptors, finished, reset, backlog, serverVars>>

PeerFinishes(f) ==
  /\ Alive(f)
  /\ finished' = finished \cup {f}
  /\ UNCHANGED <<descriptors, unread, reset, backlog, serverVars>>

PeerResets(f) ==
  /\ f \in descriptors \ ({Listener} \cup reset)
  /\ reset' = reset \cup {f}
  /\ UNCHANGED <<descriptors, unread, finished, backlog, serverVars>>

HandleSignal ==
  /\ pc # "exit"
  /\ signal' = TRUE
  /\ UNCHANGED <<kernelVars, fd_polls, cls, pc, i, errno>>

-----------------------------------------------------------------------------
\* Mutant of Stopping: the loop goes on after a signal.
GoesOn == FALSE

\* Routine looks at signal after every poll, which a signal interrupts.
Stopping == signal

\* What poll reports of a socket.
Events(f) ==
  (IF f = Listener THEN IF backlog > 0 THEN {"IN"} ELSE {}
   ELSE IF f \in unread \cup finished \cup reset THEN {"IN"} ELSE {})
  \cup (IF f \in reset THEN {"HUP"} ELSE {})

Poll ==
  /\ pc = "poll"
  /\ ~Stopping
  /\ fd_polls' = [j \in DOMAIN fd_polls |->
                    [fd_polls[j] EXCEPT !.revents = Events(fd_polls[j].fd)]]
  /\ pc' = "scan"
  /\ i' = 0
  /\ UNCHANGED <<kernelVars, cls, errno, signal>>

\* Both ways out of Routine, and ~Server after them, delete the clients of
\* cls, whose destructor closes their descriptor, and close Fd; the table
\* goes with the Server object.  A signal that kills the process has the
\* same effect on the kernel's side.
CloseAll ==
  /\ descriptors' = descriptors \ (ToSet(cls) \cup {Listener})
  /\ unread' = unread \cap descriptors'
  /\ finished' = finished \cap descriptors'
  /\ reset' = reset \cap descriptors'
  /\ backlog' = 0
  /\ cls' = <<>>
  /\ fd_polls' = <<>>
  /\ pc' = "exit"
  /\ UNCHANGED <<i, errno, signal>>

Shutdown == pc = "poll" /\ Stopping /\ CloseAll

\* A signal without handler (SIGCONT after SIGSTOP) interrupts poll, which
\* throws: "poll error".
PollFails == pc = "poll" /\ ~Stopping /\ CloseAll

-----------------------------------------------------------------------------
\* Server::fd_polls[i]; TLA+ counts from 1.
Entry == fd_polls[i + 1]

ScanEnd == Len(fd_polls)

AtEntry == pc = "scan" /\ i < ScanEnd

\* Mutant of NextEntry: one event is handled, then poll is called again.
BreakAfterEvent == i' = IF "IN" \in Entry.revents THEN ScanEnd ELSE i + 1

\* Even after an erase, which moves the next entry to i.
NextEntry == i' = i + 1

\* Mutant of PollIndex: the position in cls, which is one less.
ClientIndex(f) == CHOOSE j \in DOMAIN cls : cls[j] = f

\* The entry whose fd quitHandle finds first.
PollIndex(f) ==
  CHOOSE j \in DOMAIN fd_polls :
    fd_polls[j].fd = f /\ \A k \in 1..(j - 1) : fd_polls[k].fd # f

\* quitHandle and removeClient for the client of descriptor f.  The
\* descriptor is closed twice, by removeClient and by ~Client: the second
\* close fails with EBADF.
QuitHandle(f) ==
  LET gone == fd_polls[PollIndex(f)].fd
  IN  /\ fd_polls' = RemoveAt(fd_polls, PollIndex(f))
      /\ cls' = RemoveFirst(cls, gone)
      /\ descriptors' = descriptors \ {gone}
      /\ unread' = unread \ {gone}
      /\ finished' = finished \ {gone}
      /\ reset' = reset \ {gone}
      /\ errno' = "other"

Skip ==
  /\ AtEntry
  /\ "IN" \notin Entry.revents
  /\ NextEntry
  /\ UNCHANGED <<kernelVars, fd_polls, cls, pc, errno, signal>>

\* Mutant of NewPoll: revents is not set, and is whatever the stack held.
NewPollUnset(f) == [fd |-> f, revents |-> {"IN"}]

NewPoll(f) == [fd |-> f, revents |-> {}]

AddClient(f) ==
  /\ AtEntry
  /\ "IN" \in Entry.revents
  /\ Entry.fd = Listener
  /\ f \in Fd \ descriptors
  /\ backlog > 0
  /\ backlog' = backlog - 1
  /\ descriptors' = descriptors \cup {f}
  /\ fd_polls' = Append(fd_polls, NewPoll(f))
  /\ cls' = Append(cls, f)
  /\ NextEntry
  /\ UNCHANGED <<unread, finished, reset, pc, errno, signal>>

\* accept fails: the connection is gone again, or there is no descriptor.
AcceptFails ==
  /\ AtEntry
  /\ "IN" \in Entry.revents
  /\ Entry.fd = Listener
  /\ \/ backlog > 0 /\ backlog' = backlog - 1 /\ errno' \in Errno
     \/ Fd \subseteq descriptors /\ errno' = "other" /\ UNCHANGED backlog
  /\ NextEntry
  /\ UNCHANGED <<descriptors, unread, finished, reset, fd_polls, cls, pc, signal>>

\* The handlers of a client act on the descriptor of cls[i - 1]; recv, on
\* that of fd_polls[i].
AtClient ==
  AtEntry /\ "IN" \in Entry.revents /\ Entry.fd # Listener

HangUp ==
  /\ AtClient
  /\ "HUP" \in Entry.revents
  /\ QuitHandle(cls[i])
  /\ NextEntry
  /\ UNCHANGED <<backlog, pc, signal>>

\* The client stays, and what its commands made the server send may have
\* failed; or it is removed.
ReceiveBytes ==
  /\ AtClient
  /\ "HUP" \notin Entry.revents
  /\ Entry.fd \in unread
  /\ \/ /\ unread' \in {unread, unread \ {Entry.fd}}
        /\ errno' \in Errno
        /\ UNCHANGED <<descriptors, finished, reset, fd_polls, cls>>
     \/ QuitHandle(cls[i])
  /\ NextEntry
  /\ UNCHANGED <<backlog, pc, signal>>

\* recv returns 0 at the FIN and leaves errno as it is, or -1 after a reset,
\* unless a send has already met the error: then it returns 0 as well.
ReceiveNothing ==
  /\ AtClient
  /\ "HUP" \notin Entry.revents
  /\ Entry.fd \notin unread
  /\ \/ /\ Entry.fd \in reset \/ errno # "EWOULDBLOCK"
        /\ QuitHandle(cls[i])
     \/ /\ errno = "EWOULDBLOCK"
        /\ UNCHANGED <<descriptors, unread, finished, reset, fd_polls, cls, errno>>
  /\ NextEntry
  /\ UNCHANGED <<backlog, pc, signal>>

\* A handler that sends a second message to a connection that was reset gets
\* SIGPIPE, which nobody ignores or handles.  The connection may be that of
\* another client, or its own: PART is sent to the client that leaves as well,
\* except after a recv that returned nothing (setGotSignal).
KilledBySigPipe ==
  /\ AtClient
  /\ \/ reset \ {Entry.fd} # {}
     \/ Entry.fd \in reset /\ ("HUP" \in Entry.revents \/ Entry.fd \in unread)
  /\ CloseAll

\* checkPingTimeouts does nothing (Keepalive).
EndScan ==
  /\ pc = "scan"
  /\ i >= ScanEnd
  /\ pc' = "poll"
  /\ i' = 0
  /\ UNCHANGED <<kernelVars, fd_polls, cls, errno, signal>>

Routine ==
  \/ Poll \/ Shutdown \/ PollFails
  \/ Skip \/ (\E f \in Fd : AddClient(f)) \/ AcceptFails
  \/ HangUp \/ ReceiveBytes \/ ReceiveNothing \/ KilledBySigPipe \/ EndScan

Peers ==
  \/ PeerConnects \/ HandleSignal
  \/ \E f \in Fd : PeerSends(f) \/ PeerFinishes(f) \/ PeerResets(f)

Next == Routine \/ Peers

Spec == Init /\ [][Next]_vars

\* The thread of the server never stops by itself.
FairSpec == Spec /\ WF_vars(Routine)

-----------------------------------------------------------------------------
\* cls[i - 1] is the client of fd_polls[i] for every i and at every moment of
\* the scan, and nobody is in the table twice.
Aligned ==
  pc # "exit" =>
    /\ [j \in DOMAIN fd_polls |-> fd_polls[j].fd] = <<Listener>> \o cls
    /\ IsInjective(cls)

\* The open descriptors are those of the table, no more and no less, and the
\* server leaves none behind.
NothingLeaks ==
  descriptors = IF pc = "exit" THEN {} ELSE ToSet(cls) \cup {Listener}

\* An event that the scan has yet to look at is of this round and of this
\* connection, though entries before it were erased and others appended: recv
\* and accept find what poll announced.
EventsStillTrue ==
  pc = "scan" =>
    \A j \in (i + 1)..Len(fd_polls) :
      "IN" \in fd_polls[j].revents => "IN" \in Events(fd_polls[j].fd)

EventLoopInv == TypeOK /\ Aligned /\ NothingLeaks /\ EventsStillTrue

\* While it scans, the server closes no connection but the one whose event it
\* handles.
ClosesOnlyTheReader ==
  pc = "scan" /\ pc' # "exit" =>
    \A f \in descriptors \ descriptors' : AtEntry /\ Entry.fd = f

RemovalsAreForTheReader == [][ClosesOnlyTheReader]_vars

\* A client whose bytes wait is served again and again, although each erase
\* makes the scan pass over the entry that follows.
ClientsAreServed ==
  \A f \in Fd :
    <>[](f \in unread) => []<><<ReceiveBytes /\ Entry.fd = f>>_vars

\* A client whose connection is reset is removed, unless the server ends.
ResetsAreNoticed == \A f \in Fd : f \in reset ~> f \notin reset

\* A signal ends the server.
SignalsEndTheServer == signal ~> pc = "exit"

(***************************************************************************)
(* What the text of the program says and the program does not do.          *)
(***************************************************************************)

\* Server.cpp:122: "If there's an error or connection lost, we remove the
\* client".
LostClientsAreRemoved == \A f \in Fd : f \in finished ~> f \notin finished
=============================================================================
