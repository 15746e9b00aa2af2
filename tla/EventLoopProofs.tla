--------------------------- MODULE EventLoopProofs ---------------------------
(***************************************************************************)
(* Proofs about EventLoop, for any set of descriptors and any backlog:     *)
(* EventLoopInv, and that a removal hits the client whose event is handled.*)
(***************************************************************************)
EXTENDS EventLoop, SequenceLemmas

PollEntry == [fd : Fd \cup {Listener}, revents : SUBSET {"IN", "HUP"}]

\* The equation of Aligned, entry by entry.
Matches(entries, clients) ==
  /\ Len(entries) = Len(clients) + 1
  /\ entries[1].fd = Listener
  /\ \A j \in 1..Len(clients) : entries[j + 1].fd = clients[j]

\* The form of the equation that the provers can use.
LEMMA MatchesEntryByEntry ==
  ASSUME NEW entries \in Seq(PollEntry), NEW clients \in Seq(Fd)
  PROVE  [j \in DOMAIN entries |-> entries[j].fd] = <<Listener>> \o clients
           <=> Matches(entries, clients)
<1>. DEFINE S == Fd \cup {Listener}
            t == [j \in 1..Len(entries) |-> entries[j].fd]
            u == <<Listener>> \o clients
<1>1. \A j \in 1..Len(entries) : entries[j] \in PollEntry
  OBVIOUS
<1>2. \A j \in 1..Len(entries) : entries[j].fd \in S
  BY <1>1 DEF PollEntry
<1>3. t \in Seq(S) /\ Len(t) = Len(entries)
  BY <1>2
<1>4. /\ u \in Seq(S)
      /\ Len(u) = Len(clients) + 1
      /\ u[1] = Listener
      /\ \A j \in 1..Len(clients) : u[j + 1] = clients[j]
  OBVIOUS
<1>5. \A j \in 1..Len(entries) : t[j] = entries[j].fd
  OBVIOUS
<1>. HIDE DEF t, u, S
<1>6. ASSUME t = u PROVE Matches(entries, clients)
  <2>1. 1 \in 1..Len(entries) /\ \A j \in 1..Len(clients) : j + 1 \in 1..Len(entries)
    BY <1>3, <1>4, <1>6
  <2>. QED  BY <1>3, <1>4, <1>5, <1>6, <2>1 DEF Matches
<1>7. ASSUME Matches(entries, clients) PROVE t = u
  <2>1. ASSUME NEW j \in 1..Len(t) PROVE t[j] = u[j]
    <3>1. CASE j = 1
      BY <1>3, <1>4, <1>5, <1>7, <3>1 DEF Matches
    <3>2. CASE j # 1
      <4>1. j - 1 \in 1..Len(clients) /\ (j - 1) + 1 = j
        BY <1>3, <1>7, <3>2 DEF Matches
      <4>. QED  BY <1>3, <1>4, <1>5, <1>7, <4>1 DEF Matches
    <3>. QED  BY <3>1, <3>2
  <2>2. Len(t) = Len(u)
    BY <1>3, <1>4, <1>7 DEF Matches
  <2>. QED  BY <1>3, <1>4, <2>1, <2>2, SeqEqual
<1>8. DOMAIN entries = 1..Len(entries)
  OBVIOUS
<1>9. t = u <=> Matches(entries, clients)
  BY <1>6, <1>7
<1>. QED  BY <1>8, <1>9 DEF t, u

\* What poll would report now, without the case distinction of Events.
Readable(f) ==
  IF f = Listener THEN backlog > 0 ELSE f \in unread \cup finished \cup reset

\* poll reports "IN" on a descriptor exactly when a read would not wait.
LEMMA ReadableIsIn ==
  \A f : /\ "IN" \in Events(f) <=> Readable(f)
         /\ "IN" \in Events(f)' <=> Readable(f)'
BY DEF Events, Readable

\* EventLoopInv in the form that the proofs use.
AlignedEntries == pc # "exit" => Matches(fd_polls, cls) /\ IsInjective(cls)

EntriesReadable ==
  pc = "scan" =>
    \A j \in 1..Len(fd_polls) :
      j > i /\ "IN" \in fd_polls[j].revents => Readable(fd_polls[j].fd)

LoopInv == TypeOK /\ AlignedEntries /\ NothingLeaks /\ EntriesReadable

\* The two forms of the invariant say the same of every state.
LEMMA LoopInvIsEventLoopInv ==
  (LoopInv <=> EventLoopInv) /\ (LoopInv' <=> EventLoopInv')
<1>1. TypeOK => (Aligned <=> AlignedEntries)
  BY MatchesEntryByEntry DEF TypeOK, Aligned, AlignedEntries, PollEntry
<1>2. TypeOK' => (Aligned' <=> AlignedEntries')
  BY MatchesEntryByEntry DEF TypeOK, Aligned, AlignedEntries, PollEntry
<1>3. \A s \in Seq(PollEntry), n \in Nat : \A j :
         j \in (n + 1)..Len(s) <=> j \in 1..Len(s) /\ j > n
  OBVIOUS
<1>4. TypeOK => (EventsStillTrue <=> EntriesReadable)
  BY <1>3, ReadableIsIn, Zenon
  DEF TypeOK, EventsStillTrue, EntriesReadable, PollEntry
<1>5. TypeOK' => (EventsStillTrue' <=> EntriesReadable')
  BY <1>3, ReadableIsIn, Zenon
  DEF TypeOK, EventsStillTrue, EntriesReadable, PollEntry
<1>. QED  BY <1>1, <1>2, <1>4, <1>5 DEF LoopInv, EventLoopInv

-----------------------------------------------------------------------------
\* startServer leaves the listener alone in the table, and no client.
LEMMA InitEstablishesInv == Init => LoopInv
<1>. SUFFICES ASSUME Init PROVE LoopInv
  OBVIOUS
<1>. DEFINE first == [fd |-> Listener, revents |-> {}]
<1>1. first \in PollEntry
  BY DEF PollEntry
<1>. HIDE DEF first
<1>2. fd_polls \in Seq(PollEntry) /\ Len(fd_polls) = 1 /\ fd_polls[1] = first
  BY <1>1 DEF Init, first
<1>3. TypeOK
  <2>1. fd_polls \in Seq([fd : Fd \cup {Listener}, revents : SUBSET {"IN", "HUP"}])
    BY <1>2 DEF PollEntry
  <2>2. cls \in Seq(Fd)
    BY DEF Init
  <2>3. /\ backlog = 0 /\ i = 0 /\ pc = "poll" /\ errno = "other" /\ signal = FALSE
        /\ descriptors = {Listener} /\ unread = {} /\ finished = {} /\ reset = {}
    BY Zenon DEF Init
  <2>4. backlog \in 0..MaxBacklog /\ i \in Nat
    BY <2>3, EventLoopAssumption
  <2>. QED  BY <2>1, <2>2, <2>3, <2>4, Zenon DEF TypeOK, Errno
<1>4. AlignedEntries
  BY <1>2 DEF Init, AlignedEntries, Matches, IsInjective, first
<1>. QED
  BY <1>3, <1>4 DEF Init, LoopInv, NothingLeaks, ToSet, EntriesReadable

\* A peer or a signal takes nothing from what can be read.
LEMMA PeersKeepInv ==
  ASSUME LoopInv, Peers
  PROVE  LoopInv'
<1>. USE DEF LoopInv, serverVars
<1>1. /\ UNCHANGED <<descriptors, fd_polls, cls, pc, i, errno>>
      /\ signal' \in BOOLEAN
      /\ unread \subseteq unread' /\ unread' \subseteq descriptors \ {Listener}
      /\ finished \subseteq finished' /\ finished' \subseteq descriptors \ {Listener}
      /\ reset \subseteq reset' /\ reset' \subseteq descriptors \ {Listener}
      /\ backlog' \in 0..MaxBacklog /\ backlog' >= backlog
  <2>1. CASE PeerConnects
    BY <2>1, EventLoopAssumption DEF PeerConnects, TypeOK
  <2>2. CASE HandleSignal
    BY <2>2, EventLoopAssumption DEF HandleSignal, TypeOK, kernelVars
  <2>3. ASSUME NEW f \in Fd, PeerSends(f) \/ PeerFinishes(f) \/ PeerResets(f)
        PROVE  <1>1!:
    BY <2>3, EventLoopAssumption DEF PeerSends, PeerFinishes, PeerResets, Alive, TypeOK
  <2>. QED  BY <2>1, <2>2, <2>3 DEF Peers
<1>2. TypeOK'
  BY <1>1 DEF TypeOK
<1>3. AlignedEntries' /\ NothingLeaks'
  BY <1>1 DEF AlignedEntries, NothingLeaks
<1>4. \A f : Readable(f) => Readable(f)'
  BY <1>1, EventLoopAssumption DEF Readable, TypeOK
<1>5. EntriesReadable'
  BY <1>1, <1>4 DEF EntriesReadable
<1>. QED  BY <1>2, <1>3, <1>5

\* ~Server closes every descriptor of the table, so nothing is left open.
LEMMA CloseAllKeepsInv ==
  ASSUME LoopInv, pc # "exit", CloseAll
  PROVE  LoopInv'
<1>. USE DEF LoopInv, CloseAll
<1>1. descriptors' = {}
  BY DEF NothingLeaks
<1>2. TypeOK'
  BY <1>1, EventLoopAssumption DEF TypeOK
<1>. QED  BY <1>1, <1>2 DEF AlignedEntries, NothingLeaks, EntriesReadable

\* poll fills in revents by what is true and leaves the order of the table.
LEMMA PollKeepsInv ==
  ASSUME LoopInv, Poll
  PROVE  LoopInv'
<1>. USE DEF LoopInv
<1>1. fd_polls \in Seq(PollEntry)
  BY Zenon DEF TypeOK, PollEntry
<1>2. /\ fd_polls \in Seq(PollEntry) /\ Len(fd_polls) \in Nat
      /\ DOMAIN fd_polls = 1..Len(fd_polls)
      /\ \A j \in 1..Len(fd_polls) : fd_polls[j] \in PollEntry
  BY <1>1
<1>. DEFINE asked == [j \in 1..Len(fd_polls) |->
                       [fd_polls[j] EXCEPT !.revents = Events(fd_polls[j].fd)]]
<1>3. \A f : Events(f) \in SUBSET {"IN", "HUP"}
  BY DEF Events
<1>4. \A j \in 1..Len(fd_polls) :
        /\ asked[j] \in PollEntry
        /\ asked[j].fd = fd_polls[j].fd
        /\ asked[j].revents = Events(fd_polls[j].fd)
  BY <1>2, <1>3 DEF PollEntry
<1>5. fd_polls' = asked
  BY <1>2 DEF Poll
<1>6. DOMAIN asked = 1..Len(fd_polls) /\ asked = [j \in DOMAIN asked |-> asked[j]]
  OBVIOUS
<1>. HIDE DEF asked
<1>7. asked \in [1..Len(fd_polls) -> PollEntry]
  BY <1>4, <1>6
<1>8. asked \in Seq(PollEntry) /\ Len(asked) = Len(fd_polls)
  BY <1>2, <1>7
<1>. USE DEF Poll, kernelVars
<1>9. TypeOK'
  <2>1. /\ UNCHANGED <<descriptors, unread, finished, reset, backlog, cls, errno, signal>>
        /\ pc' = "scan" /\ i' = 0
    BY Zenon
  <2>2. fd_polls' \in Seq([fd : Fd \cup {Listener}, revents : SUBSET {"IN", "HUP"}])
    BY <1>8, <1>5, Zenon DEF PollEntry
  <2>. HIDE DEF Poll
  <2>. QED  BY <2>1, <2>2 DEF TypeOK
<1>10. AlignedEntries'
  <2>1. cls \in Seq(Fd) /\ Len(cls) \in Nat
    BY DEF TypeOK
  <2>2. Matches(fd_polls, cls)
    BY DEF AlignedEntries
  <2>3. \A j \in 1..Len(cls) : j + 1 \in 1..Len(fd_polls)
    BY <2>1, <2>2 DEF Matches
  <2>4. 1 \in 1..Len(fd_polls)
    BY <2>1, <2>2 DEF Matches
  <2>5. Matches(asked, cls)
    BY <1>4, <1>8, <2>2, <2>3, <2>4 DEF Matches
  <2>. QED  BY <1>5, <2>5 DEF AlignedEntries
<1>11. \A f : Readable(f)' <=> Readable(f)
  BY DEF Readable
<1>12. EntriesReadable'
  BY <1>4, <1>8, <1>5, <1>11, ReadableIsIn DEF EntriesReadable
<1>. QED  BY <1>9, <1>10, <1>12 DEF NothingLeaks

\* checkPingTimeouts and the next turn of the loop leave the vectors alone.
LEMMA EndScanKeepsInv ==
  ASSUME LoopInv, EndScan
  PROVE  LoopInv'
<1>. USE DEF LoopInv, EndScan, kernelVars
<1>1. TypeOK'
  BY DEF TypeOK
<1>. QED  BY <1>1 DEF AlignedEntries, NothingLeaks, EntriesReadable

-----------------------------------------------------------------------------
(***************************************************************************)
(* The steps of the scan.                                                  *)
(***************************************************************************)

\* No descriptor is in the table twice.
LEMMA EntriesDistinct ==
  ASSUME LoopInv, pc # "exit"
  PROVE  \A j, k \in 1..Len(fd_polls) :
           fd_polls[j].fd = fd_polls[k].fd => j = k
<1>1. /\ Matches(fd_polls, cls)
      /\ Len(cls) \in Nat
      /\ \A j, k \in 1..Len(cls) : cls[j] = cls[k] => j = k
      /\ \A j \in 1..Len(cls) : cls[j] # Listener
  BY EventLoopAssumption DEF LoopInv, AlignedEntries, TypeOK, IsInjective
<1>2. ASSUME NEW j \in 1..Len(fd_polls), j # 1
      PROVE  j - 1 \in 1..Len(cls) /\ fd_polls[j].fd = cls[j - 1]
  <2>1. j - 1 \in 1..Len(cls) /\ (j - 1) + 1 = j
    BY <1>1, <1>2 DEF Matches
  <2>. QED  BY <1>1, <2>1 DEF Matches
<1>3. fd_polls[1].fd = Listener
  BY <1>1 DEF Matches
<1>4. ASSUME NEW j \in 1..Len(fd_polls), NEW k \in 1..Len(fd_polls),
             fd_polls[j].fd = fd_polls[k].fd
      PROVE  j = k
  <2>1. CASE j = 1 \/ k = 1
    BY <1>1, <1>2, <1>3, <1>4, <2>1
  <2>2. CASE j # 1 /\ k # 1
    <3>1. j - 1 = k - 1
      BY <1>1, <1>2, <1>4, <2>2
    <3>. QED  BY <3>1
  <2>. QED  BY <2>1, <2>2
<1>. QED  BY <1>4

\* At the entry of a client, cls[i - 1] of the code is that client.
LEMMA ClientOfEntry ==
  ASSUME LoopInv, AtEntry, Entry.fd # Listener
  PROVE  i \in 1..Len(cls) /\ i + 1 \in 1..Len(fd_polls) /\ Entry.fd = cls[i]
<1>1. Matches(fd_polls, cls) /\ Len(cls) \in Nat /\ i \in Nat
  BY DEF LoopInv, AlignedEntries, TypeOK, AtEntry
<1>2. i < Len(cls) + 1 /\ i # 0
  BY <1>1 DEF Matches, AtEntry, ScanEnd, Entry
<1>3. i \in 1..Len(cls) /\ i + 1 \in 1..Len(fd_polls)
  BY <1>1, <1>2 DEF Matches
<1>. QED  BY <1>1, <1>3 DEF Matches, Entry

\* A step that looks at an entry and leaves the table as it is may read the
\* bytes of that entry, or take a waiting connection at the listening socket.
LEMMA LookKeepsInv ==
  ASSUME LoopInv, AtEntry, NextEntry,
         UNCHANGED <<descriptors, finished, reset, fd_polls, cls, pc, signal>>,
         errno' \in Errno,
         unread' \in {unread, unread \ {Entry.fd}},
         \/ UNCHANGED backlog
         \/ Entry.fd = Listener /\ backlog > 0 /\ backlog' = backlog - 1
  PROVE  LoopInv'
<1>. USE DEF LoopInv
<1>1. i \in Nat /\ i + 1 \in 1..Len(fd_polls) /\ pc = "scan" /\ i' = i + 1
  BY DEF AtEntry, ScanEnd, NextEntry, TypeOK
<1>2. TypeOK'
  BY <1>1, EventLoopAssumption DEF TypeOK
<1>3. AlignedEntries' /\ NothingLeaks'
  BY DEF AlignedEntries, NothingLeaks
<1>4. ASSUME NEW j \in 1..Len(fd_polls), j > i + 1,
             "IN" \in fd_polls[j].revents
      PROVE  Readable(fd_polls[j].fd)'
  <2>1. fd_polls[j].fd # Entry.fd
    BY <1>1, <1>4, EntriesDistinct DEF Entry
  <2>2. Readable(fd_polls[j].fd)
    BY <1>1, <1>4 DEF EntriesReadable
  <2>. QED  BY <2>1, <2>2, <1>1 DEF Readable
<1>5. EntriesReadable'
  BY <1>1, <1>4 DEF EntriesReadable
<1>. QED  BY <1>2, <1>3, <1>5

\* quitHandle finds the entry that is handled, and removes it and its client.
LEMMA QuitEffect ==
  ASSUME LoopInv, AtClient, QuitHandle(cls[i])
  PROVE  /\ fd_polls' = RemoveAt(fd_polls, i + 1)
         /\ cls' = RemoveFirst(cls, cls[i])
         /\ descriptors' = descriptors \ {cls[i]}
         /\ unread' = unread \ {cls[i]}
         /\ finished' = finished \ {cls[i]}
         /\ reset' = reset \ {cls[i]}
         /\ errno' = "other"
<1>1. /\ i + 1 \in 1..Len(fd_polls) /\ fd_polls[i + 1].fd = cls[i]
      /\ \A j, k \in 1..Len(fd_polls) : fd_polls[j].fd = fd_polls[k].fd => j = k
  BY ClientOfEntry, EntriesDistinct DEF AtClient, AtEntry, Entry
<1>2. Len(fd_polls) \in Nat /\ DOMAIN fd_polls = 1..Len(fd_polls)
  BY DEF LoopInv, TypeOK
<1>3. ASSUME NEW k \in 1..((i + 1) - 1) PROVE fd_polls[k].fd # cls[i]
  <2>1. k \in 1..Len(fd_polls) /\ k # i + 1
    BY <1>1, <1>2
  <2>. QED  BY <1>1, <2>1
<1>4. \A j \in 1..Len(fd_polls) : fd_polls[j].fd = cls[i] => j = i + 1
  BY <1>1
<1>5. PollIndex(cls[i]) = i + 1
  BY <1>1, <1>2, <1>3, <1>4 DEF PollIndex
<1>. QED  BY <1>1, <1>5, Zenon DEF QuitHandle

\* quitHandle erases the same client from both vectors. The entries behind it
\* move up by one in both: what lies ahead of the scan lay ahead of it before.
LEMMA RemovalKeepsInv ==
  ASSUME LoopInv, AtClient, QuitHandle(cls[i]), NextEntry,
         UNCHANGED <<backlog, pc, signal>>
  PROVE  LoopInv'
<1>1. /\ i \in 1..Len(cls) /\ i + 1 \in 1..Len(fd_polls)
      /\ pc = "scan" /\ pc' = "scan" /\ i' = i + 1 /\ i \in Nat
  BY ClientOfEntry DEF AtClient, AtEntry, NextEntry, LoopInv, TypeOK
<1>2. /\ fd_polls \in Seq(PollEntry) /\ cls \in Seq(Fd)
      /\ Len(fd_polls) = Len(cls) + 1 /\ Len(cls) \in Nat
      /\ fd_polls[1].fd = Listener
      /\ \A j \in 1..Len(cls) : fd_polls[j + 1].fd = cls[j]
      /\ IsInjective(cls)
  BY <1>1 DEF LoopInv, TypeOK, PollEntry, AlignedEntries, Matches
<1>3. /\ fd_polls' \in Seq(PollEntry)
      /\ Len(fd_polls') = Len(cls)
      /\ \A j \in 1..Len(cls) :
           fd_polls'[j] = IF j < i + 1 THEN fd_polls[j] ELSE fd_polls[j + 1]
  <2>. DEFINE t == RemoveAt(fd_polls, i + 1)
  <2>1. /\ t \in Seq(PollEntry)
        /\ Len(t) = Len(fd_polls) - 1
        /\ \A j \in 1..(Len(fd_polls) - 1) :
             t[j] = IF j < i + 1 THEN fd_polls[j] ELSE fd_polls[j + 1]
    BY <1>1, <1>2, RemoveAtCloses
  <2>2. fd_polls' = t
    BY QuitEffect
  <2>3. Len(fd_polls) - 1 = Len(cls)
    BY <1>2
  <2>. HIDE DEF t
  <2>. QED  BY <2>1, <2>2, <2>3
<1>4. cls[i] \in ToSet(cls)
  BY <1>1, <1>2 DEF ToSet
<1>5. /\ cls' \in Seq(Fd)
      /\ Len(cls') = Len(cls) - 1
      /\ IsInjective(cls')
      /\ ToSet(cls') = ToSet(cls) \ {cls[i]}
  BY <1>2, <1>4, QuitEffect, RemoveFirstAt, RemoveFirstOfDistinct
<1>6. \A j \in 1..(Len(cls) - 1) :
        cls'[j] = IF j < i THEN cls[j] ELSE cls[j + 1]
  <2>1. PICK k \in 1..Len(cls) :
          /\ cls[k] = cls[i]
          /\ \A j \in 1..(Len(cls) - 1) :
               RemoveFirst(cls, cls[i])[j] = IF j < k THEN cls[j] ELSE cls[j + 1]
    BY <1>2, <1>4, RemoveFirstAt
  <2>2. k = i
    BY <1>1, <1>2, <2>1 DEF IsInjective
  <2>. QED  BY <2>1, <2>2, QuitEffect
<1>7. TypeOK'
  <2>1. fd_polls' \in Seq([fd : Fd \cup {Listener}, revents : SUBSET {"IN", "HUP"}])
    BY <1>3, Zenon DEF PollEntry
  <2>2. errno' \in Errno
    BY QuitEffect DEF Errno
  <2>3. i' \in Nat
    BY <1>1
  <2>. QED
    BY <1>1, <1>5, <2>1, <2>2, <2>3, QuitEffect DEF LoopInv, TypeOK
<1>8. Matches(fd_polls', cls')
  <2>1. fd_polls'[1].fd = Listener
    BY <1>1, <1>2, <1>3
  <2>2. ASSUME NEW j \in 1..Len(cls') PROVE fd_polls'[j + 1].fd = cls'[j]
    <3>1. j \in 1..(Len(cls) - 1) /\ j \in 1..Len(cls) /\ j + 1 \in 1..Len(cls)
      BY <1>2, <1>5
    <3>2. CASE j < i
      <4>1. j + 1 < i + 1
        BY <1>1, <3>1, <3>2
      <4>. QED  BY <1>2, <1>3, <1>6, <3>1, <3>2, <4>1
    <3>3. CASE ~(j < i)
      <4>1. ~(j + 1 < i + 1)
        BY <1>1, <3>1, <3>3
      <4>. QED  BY <1>2, <1>3, <1>6, <3>1, <3>3, <4>1
    <3>. QED  BY <3>2, <3>3
  <2>. QED  BY <1>2, <1>3, <1>5, <2>1, <2>2 DEF Matches
<1>9. AlignedEntries'
  BY <1>5, <1>8 DEF AlignedEntries
<1>10. NothingLeaks'
  <2>1. cls[i] # Listener /\ descriptors = ToSet(cls) \cup {Listener}
    BY <1>1, <1>2, EventLoopAssumption DEF LoopInv, NothingLeaks
  <2>. QED  BY <1>1, <1>5, <2>1, QuitEffect DEF NothingLeaks
<1>11. ASSUME NEW j \in 1..Len(fd_polls'), j > i',
              "IN" \in fd_polls'[j].revents
       PROVE  Readable(fd_polls[j].fd)'
  <2>1. /\ fd_polls'[j] = fd_polls[j + 1]
        /\ j + 1 \in 1..Len(fd_polls) /\ j + 1 > i + 1
    BY <1>1, <1>2, <1>3, <1>11
  <2>2. Readable(fd_polls[j + 1].fd)
    BY <1>1, <1>11, <2>1 DEF LoopInv, EntriesReadable
  <2>3. fd_polls[j + 1].fd # cls[i]
    <3>1. fd_polls[i + 1].fd = cls[i]
      BY <1>1, <1>2
    <3>. QED  BY <1>1, <2>1, <3>1, EntriesDistinct
  <2>. QED  BY <2>1, <2>2, <2>3, QuitEffect DEF Readable
<1>12. EntriesReadable'
  BY <1>11 DEF EntriesReadable
<1>. QED  BY <1>7, <1>9, <1>10, <1>12 DEF LoopInv

\* The new entry and the new client go to the ends of the two vectors.
LEMMA AddClientKeepsInv ==
  ASSUME LoopInv, NEW f \in Fd, AddClient(f)
  PROVE  LoopInv'
<1>. DEFINE new == NewPoll(f)
<1>1. /\ i \in Nat /\ pc = "scan" /\ pc' = "scan" /\ i' = i + 1
      /\ i + 1 \in 1..Len(fd_polls) /\ Entry.fd = Listener
      /\ backlog > 0 /\ backlog' = backlog - 1
      /\ descriptors' = descriptors \cup {f} /\ f \notin descriptors
      /\ fd_polls' = Append(fd_polls, new) /\ cls' = Append(cls, f)
      /\ UNCHANGED <<unread, finished, reset, errno, signal>>
  BY DEF LoopInv, TypeOK, AddClient, AtEntry, ScanEnd, NextEntry
<1>2. /\ fd_polls \in Seq(PollEntry) /\ cls \in Seq(Fd)
      /\ Len(fd_polls) = Len(cls) + 1 /\ Len(cls) \in Nat
      /\ fd_polls[1].fd = Listener
      /\ \A j \in 1..Len(cls) : fd_polls[j + 1].fd = cls[j]
      /\ IsInjective(cls)
      /\ f \notin ToSet(cls)
  BY <1>1 DEF LoopInv, TypeOK, PollEntry, AlignedEntries, Matches, NothingLeaks
<1>3. new \in PollEntry /\ new.fd = f /\ new.revents = {}
  BY DEF PollEntry, NewPoll
<1>. HIDE DEF new
<1>4. /\ fd_polls' \in Seq(PollEntry)
      /\ Len(fd_polls') = Len(fd_polls) + 1
      /\ \A j \in 1..Len(fd_polls) : fd_polls'[j] = fd_polls[j]
      /\ fd_polls'[Len(fd_polls) + 1] = new
  BY <1>1, <1>2, <1>3
<1>5. /\ cls' \in Seq(Fd)
      /\ Len(cls') = Len(cls) + 1
      /\ \A j \in 1..Len(cls) : cls'[j] = cls[j]
      /\ cls'[Len(cls) + 1] = f
      /\ IsInjective(cls')
      /\ ToSet(cls') = ToSet(cls) \cup {f}
  BY <1>1, <1>2, AppendOfDistinct
<1>6. TypeOK'
  <2>1. fd_polls' \in Seq([fd : Fd \cup {Listener}, revents : SUBSET {"IN", "HUP"}])
    BY <1>4, Zenon DEF PollEntry
  <2>2. backlog' \in 0..MaxBacklog /\ i' \in Nat
    BY <1>1, EventLoopAssumption DEF LoopInv, TypeOK
  <2>. QED  BY <1>1, <1>5, <2>1, <2>2 DEF LoopInv, TypeOK
<1>7. Matches(fd_polls', cls')
  <2>1. fd_polls'[1].fd = Listener
    BY <1>2, <1>4
  <2>2. ASSUME NEW j \in 1..Len(cls') PROVE fd_polls'[j + 1].fd = cls'[j]
    <3>1. CASE j = Len(cls) + 1
      BY <1>2, <1>3, <1>4, <1>5, <3>1
    <3>2. CASE j # Len(cls) + 1
      <4>1. j \in 1..Len(cls) /\ j + 1 \in 1..Len(fd_polls)
        BY <1>2, <1>5, <3>2
      <4>. QED  BY <1>2, <1>4, <1>5, <4>1
    <3>. QED  BY <3>1, <3>2
  <2>. QED  BY <1>2, <1>4, <1>5, <2>1, <2>2 DEF Matches
<1>8. AlignedEntries' /\ NothingLeaks'
  BY <1>1, <1>5, <1>7 DEF AlignedEntries, NothingLeaks, LoopInv
<1>9. ASSUME NEW j \in 1..Len(fd_polls'), j > i',
             "IN" \in fd_polls'[j].revents
      PROVE  Readable(fd_polls[j].fd)'
  <2>1. j \in 1..Len(fd_polls) /\ fd_polls'[j] = fd_polls[j]
    BY <1>2, <1>3, <1>4, <1>9
  <2>2. Readable(fd_polls[j].fd)
    BY <1>1, <1>9, <2>1 DEF LoopInv, EntriesReadable
  <2>3. fd_polls[j].fd # Listener
    BY <1>1, <1>9, <2>1, EntriesDistinct DEF Entry
  <2>. QED  BY <1>1, <2>1, <2>2, <2>3 DEF Readable
<1>10. EntriesReadable'
  BY <1>9 DEF EntriesReadable
<1>. QED  BY <1>6, <1>8, <1>10 DEF LoopInv

\* The steps at the entry of a client either look or remove.
LEMMA LookOrRemove ==
  ASSUME LoopInv, Skip \/ AcceptFails \/ HangUp \/ ReceiveBytes \/ ReceiveNothing
  PROVE  /\ LoopInv'
         /\ \A f \in descriptors \ descriptors' : AtEntry /\ Entry.fd = f
<1>1. ASSUME Skip \/ AcceptFails
      PROVE  LoopInv' /\ descriptors' = descriptors
  <2>1. CASE Skip
    BY <2>1, LookKeepsInv DEF Skip, kernelVars, LoopInv, TypeOK
  <2>2. CASE AcceptFails
    BY <2>2, LookKeepsInv DEF AcceptFails, Errno
  <2>. QED  BY <1>1, <2>1, <2>2
<1>2. ASSUME AtClient, NextEntry, UNCHANGED <<backlog, pc, signal>>,
             UNCHANGED <<descriptors, finished, reset, fd_polls, cls>>,
             unread' \in {unread, unread \ {Entry.fd}}, errno' \in Errno
      PROVE  LoopInv' /\ descriptors' = descriptors
  BY <1>2, LookKeepsInv DEF AtClient
<1>3. ASSUME AtClient, NextEntry, UNCHANGED <<backlog, pc, signal>>,
             QuitHandle(cls[i])
      PROVE  /\ LoopInv'
             /\ \A f \in descriptors \ descriptors' : AtEntry /\ Entry.fd = f
  <2>1. AtEntry /\ Entry.fd = cls[i]
    BY <1>3, ClientOfEntry DEF AtClient
  <2>. QED  BY <1>3, <2>1, QuitEffect, RemovalKeepsInv
<1>4. CASE HangUp
  BY <1>3, <1>4 DEF HangUp
<1>5. CASE ReceiveBytes
  BY <1>2, <1>3, <1>5 DEF ReceiveBytes
<1>6. CASE ReceiveNothing
  <2>1. errno \in Errno
    BY DEF LoopInv, TypeOK
  <2>. QED  BY <1>2, <1>3, <1>6, <2>1 DEF ReceiveNothing
<1>. QED  BY <1>1, <1>4, <1>5, <1>6

\* Every step keeps the invariant: the peers, poll, and each entry of the scan.
LEMMA NextKeepsInv == LoopInv /\ [Next]_vars => LoopInv'
<1>. SUFFICES ASSUME LoopInv, [Next]_vars PROVE LoopInv'
  OBVIOUS
<1>1. CASE Peers
  BY <1>1, PeersKeepInv
<1>2. CASE Poll
  BY <1>2, PollKeepsInv
<1>3. CASE Shutdown \/ PollFails \/ KilledBySigPipe
  <2>1. pc # "exit" /\ CloseAll
    BY <1>3 DEF Shutdown, PollFails, KilledBySigPipe, AtClient, AtEntry
  <2>. QED  BY <2>1, CloseAllKeepsInv
<1>4. CASE \E f \in Fd : AddClient(f)
  BY <1>4, AddClientKeepsInv
<1>5. CASE Skip \/ AcceptFails \/ HangUp \/ ReceiveBytes \/ ReceiveNothing
  BY <1>5, LookOrRemove
<1>6. CASE EndScan
  BY <1>6, EndScanKeepsInv
<1>7. CASE UNCHANGED vars
  <2>1. UNCHANGED <<descriptors, unread, finished, reset, backlog, fd_polls,
                    cls, pc, i, errno, signal>>
    BY <1>7, Zenon DEF vars, kernelVars, serverVars
  <2>. QED
    BY <2>1 DEF LoopInv, TypeOK, AlignedEntries, NothingLeaks,
                EntriesReadable, Readable
<1>. QED
  BY <1>1, <1>2, <1>3, <1>4, <1>5, <1>6, <1>7 DEF Next, Routine

\* At every moment of the scan, through every append and erase, cls[i - 1] is
\* the client of fd_polls[i]; the open descriptors are those of the table; and
\* an event that is still to be looked at is true.
THEOREM EventLoopInvariant == Spec => []EventLoopInv
<1>1. Init => LoopInv
  BY InitEstablishesInv
<1>2. LoopInv /\ [Next]_vars => LoopInv'
  BY NextKeepsInv
<1>3. LoopInv => EventLoopInv
  BY LoopInvIsEventLoopInv
<1>. QED  BY <1>1, <1>2, <1>3, PTL DEF Spec

\* The two searches of quitHandle and removeClient, one by descriptor in
\* fd_polls and one in cls, end at the client whose event is handled: no step
\* of the scan closes another connection.
THEOREM RemovalsHitTheReader == Spec => RemovalsAreForTheReader
<1>1. LoopInv /\ [Next]_vars => [ClosesOnlyTheReader]_vars
  <2>. SUFFICES ASSUME LoopInv, Next, pc = "scan", pc' # "exit"
                PROVE  \A f \in descriptors \ descriptors' : AtEntry /\ Entry.fd = f
    BY DEF ClosesOnlyTheReader
  <2>1. CASE Peers
    BY <2>1 DEF Peers, PeerConnects, HandleSignal, PeerSends, PeerFinishes,
                PeerResets, kernelVars
  <2>2. CASE Shutdown \/ PollFails \/ KilledBySigPipe \/ Poll
    BY <2>2 DEF Shutdown, PollFails, KilledBySigPipe, Poll, CloseAll
  <2>3. CASE \E f \in Fd : AddClient(f)
    BY <2>3 DEF AddClient
  <2>4. CASE Skip \/ AcceptFails \/ HangUp \/ ReceiveBytes \/ ReceiveNothing
    BY <2>4, LookOrRemove
  <2>5. CASE EndScan
    BY <2>5 DEF EndScan, kernelVars
  <2>. QED  BY <2>1, <2>2, <2>3, <2>4, <2>5 DEF Next, Routine
<1>2. Init => LoopInv
  BY InitEstablishesInv
<1>3. LoopInv /\ [Next]_vars => LoopInv'
  BY NextKeepsInv
<1>. QED
  BY <1>1, <1>2, <1>3, PTL DEF Spec, RemovalsAreForTheReader
=============================================================================
