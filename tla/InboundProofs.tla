---------------------------- MODULE InboundProofs ----------------------------
(***************************************************************************)
(* Proofs about Inbound, for any number of connections, any bytes and any  *)
(* sizes of chunk and buffer.                                              *)
(***************************************************************************)
EXTENDS Inbound, SequenceLemmas

-----------------------------------------------------------------------------
\* The helpers of Inbound.

\* The first separator exists where there is one, and nothing before it is one.
LEMMA FirstCRLF ==
  ASSUME NEW s \in Seq(Byte), HasCRLF(s)
  PROVE  /\ FindCRLF(s) \in 1..(Len(s) - 1)
         /\ CRLFAt(s, FindCRLF(s))
         /\ \A j \in 1..(FindCRLF(s) - 1) : ~CRLFAt(s, j)
<1>. DEFINE I == {i \in 1..(Len(s) - 1) : CRLFAt(s, i)}
<1>1. I \subseteq Nat /\ I # {}
  BY DEF HasCRLF
<1>2. Min(I) \in I /\ \A j \in I : Min(I) <= j
  BY <1>1, MinIsLeast
<1>3. PICK i \in I : \A j \in I : i <= j
  BY <1>2
<1>4. \A j \in 1..(i - 1) : ~CRLFAt(s, j)
  BY <1>3
<1>5. \E k \in 1..(Len(s) - 1) :
         CRLFAt(s, k) /\ \A j \in 1..(k - 1) : ~CRLFAt(s, j)
  BY <1>3, <1>4
<1>. QED  BY <1>5 DEF FindCRLF

\* A chunk loses bytes at its NUL but gains none.
LEMMA CStringKeeps ==
  ASSUME NEW s \in Seq(Byte)
  PROVE  CString(s) \in Seq(Byte)
<1>. DEFINE nul == {i \in DOMAIN s : s[i] = "NUL"}
<1>1. CASE nul = {}
  BY <1>1 DEF CString
<1>2. CASE nul # {}
  <2>1. nul \subseteq Nat
    OBVIOUS
  <2>2. \E i \in nul : \A j \in nul : i <= j
    BY <1>2, <2>1, MinIsLeast
  <2>3. PICK k \in nul :
          k = CHOOSE i \in nul : \A j \in nul : i <= j
    BY <2>2
  <2>4. CString(s) = SubSeq(s, 1, k - 1)
    BY <1>2, <2>3 DEF CString
  <2>5. k \in 1..Len(s)
    OBVIOUS
  <2>. QED  BY <2>4, <2>5
<1>. QED  BY <1>1, <1>2

-----------------------------------------------------------------------------
(***************************************************************************)
(* The invariant.  NothingLeftBehind is about the moments between two      *)
(* handlers; while c is served it is so of all other clients, and to_remove *)
(* tells whether c is still there.                                         *)
(***************************************************************************)

OthersWait == \A c \in cls \ {serving} : ~HasCRLF(buffer[c])

FlagIsTrue == serving # Nobody => (to_remove <=> serving \notin cls)

\* Nothing waits on a connection that is not open.
WiresEnd == \A c \in Client \ cls : wire[c] = <<>>

IInv == TypeOK /\ OthersWait /\ FlagIsTrue /\ WiresEnd /\ BufferBounded

LEMMA InvImplies == IInv => InboundInv
BY InboundAssumption
DEF IInv, InboundInv, TypeOK, OthersWait, FlagIsTrue, NothingLeftBehind,
    LoopReadsLiveClient

LEMMA InitEstablishesInv == Init => IInv
BY DEF Init, IInv, TypeOK, OthersWait, FlagIsTrue, WiresEnd, BufferBounded

\* A buffer without bytes holds no command.
LEMMA EmptyBuffer ==
  ASSUME NEW s \in Seq(Byte), Len(s) = 0
  PROVE  ~HasCRLF(s) /\ Len(s) <= MaxBuffer
BY InboundAssumption DEF HasCRLF

LEMMA ConnectKeepsInv ==
  ASSUME IInv, NEW c \in Client, Connect(c)
  PROVE  IInv'
<1>. DEFINE empty == <<>>
<1>1. empty \in Seq(Byte) /\ Len(empty) = 0
  BY EmptySeq, Zenon
<1>2. buffer' = [buffer EXCEPT ![c] = empty]
  BY DEF Connect
<1>. HIDE DEF empty
<1>3. ~HasCRLF(empty) /\ Len(empty) <= MaxBuffer
  BY <1>1, EmptyBuffer
<1>. USE DEF IInv, TypeOK, Connect
<1>4. TypeOK'
  BY <1>1, <1>2
<1>5. OthersWait'
  BY <1>2, <1>3 DEF OthersWait
<1>6. BufferBounded'
  BY <1>2, <1>3 DEF BufferBounded
<1>. QED  BY <1>4, <1>5, <1>6 DEF FlagIsTrue, WiresEnd

LEMMA SendKeepsInv ==
  ASSUME IInv, NEW c \in Client, NEW b \in Byte, Send(c, b)
  PROVE  IInv'
<1>. DEFINE longer == Append(wire[c], b)
<1>0. wire[c] \in Seq(Byte)
  BY DEF IInv, TypeOK
<1>1. longer \in Seq(Byte)
  BY <1>0, AppendProperties
<1>2. wire' = [wire EXCEPT ![c] = longer]
  BY DEF Send
<1>. HIDE DEF longer
<1>3. TypeOK'
  BY <1>1, <1>2, ZenonT(40) DEF IInv, TypeOK, Send
<1>. QED
  BY <1>2, <1>3
  DEF IInv, TypeOK, Send, OthersWait, FlagIsTrue, WiresEnd, BufferBounded

\* Between two handlers a client may go: its connection is lost, or it has
\* sent too much.
LEMMA RemovedKeepsInv ==
  ASSUME IInv, NEW c \in Client, serving = Nobody, Removed(c), TypeOK',
         UNCHANGED <<buffer, serving>>
  PROVE  IInv'
BY DEF IInv, TypeOK, Removed, OthersWait, FlagIsTrue, WiresEnd, BufferBounded

\* What Removed does to the types.
LEMMA RemovedTypes ==
  ASSUME TypeOK, NEW c \in Client, Removed(c)
  PROVE  /\ cls' \subseteq Client
         /\ wire' \in [Client -> Seq(Byte)]
         /\ to_remove' \in BOOLEAN
<1>1. <<>> \in Seq(Byte)
  BY EmptySeq, Zenon
<1>. DEFINE empty == <<>>
<1>. HIDE DEF empty
<1>2. wire' \in [Client -> Seq(Byte)]
  <2>1. wire' = [wire EXCEPT ![c] = empty] /\ empty \in Seq(Byte)
    BY <1>1 DEF Removed, empty
  <2>. QED  BY <2>1 DEF TypeOK
<1>3. to_remove' \in BOOLEAN
  BY Zenon DEF Removed
<1>. QED  BY <1>2, <1>3 DEF TypeOK, Removed

\* The records of the events without a command.
LEMMA EventTypes ==
  ASSUME NEW k \in {"none", "too long", "lost"}
  PROVE  [kind |-> k, command |-> <<>>] \in
           [kind : {"none", "command", "too long", "lost"}, command : Seq(Byte)]
<1>. DEFINE empty == <<>>
<1>1. empty \in Seq(Byte)
  BY EmptySeq, Zenon
<1>. HIDE DEF empty
<1>2. [kind |-> k, command |-> empty] \in
        [kind : {"none", "command", "too long", "lost"}, command : Seq(Byte)]
  BY <1>1
<1>. QED  BY <1>2 DEF empty

LEMMA LoseKeepsInv ==
  ASSUME IInv, NEW c \in Client, Lose(c)
  PROVE  IInv'
<1>1. TypeOK'
  BY RemovedTypes, EventTypes DEF IInv, TypeOK, Lose
<1>. QED  BY <1>1, RemovedKeepsInv DEF Lose

LEMMA ReceiveKeepsInv ==
  ASSUME IInv, NEW c \in Client, Receive(c)
  PROVE  IInv'
<1>1. PICK n \in 1..Len(wire[c]) : Receive(c)!3!(n)
  BY DEF Receive
<1>. DEFINE chunk  == SubSeq(wire[c], 1, n)
            filled == buffer[c] \o CString(chunk)
            rest   == SubSeq(wire[c], n + 1, Len(wire[c]))
<1>2. wire[c] \in Seq(Byte) /\ buffer[c] \in Seq(Byte)
  BY DEF IInv, TypeOK
<1>3. chunk \in Seq(Byte) /\ rest \in Seq(Byte)
  BY <1>2
<1>. HIDE DEF chunk, rest
<1>4. filled \in Seq(Byte)
  <2>1. CString(chunk) \in Seq(Byte)
    BY <1>3, CStringKeeps
  <2>. QED  BY <1>2, <2>1
<1>5. CASE Len(filled) > MaxBuffer
  <2>1. Removed(c) /\ UNCHANGED <<buffer, serving>>
        /\ event' = [kind |-> "too long", command |-> <<>>]
    BY <1>1, <1>5 DEF chunk
  <2>2. TypeOK'
    BY <2>1, RemovedTypes, EventTypes DEF IInv, TypeOK
  <2>. QED  BY <2>1, <2>2, RemovedKeepsInv DEF Receive
<1>6. CASE ~(Len(filled) > MaxBuffer)
  <2>1. /\ wire' = [wire EXCEPT ![c] = rest]
        /\ buffer' = [buffer EXCEPT ![c] = filled]
        /\ to_remove' = FALSE
        /\ serving' = c
        /\ UNCHANGED <<cls, event>>
    BY <1>1, <1>6 DEF chunk, rest, Resets
  <2>2. c \in cls /\ serving = Nobody
    BY DEF Receive
  <2>3. Len(filled) <= MaxBuffer
    BY <1>4, <1>6, InboundAssumption
  <2>. HIDE DEF filled
  <2>4. TypeOK'
    BY <1>3, <1>4, <2>1 DEF IInv, TypeOK
  <2>5. OthersWait' /\ FlagIsTrue'
    BY <2>1, <2>2, InboundAssumption
    DEF IInv, TypeOK, OthersWait, FlagIsTrue
  <2>6. WiresEnd' /\ BufferBounded'
    BY <2>1, <2>2, <2>3 DEF IInv, TypeOK, WiresEnd, BufferBounded
  <2>. QED  BY <2>4, <2>5, <2>6 DEF IInv
<1>. QED  BY <1>5, <1>6

LEMMA HandleKeepsInv ==
  ASSUME IInv, NEW c \in Client, Handle(c)
  PROVE  IInv'
<1>. DEFINE pos     == FindCRLF(buffer[c])
            command == SubSeq(buffer[c], 1, pos - 1)
            rest    == SubSeq(buffer[c], pos + 2, Len(buffer[c]))
<1>1. buffer[c] \in Seq(Byte) /\ serving = c /\ ~to_remove /\ c \in cls
  BY InboundAssumption DEF IInv, TypeOK, Handle, Loops, FlagIsTrue
<1>2. pos \in 1..(Len(buffer[c]) - 1)
  BY <1>1, FirstCRLF DEF Handle, Loops
<1>3. command \in Seq(Byte) /\ rest \in Seq(Byte)
  BY <1>1, <1>2
<1>4. Len(rest) <= Len(buffer[c])
  BY <1>1, <1>2
<1>5. /\ event' = [kind |-> "command", command |-> command]
      /\ buffer' = [buffer EXCEPT ![c] = rest]
      /\ IF Closes(command) THEN Removed(c)
                            ELSE UNCHANGED <<cls, wire, to_remove>>
      /\ serving' = serving
  BY DEF Handle
<1>. HIDE DEF command, rest, pos
<1>. DEFINE Event == [kind : {"none", "command", "too long", "lost"},
                      command : Seq(Byte)]
<1>6. TypeOK'
  <2>1. event' \in Event
    BY <1>3, <1>5
  <2>. HIDE DEF Event
  <2>2. /\ cls' \subseteq Client
        /\ wire' \in [Client -> Seq(Byte)]
        /\ to_remove' \in BOOLEAN
    BY <1>5, RemovedTypes DEF IInv, TypeOK
  <2>3. buffer' \in [Client -> Seq(Byte)] /\ serving' \in Client \cup {Nobody}
    BY <1>3, <1>5 DEF IInv, TypeOK
  <2>. QED  BY <2>1, <2>2, <2>3 DEF TypeOK, Event
<1>7. Len(rest) <= MaxBuffer
  BY <1>1, <1>3, <1>4, InboundAssumption DEF IInv, BufferBounded
<1>8. BufferBounded'
  BY <1>5, <1>7 DEF IInv, TypeOK, BufferBounded, Removed
<1>9. OthersWait' /\ FlagIsTrue' /\ WiresEnd'
  BY <1>1, <1>5
  DEF IInv, TypeOK, OthersWait, FlagIsTrue, WiresEnd, Removed
<1>. QED  BY <1>6, <1>8, <1>9 DEF IInv

LEMMA ReturnKeepsInv ==
  ASSUME IInv, Return
  PROVE  IInv'
<1>. USE DEF IInv, TypeOK, Return
<1>1. OthersWait'
  BY InboundAssumption DEF OthersWait, FlagIsTrue, Loops
<1>. QED  BY <1>1 DEF FlagIsTrue, WiresEnd, BufferBounded

LEMMA NextKeepsInv == IInv /\ [Next]_vars => IInv'
<1>. SUFFICES ASSUME IInv, [Next]_vars PROVE IInv'
  OBVIOUS
<1>1. CASE UNCHANGED vars
  BY <1>1
  DEF vars, IInv, TypeOK, OthersWait, FlagIsTrue, WiresEnd, BufferBounded
<1>2. CASE Next
  BY <1>2, ConnectKeepsInv, SendKeepsInv, LoseKeepsInv, ReceiveKeepsInv,
     HandleKeepsInv, ReturnKeepsInv
  DEF Next
<1>. QED  BY <1>1, <1>2

LEMMA InductiveInvariant == Spec => []IInv
BY InitEstablishesInv, NextKeepsInv, PTL DEF Spec

\* Whoever else is served, no complete command stays behind in a buffer, the
\* loop reads only the buffer of a live client, and no buffer outgrows its
\* limit.
THEOREM InboundInvariant == Spec => []InboundInv
BY InductiveInvariant, InvImplies, PTL

-----------------------------------------------------------------------------
(***************************************************************************)
(* Inbound implements CommandStream, as long as no byte is a NUL.          *)
(***************************************************************************)

\* A chunk without a NUL is appended whole.
LEMMA CStringWhole ==
  ASSUME "NUL" \notin Byte, NEW s \in Seq(Byte)
  PROVE  CString(s) = s
<1>1. \A i \in DOMAIN s : s[i] # "NUL"
  OBVIOUS
<1>. QED  BY <1>1 DEF CString

\* There is one first separator.
LEMMA FirstCRLFUnique ==
  ASSUME NEW s \in Seq(Byte), NEW k \in 1..(Len(s) - 1), CRLFAt(s, k),
         \A j \in 1..(k - 1) : ~CRLFAt(s, j)
  PROVE  HasCRLF(s) /\ FindCRLF(s) = k
<1>1. HasCRLF(s)
  BY DEF HasCRLF
<1>2. /\ FindCRLF(s) \in 1..(Len(s) - 1)
      /\ CRLFAt(s, FindCRLF(s))
      /\ \A j \in 1..(FindCRLF(s) - 1) : ~CRLFAt(s, j)
  BY <1>1, FirstCRLF
<1>3. Len(s) \in Nat
  OBVIOUS
<1>. DEFINE f == FindCRLF(s)
<1>. HIDE DEF f
<1>4. f \in 1..(Len(s) - 1) /\ CRLFAt(s, f) /\ \A j \in 1..(f - 1) : ~CRLFAt(s, j)
  BY <1>2 DEF f
<1>5. ~(f < k)
  BY <1>3, <1>4
<1>6. ~(k < f)
  BY <1>3, <1>4
<1>7. f = k
  BY <1>3, <1>4, <1>5, <1>6
<1>. QED  BY <1>1, <1>7 DEF f

\* The first command of a stream is the first of its part in the buffer.
LEMMA CommandOfPrefix ==
  ASSUME NEW s \in Seq(Byte), NEW t \in Seq(Byte), HasCRLF(s)
  PROVE  /\ HasCRLF(s \o t)
         /\ FindCRLF(s \o t) = FindCRLF(s)
         /\ SubSeq(s \o t, 1, FindCRLF(s) - 1) = SubSeq(s, 1, FindCRLF(s) - 1)
         /\ SubSeq(s \o t, FindCRLF(s) + 2, Len(s \o t)) =
              SubSeq(s, FindCRLF(s) + 2, Len(s)) \o t
<1>. DEFINE u == s \o t
            p == FindCRLF(s)
<1>1. p \in 1..(Len(s) - 1) /\ CRLFAt(s, p) /\ \A j \in 1..(p - 1) : ~CRLFAt(s, j)
  BY FirstCRLF
<1>2. /\ u \in Seq(Byte)
      /\ Len(u) = Len(s) + Len(t)
      /\ \A i \in 1..Len(s) : u[i] = s[i]
      /\ \A i \in 1..Len(t) : u[Len(s) + i] = t[i]
  OBVIOUS
<1>. HIDE DEF u, p
<1>3. Len(s) \in Nat /\ Len(t) \in Nat
  OBVIOUS
<1>4. p \in 1..(Len(u) - 1)
  BY <1>1, <1>2, <1>3
<1>5. ASSUME NEW j \in 1..p
      PROVE  CRLFAt(u, j) <=> CRLFAt(s, j)
  <2>1. j \in 1..Len(s) /\ j + 1 \in 1..Len(s)
    BY <1>1, <1>3
  <2>2. u[j] = s[j] /\ u[j + 1] = s[j + 1]
    BY <1>2, <2>1
  <2>. QED  BY <2>2 DEF CRLFAt
<1>6. CRLFAt(u, p) /\ \A j \in 1..(p - 1) : ~CRLFAt(u, j)
  BY <1>1, <1>3, <1>5
<1>7. HasCRLF(u) /\ FindCRLF(u) = p
  BY <1>2, <1>4, <1>6, FirstCRLFUnique
<1>8. SubSeq(u, 1, p - 1) = SubSeq(s, 1, p - 1)
  BY <1>1, <1>2, <1>3
<1>9. SubSeq(u, p + 2, Len(u)) = SubSeq(s, p + 2, Len(s)) \o t
  <2>. DEFINE a == SubSeq(u, p + 2, Len(u))
              r == SubSeq(s, p + 2, Len(s))
              b == r \o t
  <2>1. /\ a \in Seq(Byte)
        /\ Len(a) = Len(u) - p - 1
        /\ \A i \in 1..Len(a) : a[i] = u[p + 1 + i]
    BY <1>1, <1>2, <1>3
  <2>2. /\ r \in Seq(Byte)
        /\ Len(r) = Len(s) - p - 1
        /\ \A i \in 1..Len(r) : r[i] = s[p + 1 + i]
    BY <1>1, <1>3, SMTT(30)
  <2>. HIDE DEF a, r
  <2>3. /\ b \in Seq(Byte)
        /\ Len(b) = Len(r) + Len(t)
        /\ \A i \in 1..Len(r) : b[i] = r[i]
        /\ \A i \in 1..Len(t) : b[Len(r) + i] = t[i]
    BY <2>2, SMTT(30)
  <2>. HIDE DEF b
  <2>4. Len(a) = Len(b)
    BY <1>1, <1>2, <1>3, <2>1, <2>2, <2>3
  <2>5. ASSUME NEW i \in 1..Len(a) PROVE a[i] = b[i]
    <3>1. CASE i \in 1..Len(r)
      BY <1>1, <1>2, <1>3, <2>1, <2>2, <2>3, <3>1
    <3>2. CASE i \notin 1..Len(r)
      <4>1. i - Len(r) \in 1..Len(t)
        BY <1>1, <1>3, <2>2, <2>3, <2>4, <3>2
      <4>2. b[Len(r) + (i - Len(r))] = t[i - Len(r)]
        BY <2>3, <4>1
      <4>3. u[Len(s) + (i - Len(r))] = t[i - Len(r)]
        BY <1>2, <4>1
      <4>4. Len(r) + (i - Len(r)) = i /\ Len(s) + (i - Len(r)) = p + 1 + i
        BY <1>1, <1>3, <2>2, <4>1
      <4>. QED  BY <2>1, <4>2, <4>3, <4>4
    <3>. QED  BY <3>1, <3>2
  <2>6. a = b
    BY <2>1, <2>3, <2>4, <2>5, SeqEqual
  <2>. QED  BY <2>6 DEF a, b, r
<1>. QED  BY <1>7, <1>8, <1>9 DEF u, p

-----------------------------------------------------------------------------
(***************************************************************************)
(* Inbound implements CommandStream.                                       *)
(***************************************************************************)
LEMMA InitImplementsStream == Init => Commands!Init
BY DEF Init, Commands!Init, Unhandled

\* The streams of a state in which at most that of c differs.
LEMMA StreamOfOne ==
  ASSUME NEW c \in Client, NEW s,
         \A d \in Client \ {c} : Unhandled(d)' = Unhandled(d),
         Unhandled(c)' = s
  PROVE  [d \in Client |-> Unhandled(d)]' =
           [[d \in Client |-> Unhandled(d)] EXCEPT ![c] = s]
OBVIOUS

LEMMA StreamUnchanged ==
  ASSUME \A d \in Client : Unhandled(d)' = Unhandled(d), UNCHANGED <<cls, event>>
  PROVE  UNCHANGED Commands!vars
BY DEF Commands!vars

LEMMA BytesAssociate ==
  ASSUME NEW s \in Seq(Byte), NEW t \in Seq(Byte), NEW u \in Seq(Byte)
  PROVE  s \o (t \o u) = (s \o t) \o u
BY ConcatAssociative

LEMMA ConnectImplements ==
  ASSUME IInv, NEW c \in Client, Connect(c)
  PROVE  Commands!Open(c)
<1>1. \A d \in Client \ {c} : Unhandled(d)' = Unhandled(d)
  BY DEF Connect, Unhandled, IInv, TypeOK
<1>2. Unhandled(c) = <<>>
  BY DEF Connect, Unhandled
<1>3. buffer'[c] = <<>> /\ wire'[c] = <<>>
  BY DEF Connect, IInv, TypeOK, WiresEnd
<1>4. Unhandled(c)' = <<>>
  BY <1>3 DEF Connect, Unhandled
<1>5. UNCHANGED [d \in Client |-> Unhandled(d)]
  BY <1>1, <1>2, <1>4
<1>. QED  BY <1>5 DEF Connect, Commands!Open

LEMMA SendImplements ==
  ASSUME IInv, NEW c \in Client, NEW b \in Byte, Send(c, b)
  PROVE  Commands!Send(c, b)
<1>1. \A d \in Client \ {c} : Unhandled(d)' = Unhandled(d)
  BY DEF Send, Unhandled, IInv, TypeOK
<1>2. /\ wire[c] \in Seq(Byte)
      /\ buffer[c] \in Seq(Byte)
  BY DEF IInv, TypeOK
<1>3. buffer'[c] \o wire'[c] = Append(buffer[c] \o wire[c], b)
  <2>1. wire'[c] = Append(wire[c], b) /\ buffer'[c] = buffer[c]
    BY DEF Send, IInv, TypeOK
  <2>2. /\ Append(wire[c], b) = wire[c] \o <<b>>
        /\ Append(buffer[c] \o wire[c], b) = (buffer[c] \o wire[c]) \o <<b>>
    BY <1>2, AppendIsConcat, ConcatProperties
  <2>3. <<b>> \in Seq(Byte)
    OBVIOUS
  <2>4. buffer[c] \o (wire[c] \o <<b>>) = (buffer[c] \o wire[c]) \o <<b>>
    BY <1>2, <2>3, BytesAssociate, Zenon
  <2>. QED  BY <2>1, <2>2, <2>4
<1>4. Unhandled(c)' = Append(Unhandled(c), b)
  BY <1>3 DEF Send, Unhandled
<1>. QED  BY <1>1, <1>4, StreamOfOne DEF Send, Commands!Send

\* Where a client is removed its stream ends, whatever is left in its buffer.
LEMMA RemovedImplements ==
  ASSUME IInv, NEW c \in Client, Removed(c),
         \A d \in Client \ {c} : buffer'[d] = buffer[d]
  PROVE  Commands!Ended(c)
<1>1. \A d \in Client \ {c} : Unhandled(d)' = Unhandled(d)
  BY DEF Removed, Unhandled, IInv, TypeOK
<1>2. Unhandled(c)' = <<>>
  BY DEF Removed, Unhandled
<1>. QED  BY <1>1, <1>2, StreamOfOne DEF Removed, Commands!Ended

LEMMA LoseImplements ==
  ASSUME IInv, NEW c \in Client, Lose(c)
  PROVE  Commands!Lose(c)
BY RemovedImplements DEF Lose, Commands!Lose

LEMMA MoreIsLonger ==
  ASSUME NEW i \in Nat, NEW j \in Nat, NEW k \in Nat, NEW limit \in Nat,
         j <= k, i + j > limit
  PROVE  i + k > limit
OBVIOUS

\* A chunk moves from the wire to the buffer: the stream remains.  A refusal
\* drops what was read, together with the connection.
LEMMA ReceiveImplements ==
  ASSUME "NUL" \notin Byte, IInv, NEW c \in Client, Receive(c)
  PROVE  Commands!Refuse(c) \/ UNCHANGED Commands!vars
<1>1. /\ c \in cls
      /\ wire[c] \in Seq(Byte)
      /\ buffer[c] \in Seq(Byte)
  BY DEF Receive, IInv, TypeOK
<1>2. PICK n \in 1..Len(wire[c]) :
        LET filled == buffer[c] \o CString(SubSeq(wire[c], 1, n))
        IN  IF Len(filled) > MaxBuffer
            THEN /\ Removed(c)
                 /\ event' = [kind |-> "too long", command |-> <<>>]
                 /\ UNCHANGED <<buffer, serving>>
            ELSE /\ wire' = [wire EXCEPT ![c] = SubSeq(@, n + 1, Len(@))]
                 /\ buffer' = [buffer EXCEPT ![c] = filled]
                 /\ to_remove' = Resets
                 /\ serving' = c
                 /\ UNCHANGED <<cls, event>>
  BY DEF Receive
<1>. DEFINE chunk == SubSeq(wire[c], 1, n)
            rest == SubSeq(wire[c], n + 1, Len(wire[c]))
            filled == buffer[c] \o chunk
<1>3. /\ chunk \in Seq(Byte)
      /\ Len(chunk) = n
      /\ rest \in Seq(Byte)
  BY <1>1
<1>4. CString(chunk) = chunk
  BY <1>3, CStringWhole
<1>5. chunk \o rest = wire[c]
  BY <1>1
<1>6. filled \o rest = buffer[c] \o wire[c]
  <2>1. filled \o rest = buffer[c] \o (chunk \o rest)
    BY <1>1, <1>3, BytesAssociate, Zenon
  <2>. QED  BY <2>1, <1>5
<1>7. CASE Len(filled) > MaxBuffer
  <2>1. /\ Removed(c)
        /\ event' = [kind |-> "too long", command |-> <<>>]
        /\ UNCHANGED buffer
    BY <1>2, <1>4, <1>7
  <2>2. Commands!Ended(c)
    BY <2>1, RemovedImplements
  <2>3. Len(buffer[c] \o wire[c]) > MaxBuffer
    <3>1. /\ Len(filled) = Len(buffer[c]) + n
          /\ Len(buffer[c] \o wire[c]) = Len(buffer[c]) + Len(wire[c])
      BY <1>1, <1>3
    <3>2. Len(buffer[c]) \in Nat /\ Len(wire[c]) \in Nat /\ MaxBuffer \in Nat
      BY <1>1, InboundAssumption
    <3>3. n \in Nat /\ n <= Len(wire[c])
      BY <3>2
    <3>4. Len(buffer[c]) + n > MaxBuffer
      BY <1>7, <3>1, Zenon
    <3>5. Len(buffer[c]) + Len(wire[c]) > MaxBuffer
      BY <3>2, <3>3, <3>4, MoreIsLonger, Zenon
    <3>. QED  BY <3>1, <3>5, Zenon
  <2>4. Unhandled(c) = buffer[c] \o wire[c]
    BY <1>1 DEF Unhandled
  <2>. QED  BY <1>1, <2>1, <2>2, <2>3, <2>4 DEF Commands!Refuse
<1>8. CASE ~(Len(filled) > MaxBuffer)
  <2>1. /\ wire' = [wire EXCEPT ![c] = rest]
        /\ buffer' = [buffer EXCEPT ![c] = filled]
        /\ UNCHANGED <<cls, event>>
    BY <1>2, <1>4, <1>8
  <2>2. wire'[c] = rest /\ buffer'[c] = filled
    BY <2>1 DEF IInv, TypeOK
  <2>3. Unhandled(c)' = Unhandled(c)
    BY <1>6, <2>1, <2>2 DEF Unhandled
  <2>4. \A d \in Client \ {c} : Unhandled(d)' = Unhandled(d)
    BY <2>1 DEF Unhandled, IInv, TypeOK
  <2>. QED  BY <2>1, <2>3, <2>4, StreamUnchanged
<1>. QED  BY <1>7, <1>8

LEMMA HandleImplements ==
  ASSUME IInv, NEW c \in Client, Handle(c)
  PROVE  Commands!Serve(c)
<1>1. /\ c \in cls
      /\ HasCRLF(buffer[c])
      /\ wire[c] \in Seq(Byte)
      /\ buffer[c] \in Seq(Byte)
  BY InboundAssumption DEF Handle, Loops, IInv, TypeOK, FlagIsTrue
<1>. DEFINE b == buffer[c]
            u == b \o wire[c]
            pos == FindCRLF(b)
            command == SubSeq(b, 1, pos - 1)
            rest == SubSeq(b, pos + 2, Len(b))
<1>2. /\ HasCRLF(u)
      /\ FindCRLF(u) = pos
      /\ SubSeq(u, 1, pos - 1) = command
      /\ SubSeq(u, pos + 2, Len(u)) = rest \o wire[c]
  BY <1>1, CommandOfPrefix
<1>3. Unhandled(c) = u
  BY <1>1 DEF Unhandled
<1>4. /\ event' = [kind |-> "command", command |-> command]
      /\ buffer' = [buffer EXCEPT ![c] = rest]
      /\ IF Closes(command) THEN Removed(c)
                            ELSE UNCHANGED <<cls, wire, to_remove>>
  BY DEF Handle
<1>. HIDE DEF u, pos, rest, command
<1>5. Commands!HasCommand(u)
  BY <1>2 DEF Commands!HasCommand, Commands!CRLFAt, HasCRLF, CRLFAt
<1>6. Commands!End(u) = pos
  BY <1>2 DEF Commands!End, Commands!CRLFAt, FindCRLF, CRLFAt
<1>7. Commands!First(u) = command
  BY <1>2, <1>6 DEF Commands!First
<1>8. Commands!Rest(u) = rest \o wire[c]
  BY <1>2, <1>6 DEF Commands!Rest
<1>9. \A d \in Client \ {c} : buffer'[d] = buffer[d]
  BY <1>4 DEF IInv, TypeOK
<1>10. CASE Closes(command)
  <2>1. Commands!Ended(c)
    BY <1>4, <1>9, <1>10, RemovedImplements
  <2>. QED  BY <1>1, <1>3, <1>4, <1>5, <1>7, <1>10, <2>1 DEF Commands!Serve
<1>11. CASE ~Closes(command)
  <2>1. \A d \in Client \ {c} : Unhandled(d)' = Unhandled(d)
    BY <1>4, <1>9, <1>11 DEF Unhandled
  <2>2. buffer'[c] = rest
    BY <1>4 DEF IInv, TypeOK
  <2>3. Unhandled(c)' = Commands!Rest(u)
    BY <1>1, <1>4, <1>8, <1>11, <2>2 DEF Unhandled
  <2>4. [d \in Client |-> Unhandled(d)]' =
          [[d \in Client |-> Unhandled(d)] EXCEPT ![c] = Commands!Rest(u)]
    BY <2>1, <2>3, StreamOfOne
  <2>. QED
    BY <1>1, <1>3, <1>4, <1>5, <1>7, <1>11, <2>4 DEF Commands!Serve
<1>. QED  BY <1>10, <1>11

LEMMA ReturnImplements == Return => UNCHANGED Commands!vars
BY StreamUnchanged DEF Return, Unhandled

LEMMA StepImplementsStream ==
  ASSUME "NUL" \notin Byte, IInv, [Next]_vars
  PROVE  [Commands!Next]_(Commands!vars)
<1>1. ASSUME NEW c \in Client, Connect(c) PROVE Commands!Next
  BY <1>1, ConnectImplements DEF Commands!Next
<1>2. ASSUME NEW c \in Client, NEW b \in Byte, Send(c, b) PROVE Commands!Next
  BY <1>2, SendImplements DEF Commands!Next
<1>3. ASSUME NEW c \in Client, Lose(c) PROVE Commands!Next
  BY <1>3, LoseImplements DEF Commands!Next
<1>4. ASSUME NEW c \in Client, Receive(c)
      PROVE  Commands!Next \/ UNCHANGED Commands!vars
  BY <1>4, ReceiveImplements DEF Commands!Next
<1>5. ASSUME NEW c \in Client, Handle(c) PROVE Commands!Next
  BY <1>5, HandleImplements DEF Commands!Next
<1>6. CASE UNCHANGED vars
  BY <1>6, StreamUnchanged DEF vars, Unhandled
<1>. QED
  BY <1>1, <1>2, <1>3, <1>4, <1>5, <1>6, ReturnImplements DEF Next

\* Without NUL bytes every command of a connection is handled once, whole and
\* in the order it was sent, however recv cuts the stream (Server.cpp:192-210).
THEOREM InboundImplementsStream ==
  ASSUME "NUL" \notin Byte
  PROVE  Spec => ImplementsCommandStream
<1>1. Init => Commands!Init
  BY InitImplementsStream
<1>2. IInv /\ [Next]_vars => [Commands!Next]_(Commands!vars)
  BY StepImplementsStream
<1>. QED
  BY <1>1, <1>2, InductiveInvariant, PTL
  DEF Spec, ImplementsCommandStream, Commands!Spec
=============================================================================
