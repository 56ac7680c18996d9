--------------------------- MODULE MediaPathProofs ---------------------------
(***************************************************************************)
(* Proofs about MediaPath, for any number of listeners, sockets, packets   *)
(* and any size of the kernel's queues: old sound is bounded, and the      *)
(* media path implements Broadcast.                                        *)
(*                                                                         *)
(* The invariant has three parts beside the types.  Own says whose a       *)
(* socket is, and that those of F come in the order of its senders.  Kept  *)
(* says where packets can be at all.  Ordered says that what was sent      *)
(* comes before what is in hand, and that before what waits.               *)
(***************************************************************************)
EXTENDS MediaPath, TLAPS

\* The order of the stream.
p \prec q == Promise!Before(p, q)

\* The packets that wait at a socket.
In(fd) == Range(queue[fd])

Sorted(q) == \A k, l \in 1 .. Len(q) : k < l => q[k] \prec q[l]

Typed == TypeOK /\ queue \in [Fds -> Seq(Packets)]

Own ==
    /\ \A fd \in fMap \cap Fds : fd <= opened
    /\ walk \in Fds => walk <= opened
    /\ \A x, y \in fMap : x = y
    /\ todo = "F" => fMap = {}
    /\ \A fd \in fMap \cap Fds : walk \in Fds => walk <= fd
    /\ \A c \in Clients : /\ sent[c].speaker <= opened
                          /\ \A fd \in (fMap \cup {walk}) \cap Fds : sent[c].speaker <= fd

Kept ==
    /\ \A fd \in Fds : fd \notin fMap \cup {walk} => In(fd) = {}
    /\ packet # NoPacket => walk \in Fds

Ordered ==
    /\ \A c \in Clients : sent[c].number <= arrived
    /\ \A fd \in Fds : Sorted(queue[fd])
    /\ \A fd \in Fds : \A p \in In(fd) :
        /\ p.speaker = fd /\ p.number <= arrived
        /\ \A c \in Clients : sent[c] \prec p
    /\ packet # NoPacket =>
        /\ packet.speaker = walk /\ packet.number <= arrived
        /\ \A c \in Clients : sent[c] \prec packet
        /\ \A fd \in Fds : \A p \in In(fd) : packet \prec p

Inv == Typed /\ Own /\ Kept /\ Ordered

-----------------------------------------------------------------------------
(***************************************************************************)
(* Queues.                                                                 *)
(***************************************************************************)

\* An empty queue holds nothing.
LEMMA EmptyQueue == Range(<<>>) = {} /\ Sorted(<<>>)
BY DEF Range, Sorted

\* What a queue holds is of the type of its packets.
LEMMA QueueHolds == ASSUME NEW q \in Seq(Packets) PROVE Range(q) \subseteq Packets
BY DEF Range

\* Only the empty queue holds nothing.
LEMMA HoldsNothing ==
  ASSUME NEW q \in Seq(Packets), Range(q) = {} PROVE q = <<>>
<1>1. Len(q) \in Nat /\ DOMAIN q = 1 .. Len(q) OBVIOUS
<1>2. \A k \in 1 .. Len(q) : q[k] \in Range(q) BY <1>1 DEF Range
<1>3. Len(q) = 0 BY <1>1, <1>2
<1>4. QED BY <1>3

\* A packet at the end of a queue, later than all before it.
LEMMA AppendQueue ==
  ASSUME NEW q \in Seq(Packets), NEW p \in Packets
  PROVE  /\ Append(q, p) \in Seq(Packets)
         /\ Len(Append(q, p)) = Len(q) + 1
         /\ Range(Append(q, p)) = Range(q) \cup {p}
         /\ Sorted(q) /\ (\A r \in Range(q) : r \prec p) => Sorted(Append(q, p))
<1>1. /\ Append(q, p) \in Seq(Packets) /\ Len(Append(q, p)) = Len(q) + 1
      /\ \A k \in 1 .. Len(q) : Append(q, p)[k] = q[k]
      /\ Append(q, p)[Len(q) + 1] = p
  OBVIOUS
<1>2. Len(q) \in Nat /\ DOMAIN q = 1 .. Len(q) /\ DOMAIN Append(q, p) = 1 .. Len(q) + 1
  OBVIOUS
<1>3. Range(Append(q, p)) = Range(q) \cup {p}
  <2>1. ASSUME NEW r \in Range(Append(q, p)) PROVE r \in Range(q) \cup {p}
    <3>1. PICK k \in 1 .. Len(q) + 1 : r = Append(q, p)[k] BY <1>2 DEF Range
    <3>2. k \in 1 .. Len(q) \/ k = Len(q) + 1 BY <1>2
    <3>3. QED BY <1>1, <1>2, <3>1, <3>2 DEF Range
  <2>2. ASSUME NEW r \in Range(q) PROVE r \in Range(Append(q, p))
    <3>1. PICK k \in 1 .. Len(q) : r = q[k] BY <1>2 DEF Range
    <3>2. k \in 1 .. Len(q) + 1 BY <1>2
    <3>3. QED BY <1>1, <1>2, <3>1, <3>2 DEF Range
  <2>3. p \in Range(Append(q, p))
    <3>1. Len(q) + 1 \in 1 .. Len(q) + 1 BY <1>2
    <3>2. QED BY <1>1, <1>2, <3>1 DEF Range
  <2>4. QED BY <2>1, <2>2, <2>3
<1>4. ASSUME Sorted(q), \A r \in Range(q) : r \prec p PROVE Sorted(Append(q, p))
  <2> SUFFICES ASSUME NEW k \in 1 .. Len(q) + 1, NEW l \in 1 .. Len(q) + 1, k < l
               PROVE  Append(q, p)[k] \prec Append(q, p)[l]
    BY <1>1 DEF Sorted
  <2>1. k \in 1 .. Len(q) BY <1>2
  <2>2. CASE l \in 1 .. Len(q) BY <1>1, <1>4, <2>1, <2>2 DEF Sorted
  <2>3. CASE l = Len(q) + 1
    <3>1. q[k] \in Range(q) BY <1>2, <2>1 DEF Range
    <3>2. QED BY <1>1, <1>4, <2>1, <2>3, <3>1
  <2>4. QED BY <1>2, <2>2, <2>3
<1>5. QED BY <1>1, <1>3, <1>4

\* The packet at the head of a sorted queue is the earliest.
LEMMA HeadQueue ==
  ASSUME NEW q \in Seq(Packets), q # <<>>
  PROVE  /\ Head(q) \in Packets /\ Tail(q) \in Seq(Packets)
         /\ Len(Tail(q)) = Len(q) - 1
         /\ Range(q) = {Head(q)} \cup Range(Tail(q))
         /\ Sorted(q) => Sorted(Tail(q)) /\ \A r \in Range(Tail(q)) : Head(q) \prec r
<1>1. /\ Len(q) \in Nat \ {0} /\ DOMAIN q = 1 .. Len(q)
      /\ Head(q) = q[1] /\ Head(q) \in Packets
      /\ Tail(q) \in Seq(Packets) /\ Len(Tail(q)) = Len(q) - 1
      /\ DOMAIN Tail(q) = 1 .. Len(q) - 1
      /\ \A k \in 1 .. Len(q) - 1 : Tail(q)[k] = q[k + 1]
  OBVIOUS
<1>2. \A k \in 1 .. Len(q) - 1 : k + 1 \in 1 .. Len(q) BY <1>1
<1>3. \A k \in 1 .. Len(q) : k = 1 \/ k - 1 \in 1 .. Len(q) - 1 BY <1>1
<1>4. Range(q) = {Head(q)} \cup Range(Tail(q))
  <2>1. ASSUME NEW r \in Range(q) PROVE r \in {Head(q)} \cup Range(Tail(q))
    <3>1. PICK k \in 1 .. Len(q) : r = q[k] BY <1>1 DEF Range
    <3>2. CASE k = 1 BY <1>1, <3>1, <3>2
    <3>3. CASE k - 1 \in 1 .. Len(q) - 1
      <4>1. Tail(q)[k - 1] = q[k] BY <1>1, <3>3
      <4>2. QED BY <1>1, <3>1, <3>3, <4>1 DEF Range
    <3>4. QED BY <1>3, <3>2, <3>3
  <2>2. ASSUME NEW r \in Range(Tail(q)) PROVE r \in Range(q)
    <3>1. PICK k \in 1 .. Len(q) - 1 : r = q[k + 1] BY <1>1 DEF Range
    <3>2. QED BY <1>1, <1>2, <3>1 DEF Range
  <2>3. Head(q) \in Range(q)
    <3>1. 1 \in 1 .. Len(q) BY <1>1
    <3>2. QED BY <1>1, <3>1 DEF Range
  <2>4. QED BY <2>1, <2>2, <2>3
<1>5. ASSUME Sorted(q) PROVE Sorted(Tail(q)) /\ \A r \in Range(Tail(q)) : Head(q) \prec r
  <2>1. ASSUME NEW k \in 1 .. Len(Tail(q)), NEW l \in 1 .. Len(Tail(q)), k < l
        PROVE  Tail(q)[k] \prec Tail(q)[l]
    <3>1. k + 1 \in 1 .. Len(q) /\ l + 1 \in 1 .. Len(q) /\ k + 1 < l + 1 BY <1>1, <1>2, <2>1
    <3>2. q[k + 1] \prec q[l + 1] BY <1>5, <3>1 DEF Sorted
    <3>3. QED BY <1>1, <2>1, <3>2
  <2>2. ASSUME NEW r \in Range(Tail(q)) PROVE Head(q) \prec r
    <3>1. PICK k \in 1 .. Len(q) - 1 : r = q[k + 1] BY <1>1 DEF Range
    <3>2. 1 \in 1 .. Len(q) /\ k + 1 \in 1 .. Len(q) /\ 1 < k + 1 BY <1>1, <1>2
    <3>3. q[1] \prec q[k + 1] BY <1>5, <3>2 DEF Sorted
    <3>4. QED BY <1>1, <3>1, <3>3
  <2>3. QED BY <2>1, <2>2 DEF Sorted
<1>6. QED BY <1>1, <1>4, <1>5

-----------------------------------------------------------------------------
(***************************************************************************)
(* The invariant at first, and over the calls of main.                     *)
(***************************************************************************)
LEMMA SetsAreNumbers == Fds \subseteq Nat \ {0} /\ Failed \in Int /\ Failed < 0
                        /\ Failed \notin Fds /\ NoFd \notin Nodes /\ NoPacket \notin Packets
BY BoundsAssumption, SentinelAssumption DEF Fds, Failed, Nodes

\* What a packet is made of.
LEMMA PacketIs ==
  /\ \A p \in Packets : p.speaker \in Fds /\ p.speaker \in Nat /\ p.number \in Nat \ {0}
  /\ \A f \in Fds, n \in 1 .. MaxPackets :
        /\ [speaker |-> f, number |-> n] \in Packets
        /\ [speaker |-> f, number |-> n].speaker = f
        /\ [speaker |-> f, number |-> n].number = n
  /\ Nothing.speaker = 0 /\ Nothing.number = 0
<1>1. ASSUME NEW p \in Packets
      PROVE  p.speaker \in Fds /\ p.speaker \in Nat /\ p.number \in Nat \ {0}
  <2>1. p.speaker \in Fds /\ p.number \in 1 .. MaxPackets BY DEF Packets
  <2>2. p.speaker \in Nat BY <2>1, SetsAreNumbers
  <2>3. p.number \in Nat \ {0} BY <2>1, BoundsAssumption
  <2>4. QED BY <2>1, <2>2, <2>3
<1>2. ASSUME NEW f \in Fds, NEW n \in 1 .. MaxPackets
      PROVE  [speaker |-> f, number |-> n] \in Packets
  BY DEF Packets
<1>3. Nothing.speaker = 0 /\ Nothing.number = 0 BY DEF Nothing
<1>4. QED BY <1>1, <1>2, <1>3

\* No packet comes before itself.
LEMMA NotBeforeItself == ASSUME NEW p \in Packets PROVE ~(p \prec p)
BY PacketIs DEF \prec, Promise!Before

\* Packets are numbered, wherever they are.
LEMMA Numbers ==
  ASSUME Typed
  PROVE  /\ arrived \in Nat /\ opened \in Nat
         /\ \A c \in Clients : sent[c].speaker \in Nat /\ sent[c].number \in Nat
         /\ packet # NoPacket => packet \in Packets
         /\ \A fd \in Fds : In(fd) \subseteq Packets
<1>1. arrived \in Nat /\ opened \in Nat BY BoundsAssumption DEF Typed, TypeOK
<1>2. ASSUME NEW c \in Clients PROVE sent[c].speaker \in Nat /\ sent[c].number \in Nat
  <2>1. sent[c] = Nothing \/ sent[c] \in Packets BY DEF Typed, TypeOK
  <2>2. QED BY <2>1, PacketIs
<1>3. packet # NoPacket => packet \in Packets BY DEF Typed, TypeOK
<1>4. \A fd \in Fds : In(fd) \subseteq Packets BY QueueHolds DEF Typed, TypeOK, In
<1>5. QED BY <1>1, <1>2, <1>3, <1>4

\* A packet that arrives where it can be read comes after all that was sent, after
\* what is in hand, and after all that waits at the same socket.
LEMMA NextIsLatest ==
  ASSUME Inv, NEW f \in (fMap \cup {walk}) \cap Fds, NEW p \in Packets,
         p.speaker = f, p.number = arrived + 1
  PROVE  /\ \A c \in Clients : sent[c] \prec p /\ sent[c].number <= arrived + 1
         /\ packet # NoPacket => packet \prec p /\ packet.number <= arrived + 1
         /\ \A q \in In(f) : q \prec p
         /\ \A fd \in Fds : \A q \in In(fd) : q.number <= arrived + 1
<1>1. arrived \in Nat /\ f \in Nat BY Numbers, SetsAreNumbers DEF Inv
<1>2. ASSUME NEW c \in Clients PROVE sent[c] \prec p /\ sent[c].number <= arrived + 1
  <2>1. sent[c].speaker \in Nat /\ sent[c].number \in Nat BY Numbers DEF Inv
  <2>2. sent[c].speaker <= f /\ sent[c].number <= arrived BY DEF Inv, Own, Ordered
  <2>3. QED BY <1>1, <2>1, <2>2 DEF \prec, Promise!Before
<1>3. ASSUME packet # NoPacket PROVE packet \prec p /\ packet.number <= arrived + 1
  <2>1. packet.speaker \in Nat /\ packet.number \in Nat BY <1>3, Numbers, PacketIs DEF Inv
  <2>2. packet.speaker = walk /\ walk \in Fds /\ packet.number <= arrived
    BY <1>3 DEF Inv, Ordered, Kept
  <2>3. walk <= f BY <1>1, <2>2, SetsAreNumbers DEF Inv, Own
  <2>4. QED BY <1>1, <2>1, <2>2, <2>3 DEF \prec, Promise!Before
<1>4. ASSUME NEW fd \in Fds, NEW q \in In(fd)
      PROVE  q.number <= arrived + 1 /\ (fd = f => q \prec p)
  <2>1. q.speaker \in Nat /\ q.number \in Nat BY Numbers, PacketIs DEF Inv
  <2>2. q.speaker = fd /\ q.number <= arrived BY DEF Inv, Ordered
  <2>3. QED BY <1>1, <2>1, <2>2 DEF \prec, Promise!Before
<1>5. QED BY <1>2, <1>3, <1>4

\* What waits at the node that the thread stands on comes before what waits
\* anywhere else.
LEMMA WalkIsFirst ==
  ASSUME Inv, walk \in Fds, NEW fd \in Fds \ {walk}, NEW p \in In(walk), NEW q \in In(fd)
  PROVE  p \prec q /\ walk < fd
<1>1. fd \in fMap BY DEF Inv, Kept
<1>2. walk \in Nat /\ fd \in Nat /\ walk <= fd BY <1>1, SetsAreNumbers DEF Inv, Own
<1>3. p.speaker = walk /\ q.speaker = fd BY DEF Inv, Ordered
<1>4. QED BY <1>2, <1>3 DEF \prec, Promise!Before

LEMMA InvInit == Init => Inv
<1> SUFFICES ASSUME Init PROVE Inv OBVIOUS
<1>1. Typed
  BY BoundsAssumption, SetsAreNumbers DEF Init, Typed, TypeOK, Fds
<1>2. \A c \in Clients : sent[c].speaker = 0 /\ sent[c].number = 0
  BY PacketIs DEF Init
<1>3. Own
  BY <1>2, SetsAreNumbers DEF Init, Own, Nodes
<1>4. \A fd \in Fds : In(fd) = {} /\ Sorted(queue[fd])
  BY EmptyQueue DEF Init, In
<1>5. Kept BY <1>4 DEF Init, Kept
<1>6. Ordered BY <1>2, <1>4 DEF Init, Ordered
<1>7. QED BY <1>1, <1>3, <1>5, <1>6 DEF Inv

\* What a step of main leaves alone.
LEMMA MainLeaves ==
  ASSUME Main PROVE UNCHANGED <<arrived, walk, packet, sent>>
BY DEF Main, switchVars

\* Kept and Ordered speak of queues and of the switch thread only, so they outlive
\* every step that forgets no more than what nobody can read.
LEMMA QueuesOutlive ==
  ASSUME Inv, UNCHANGED <<arrived, walk, packet, sent>>,
         \A fd \in Fds : queue'[fd] = queue[fd] \/ queue'[fd] = <<>>,
         \A fd \in Fds : fd \notin (fMap \cup {walk})' => fd \notin fMap \cup {walk} \/ queue'[fd] = <<>>
  PROVE  Kept' /\ Ordered'
<1>1. \A fd \in Fds : /\ In(fd)' = In(fd) \/ In(fd)' = {}
                      /\ Sorted(queue[fd]) => Sorted(queue'[fd])
  BY EmptyQueue DEF In
<1>2. Kept' BY <1>1, EmptyQueue DEF Inv, Kept, In
<1>3. Ordered'
  <2>1. \A fd \in Fds : In(fd)' \subseteq In(fd) BY <1>1
  <2>2. \A fd \in Fds : Sorted(queue'[fd]) BY <1>1 DEF Inv, Ordered
  <2>3. QED BY <2>1, <2>2 DEF Inv, Ordered
<1>4. QED BY <1>2, <1>3

LEMMA AddFKeeps ==
  ASSUME Inv, AddF, fMap = {}, todo' \in {todo, "none"}, todo' = "F" => FALSE,
         UNCHANGED <<arrived, walk, packet, sent>>
  PROVE  Inv'
<1>1. PICK fd \in Fds \cup {Failed} : Socket(fd) /\ fMap' = {fd}
  BY DEF AddF
<1>2. /\ UNCHANGED <<cMap, queue, since, stale>>
      /\ fd \in Nodes /\ opened \in 0 .. MaxFds
  BY <1>1 DEF AddF, age, Nodes, Inv, Typed, TypeOK
<1>3. \/ fd = Failed /\ opened' = opened /\ opened = MaxFds
      \/ fd \in Fds /\ fd = opened + 1 /\ opened' = fd
  BY <1>1, <1>2, BoundsAssumption DEF Socket, Fds, Failed
<1>4. opened' \in 0 .. MaxFds /\ opened <= opened'
  BY <1>2, <1>3, BoundsAssumption DEF Fds
<1>5. Typed'
  BY <1>1, <1>2, <1>4 DEF Inv, Typed, TypeOK
<1>6. Own'
  <2>1. walk \in Fds => walk <= opened /\ walk <= opened' /\ walk \in Nat
    BY <1>2, <1>4, SetsAreNumbers, BoundsAssumption DEF Inv, Own
  <2>2. \A x \in fMap' \cap Fds : x = opened + 1 /\ x <= opened'
    BY <1>1, <1>2, <1>3, <1>4, SetsAreNumbers
  <2>3. ASSUME NEW c \in Clients
        PROVE  /\ sent[c].speaker <= opened'
               /\ \A x \in (fMap' \cup {walk}) \cap Fds : sent[c].speaker <= x
    <3>1. sent[c].speaker \in Nat BY Numbers DEF Inv
    <3>2. sent[c].speaker <= opened /\ (walk \in Fds => sent[c].speaker <= walk)
      BY DEF Inv, Own
    <3>3. sent[c].speaker <= opened' /\ sent[c].speaker <= opened + 1
      BY <1>2, <1>4, <3>1, <3>2, BoundsAssumption
    <3>4. QED BY <2>2, <3>2, <3>3
  <2>4. \A x \in fMap' \cap Fds : walk \in Fds => walk <= x
    BY <1>2, <2>1, <2>2, BoundsAssumption
  <2>5. QED BY <1>1, <2>1, <2>2, <2>3, <2>4 DEF Own
<1>7. Kept' /\ Ordered'
  <2>1. \A x \in Fds : x \notin (fMap \cup {walk})' => x \notin fMap \cup {walk}
    OBVIOUS
  <2>2. QED BY <1>2, <2>1, QueuesOutlive
<1>8. QED BY <1>5, <1>6, <1>7 DEF Inv

LEMMA AddCKeeps ==
  ASSUME Inv, NEW c \in Clients, AddC(c), todo' \in {todo, "none"},
         UNCHANGED <<arrived, walk, packet, sent>>
  PROVE  Inv'
<1>1. PICK fd \in Fds \cup {Failed} : Socket(fd) /\ cMap' = [cMap EXCEPT ![c] = fd]
  BY DEF AddC
<1>2. /\ UNCHANGED <<fMap, queue>>
      /\ since' = [since EXCEPT ![c] = arrived] /\ stale' = [stale EXCEPT ![c] = 0]
      /\ fd \in Nodes /\ opened \in 0 .. MaxFds
  BY <1>1 DEF AddC, Nodes, Inv, Typed, TypeOK
<1>3. \/ fd = Failed /\ opened' = opened /\ opened = MaxFds
      \/ fd \in Fds /\ fd = opened + 1 /\ opened' = fd
  BY <1>1, <1>2, BoundsAssumption DEF Socket, Fds, Failed
<1>4. opened' \in 0 .. MaxFds /\ opened <= opened'
  BY <1>2, <1>3, BoundsAssumption DEF Fds
<1>5. Typed'
  BY <1>1, <1>2, <1>4 DEF Inv, Typed, TypeOK
<1>6. Own'
  <2>1. ASSUME NEW x \in Nat, x <= opened PROVE x <= opened' BY <1>2, <1>4, <2>1
  <2>2. \A x \in Fds : x \in Nat BY SetsAreNumbers
  <2>3. \A d \in Clients : sent[d].speaker \in Nat BY Numbers DEF Inv
  <2>4. QED BY <1>2, <2>1, <2>2, <2>3 DEF Inv, Own
<1>7. Kept' /\ Ordered'
  BY <1>2, QueuesOutlive
<1>8. QED BY <1>5, <1>6, <1>7 DEF Inv

LEMMA DelFKeeps ==
  ASSUME Inv, DelF, todo' \in {"none", "F"}, UNCHANGED <<opened, arrived, walk, packet, sent>>
  PROVE  Inv'
<1>1. /\ fMap' = {} /\ queue' = Readable({}, walk)
      /\ UNCHANGED <<cMap, since, stale>>
  BY DEF DelF, age
<1>2. \A fd \in Fds : queue'[fd] = IF fd = walk THEN queue[fd] ELSE <<>>
  BY <1>1 DEF Readable
<1>3. Typed'
  <2>1. ASSUME NEW fd \in Fds PROVE queue'[fd] \in Seq(Packets) /\ Len(queue'[fd]) <= QueueCap
    <3>1. CASE fd = walk BY <1>2, <3>1 DEF Inv, Typed, TypeOK
    <3>2. CASE fd # walk
      <4>1. queue'[fd] = <<>> BY <1>2, <3>2
      <4>2. <<>> \in Seq(Packets) /\ Len(<<>>) = 0 /\ 0 <= QueueCap BY BoundsAssumption
      <4>3. QED BY <4>1, <4>2
    <3>3. QED BY <3>1, <3>2
  <2>2. queue' \in [Fds -> Seq(Packets)] BY <1>1, <2>1 DEF Readable
  <2>3. QED BY <1>1, <2>1, <2>2 DEF Inv, Typed, TypeOK
<1>4. Own'
  BY <1>1 DEF Inv, Own
<1>5. Kept' /\ Ordered'
  BY <1>2, QueuesOutlive
<1>6. QED BY <1>3, <1>4, <1>5 DEF Inv

LEMMA DelCKeeps ==
  ASSUME Inv, NEW c \in Clients, DelC(c), todo' \in {"none", c}, c # "F" \/ todo' = "none",
         UNCHANGED <<opened, arrived, walk, packet, sent>>
  PROVE  Inv'
<1>1. /\ cMap' = [cMap EXCEPT ![c] = NoFd]
      /\ since' = [since EXCEPT ![c] = 0] /\ stale' = [stale EXCEPT ![c] = 0]
      /\ UNCHANGED <<fMap, queue>>
  BY DEF DelC
<1>2. Typed'
  <2>1. cMap' \in [Clients -> Nodes \cup {NoFd}] BY <1>1 DEF Inv, Typed, TypeOK
  <2>2. 0 \in 0 .. MaxPackets /\ 0 \in Nat BY BoundsAssumption
  <2>3. since' \in [Clients -> 0 .. MaxPackets] /\ stale' \in [Clients -> Nat]
    BY <1>1, <2>2 DEF Inv, Typed, TypeOK
  <2>4. QED BY <1>1, <2>1, <2>3 DEF Inv, Typed, TypeOK
<1>3. Own'
  BY <1>1 DEF Inv, Own
<1>4. Kept' /\ Ordered'
  BY <1>1, QueuesOutlive
<1>5. QED BY <1>2, <1>3, <1>4 DEF Inv

LEMMA MainKeeps == ASSUME Inv, Main PROVE Inv'
<1> USE MainLeaves
<1>1. CASE LoginF
  BY <1>1, AddFKeeps DEF LoginF
<1>2. CASE MoveF
  BY <1>2, AddFKeeps DEF MoveF, Inv, Own
<1>3. CASE LeaveF
  BY <1>3, DelFKeeps DEF LeaveF
<1>4. ASSUME NEW c \in Clients, LoginC(c) PROVE Inv'
  BY <1>4, AddCKeeps DEF LoginC
<1>5. ASSUME NEW c \in Clients, MoveC(c) PROVE Inv'
  BY <1>5, AddCKeeps DEF MoveC
<1>6. ASSUME NEW c \in Clients, LeaveC(c) PROVE Inv'
  BY <1>6, DelCKeeps, ClientsAssumption DEF LeaveC
<1>7. QED BY <1>1, <1>2, <1>3, <1>4, <1>5, <1>6 DEF Main

-----------------------------------------------------------------------------
(***************************************************************************)
(* The invariant over the steps of the network and of the switch thread.   *)
(***************************************************************************)

\* What these steps leave alone of the maps and the sockets, a packet that is sent
\* at the end of the walk included.
LEMMA OwnOutlives ==
  ASSUME Inv, UNCHANGED <<fMap, todo, opened>>, walk' \in fMap \cup {walk, NoFd},
         \/ sent' = sent
         \/ /\ walk \in Fds /\ walk' = NoFd
            /\ \A c \in Clients : sent'[c] = sent[c] \/ sent'[c].speaker = walk
  PROVE  Own'
<1>1. NoFd \notin Fds /\ \A x \in Fds : x \in Nat /\ x <= x
  BY SetsAreNumbers DEF Nodes
<1>2. CASE sent' = sent BY <1>1, <1>2 DEF Inv, Own
<1>3. CASE sent' # sent BY <1>1, <1>3 DEF Inv, Own
<1>4. QED BY <1>2, <1>3

LEMMA ReceiveKeeps == ASSUME Inv, NEW f \in Fds, Receive(f) PROVE Inv'
<1> DEFINE new == [speaker |-> f, number |-> arrived + 1]
<1>1. /\ UNCHANGED <<fMap, cMap, todo, opened, walk, packet, sent, since, stale>>
      /\ arrived' = arrived + 1 /\ arrived' \in 1 .. MaxPackets /\ arrived \in Nat
      /\ f \in fMap \cup {walk}
  BY BoundsAssumption
  DEF Receive, maps, switchVars, history, age, Inv, Typed, TypeOK
<1>2. new \in Packets /\ new.speaker = f /\ new.number = arrived + 1
  BY <1>1, PacketIs
<1>3. /\ \A c \in Clients : sent[c] \prec new /\ sent[c].number <= arrived'
      /\ packet # NoPacket => packet \prec new /\ packet.number <= arrived'
      /\ \A q \in In(f) : q \prec new
      /\ \A fd \in Fds : \A q \in In(fd) : q.number <= arrived'
  <2> HIDE DEF new
  <2>1. QED BY <1>1, <1>2, NextIsLatest
<1>4. Own' BY <1>1, OwnOutlives DEF Inv
<1>5. /\ queue \in [Fds -> Seq(Packets)] /\ queue[f] \in Seq(Packets)
      /\ \A g \in Fds : Len(queue[g]) <= QueueCap /\ In(g) \subseteq Packets
  BY QueueHolds DEF Inv, Typed, TypeOK, In
<1>6. CASE Len(queue[f]) < QueueCap
  <2>1. queue' = [queue EXCEPT ![f] = Append(queue[f], new)]
    BY <1>1, <1>6 DEF Receive
  <2> HIDE DEF new
  <2>2. /\ queue'[f] = Append(queue[f], new)
        /\ \A g \in Fds \ {f} : queue'[g] = queue[g]
    BY <1>5, <2>1
  <2>3. /\ queue'[f] \in Seq(Packets) /\ Len(queue'[f]) = Len(queue[f]) + 1
        /\ Range(queue'[f]) = In(f) \cup {new} /\ Sorted(queue'[f])
    BY <1>2, <1>3, <1>5, <2>2, AppendQueue DEF In, Inv, Ordered
  <2>4. In(f)' = In(f) \cup {new} /\ \A g \in Fds \ {f} : In(g)' = In(g)
    BY <2>2, <2>3 DEF In
  <2>5. Typed'
    <3>1. queue' \in [Fds -> Seq(Packets)] BY <1>5, <2>1, <2>2, <2>3
    <3>2. \A g \in Fds : Len(queue'[g]) <= QueueCap
      BY <1>5, <1>6, <2>2, <2>3, BoundsAssumption
    <3>3. arrived' \in 0 .. MaxPackets BY <1>1
    <3>4. QED BY <1>1, <3>1, <3>2, <3>3 DEF Inv, Typed, TypeOK
  <2>6. Kept' BY <1>1, <2>4 DEF Inv, Kept
  <2>7. Ordered'
    <3>1. \A g \in Fds : Sorted(queue'[g])
      BY <2>2, <2>3 DEF Inv, Ordered
    <3>2. ASSUME NEW g \in Fds, NEW p \in In(g)'
          PROVE  /\ p.speaker = g /\ p.number <= arrived'
                 /\ \A c \in Clients : sent[c] \prec p
                 /\ packet # NoPacket => packet \prec p
      <4>1. CASE p \in In(g) BY <1>3, <4>1 DEF Inv, Ordered
      <4>2. CASE p = new /\ g = f
        <5>1. arrived + 1 <= arrived' BY <1>1
        <5>2. QED BY <1>2, <1>3, <4>2, <5>1
      <4>3. QED BY <2>4, <3>2, <4>1, <4>2
    <3>3. \A c \in Clients : sent[c].number <= arrived' BY <1>3
    <3>4. packet # NoPacket =>
            /\ packet.speaker = walk /\ packet.number <= arrived'
            /\ \A c \in Clients : sent[c] \prec packet
            /\ \A g \in Fds : \A p \in In(g)' : packet \prec p
      BY <1>3, <3>2 DEF Inv, Ordered
    <3>5. \A g \in Fds : \A p \in In(g)' :
            /\ p.speaker = g /\ p.number <= arrived'
            /\ \A c \in Clients : sent[c] \prec p
      BY <3>2
    <3>6. UNCHANGED <<walk, packet, sent>> BY <1>1
    <3>7. QED BY <3>1, <3>3, <3>4, <3>5, <3>6 DEF Ordered
  <2>8. QED BY <1>4, <2>5, <2>6, <2>7 DEF Inv
<1>7. CASE ~(Len(queue[f]) < QueueCap)
  <2>1. queue' = queue BY <1>7 DEF Receive
  <2>2. \A g \in Fds : In(g)' = In(g) BY <2>1 DEF In
  <2>3. Typed' BY <1>1, <2>1 DEF Inv, Typed, TypeOK
  <2>4. Kept' BY <1>1, <2>2 DEF Inv, Kept
  <2>5. Ordered' BY <1>1, <1>3, <2>1, <2>2 DEF Inv, Ordered
  <2>6. QED BY <1>4, <2>3, <2>4, <2>5 DEF Inv
<1>8. QED BY <1>6, <1>7

LEMMA SwitchBeginKeeps == ASSUME Inv, SwitchBegin PROVE Inv'
<1>1. /\ UNCHANGED <<fMap, cMap, todo, opened, queue, arrived, packet, sent, since, stale>>
      /\ walk = NoFd /\ packet = NoPacket /\ walk' \in fMap
  BY DEF SwitchBegin, maps, sockets, history, age
<1>2. Typed' BY <1>1 DEF Inv, Typed, TypeOK
<1>3. Own' BY <1>1, OwnOutlives DEF Inv
<1>4. \A fd \in Fds : In(fd)' = In(fd) BY <1>1 DEF In
<1>5. Kept' BY <1>1, <1>4, SetsAreNumbers DEF Inv, Kept, Nodes
<1>6. Ordered' BY <1>1, <1>4 DEF Inv, Ordered
<1>7. QED BY <1>2, <1>3, <1>5, <1>6 DEF Inv

\* What a read does to the queue of the node that the thread stands on.
LEMMA SwitchReadTakes ==
  ASSUME Inv, SwitchRead
  PROVE  /\ UNCHANGED <<fMap, cMap, todo, opened, arrived, walk, sent, since, stale>>
         /\ walk \in Fds /\ packet = NoPacket /\ packet' \in Packets
         /\ queue' \in [Fds -> Seq(Packets)]
         /\ \A fd \in Fds : Len(queue'[fd]) <= QueueCap /\ Sorted(queue'[fd])
         /\ In(walk) = {packet'} \cup In(walk)'
         /\ \A p \in In(walk)' : packet' \prec p
         /\ \A fd \in Fds \ {walk} : In(fd)' = In(fd)
<1>1. /\ UNCHANGED <<fMap, cMap, todo, opened, arrived, walk, sent, since, stale>>
      /\ packet = NoPacket /\ queue[walk] # <<>>
      /\ packet' = Head(queue[walk])
      /\ queue' = [queue EXCEPT ![walk] = Tail(queue[walk])]
  BY DEF SwitchRead, maps, history, age
<1>2. walk \in Fds BY DEF SwitchRead, Inv, Typed, TypeOK, Nodes
<1>3. /\ queue \in [Fds -> Seq(Packets)] /\ queue[walk] \in Seq(Packets)
      /\ \A fd \in Fds : Len(queue[fd]) <= QueueCap /\ Sorted(queue[fd])
  BY <1>2 DEF Inv, Typed, TypeOK, Ordered
<1>4. /\ packet' \in Packets /\ Tail(queue[walk]) \in Seq(Packets)
      /\ Len(Tail(queue[walk])) = Len(queue[walk]) - 1
      /\ Range(queue[walk]) = {packet'} \cup Range(Tail(queue[walk]))
      /\ Sorted(Tail(queue[walk])) /\ \A p \in Range(Tail(queue[walk])) : packet' \prec p
  BY <1>1, <1>2, <1>3, HeadQueue
<1>5. /\ queue'[walk] = Tail(queue[walk])
      /\ \A fd \in Fds \ {walk} : queue'[fd] = queue[fd]
  BY <1>1, <1>2, <1>3
<1>6. queue' \in [Fds -> Seq(Packets)] BY <1>1, <1>3, <1>4, <1>5
<1>7. Len(Tail(queue[walk])) <= QueueCap
  <2>1. Len(queue[walk]) \in Nat /\ Len(queue[walk]) <= QueueCap BY <1>2, <1>3
  <2>2. QED BY <1>4, <2>1, BoundsAssumption
<1>8. \A fd \in Fds : Len(queue'[fd]) <= QueueCap /\ Sorted(queue'[fd])
  BY <1>3, <1>4, <1>5, <1>7
<1>9. In(walk)' = Range(Tail(queue[walk])) BY <1>1, <1>5 DEF In
<1>10. \A fd \in Fds \ {walk} : In(fd)' = In(fd) BY <1>5 DEF In
<1>11. In(walk) = {packet'} \cup In(walk)' /\ \A p \in In(walk)' : packet' \prec p
  BY <1>4, <1>9 DEF In
<1>12. QED BY <1>1, <1>2, <1>4, <1>6, <1>8, <1>10, <1>11

LEMMA SwitchReadKeeps == ASSUME Inv, SwitchRead PROVE Inv'
<1>1. /\ UNCHANGED <<fMap, cMap, todo, opened, arrived, walk, sent, since, stale>>
      /\ walk \in Fds /\ packet = NoPacket /\ packet' \in Packets
      /\ queue' \in [Fds -> Seq(Packets)]
      /\ \A fd \in Fds : Len(queue'[fd]) <= QueueCap /\ Sorted(queue'[fd])
      /\ In(walk) = {packet'} \cup In(walk)'
      /\ \A p \in In(walk)' : packet' \prec p
      /\ \A fd \in Fds \ {walk} : In(fd)' = In(fd)
  BY SwitchReadTakes
<1>2. Typed' BY <1>1 DEF Inv, Typed, TypeOK
<1>3. Own' BY <1>1, OwnOutlives DEF Inv
<1>4. Kept' BY <1>1 DEF Inv, Kept
<1>5. Ordered'
  <2>1. \A fd \in Fds : In(fd)' \subseteq In(fd)
    <3> SUFFICES ASSUME NEW fd \in Fds PROVE In(fd)' \subseteq In(fd) OBVIOUS
    <3>1. CASE fd = walk
      <4>1. In(fd)' = In(walk)' BY <1>1, <3>1 DEF In
      <4>2. QED BY <1>1, <3>1, <4>1
    <3>2. CASE fd # walk BY <1>1, <3>2
    <3>3. QED BY <3>1, <3>2
  <2>2. packet' \in In(walk) BY <1>1
  <2>3. /\ packet'.speaker = walk /\ packet'.number <= arrived
        /\ \A c \in Clients : sent[c] \prec packet'
    BY <1>1, <2>2 DEF Inv, Ordered
  <2>4. ASSUME NEW fd \in Fds, NEW p \in In(fd)' PROVE packet' \prec p
    <3>1. CASE fd = walk
      <4>1. In(fd)' = In(walk)' BY <1>1, <3>1 DEF In
      <4>2. QED BY <1>1, <2>4, <4>1
    <3>2. CASE fd # walk
      <4>1. p \in In(fd) BY <2>1, <2>4
      <4>2. QED BY <1>1, <2>2, <3>2, <4>1, WalkIsFirst
    <3>3. QED BY <3>1, <3>2
  <2>5. \A fd \in Fds : \A p \in In(fd)' :
           p.speaker = fd /\ p.number <= arrived /\ \A c \in Clients : sent[c] \prec p
    BY <2>1 DEF Inv, Ordered
  <2>6. \A c \in Clients : sent[c].number <= arrived BY DEF Inv, Ordered
  <2>7. QED BY <1>1, <2>3, <2>4, <2>5, <2>6 DEF Ordered
<1>6. QED BY <1>2, <1>3, <1>4, <1>5 DEF Inv

\* Where the walk ends, nothing waits but at F's node.
LEMMA WalkEnds ==
  ASSUME Inv, queue' = Readable(fMap, NoFd)
  PROVE  /\ queue' \in [Fds -> Seq(Packets)]
         /\ \A fd \in Fds : Len(queue'[fd]) <= QueueCap /\ Sorted(queue'[fd])
         /\ \A fd \in Fds : Range(queue'[fd]) = IF fd \in fMap THEN In(fd) ELSE {}
<1>1. \A fd \in Fds : queue'[fd] = IF fd \in fMap THEN queue[fd] ELSE <<>>
  BY SetsAreNumbers DEF Readable, Nodes
<1>2. <<>> \in Seq(Packets) /\ Len(<<>>) <= QueueCap
  BY BoundsAssumption
<1>3. \A fd \in Fds : queue'[fd] \in Seq(Packets) /\ Len(queue'[fd]) <= QueueCap
  BY <1>1, <1>2 DEF Inv, Typed, TypeOK
<1>4. \A fd \in Fds : Sorted(queue'[fd]) BY <1>1, EmptyQueue DEF Inv, Ordered
<1>5. \A fd \in Fds : Range(queue'[fd]) = IF fd \in fMap THEN In(fd) ELSE {}
  BY <1>1, EmptyQueue DEF In
<1>6. queue' \in [Fds -> Seq(Packets)] BY <1>3 DEF Readable
<1>7. QED BY <1>3, <1>4, <1>5, <1>6

LEMMA SwitchIdleKeeps == ASSUME Inv, SwitchIdle PROVE Inv'
<1>1. /\ UNCHANGED <<fMap, cMap, todo, opened, arrived, packet, sent, since, stale>>
      /\ walk' = NoFd /\ packet = NoPacket /\ queue' = Readable(fMap, NoFd)
  BY DEF SwitchIdle, maps, history, age
<1>2. Typed' BY <1>1, WalkEnds DEF Inv, Typed, TypeOK
<1>3. Own' BY <1>1, OwnOutlives DEF Inv
<1>4. \A fd \in Fds : In(fd)' = IF fd \in fMap THEN In(fd) ELSE {}
  BY <1>1, WalkEnds DEF In
<1>5. Kept' BY <1>1, <1>4 DEF Kept
<1>6. Ordered'
  BY <1>1, <1>4, WalkEnds, SetsAreNumbers DEF Inv, Ordered, Nodes
<1>7. QED BY <1>2, <1>3, <1>5, <1>6 DEF Inv

LEMMA SwitchForwardKeeps == ASSUME Inv, SwitchForward PROVE Inv'
<1>1. /\ UNCHANGED <<fMap, cMap, todo, opened, arrived, since>>
      /\ walk' = NoFd /\ packet' = NoPacket /\ queue' = Readable(fMap, NoFd)
      /\ packet # NoPacket /\ packet \in Packets
      /\ sent' = [c \in Clients |-> IF c \in Reached THEN packet ELSE sent[c]]
      /\ stale' = [c \in Clients |->
                      IF c \in Reached /\ packet.number <= since[c]
                      THEN stale[c] + 1 ELSE stale[c]]
  BY DEF SwitchForward, maps, Inv, Typed, TypeOK
<1>2. Typed'
  <2>1. sent' \in [Clients -> {Nothing} \cup Packets] BY <1>1 DEF Inv, Typed, TypeOK
  <2>2. stale' \in [Clients -> Nat] BY <1>1 DEF Inv, Typed, TypeOK
  <2>3. QED BY <1>1, <2>1, <2>2, WalkEnds DEF Inv, Typed, TypeOK
<1>3. \A c \in Clients : sent'[c] = packet \/ sent'[c] = sent[c] BY <1>1
<1>4. walk \in Fds /\ packet.speaker = walk /\ packet.number <= arrived
  BY <1>1 DEF Inv, Kept, Ordered
<1>5. Own' BY <1>1, <1>3, <1>4, OwnOutlives
<1>6. \A fd \in Fds : In(fd)' = IF fd \in fMap THEN In(fd) ELSE {}
  BY <1>1, WalkEnds DEF In
<1>7. Kept' BY <1>1, <1>6 DEF Kept
<1>8. Ordered'
  <2>1. \A c \in Clients : sent'[c].number <= arrived BY <1>3, <1>4 DEF Inv, Ordered
  <2>2. ASSUME NEW fd \in Fds, NEW p \in In(fd)'
        PROVE  p.speaker = fd /\ p.number <= arrived /\ \A c \in Clients : sent'[c] \prec p
    <3>1. p \in In(fd) BY <1>6, <2>2
    <3>2. QED BY <1>1, <1>3, <3>1 DEF Inv, Ordered
  <2>3. QED BY <1>1, <2>1, <2>2, WalkEnds DEF Ordered
<1>9. QED BY <1>2, <1>5, <1>7, <1>8 DEF Inv

LEMMA StutterKeeps == ASSUME Inv, UNCHANGED vars PROVE Inv'
<1>1. UNCHANGED <<fMap, cMap, todo, opened, queue, arrived, walk, packet, sent, since, stale>>
  BY DEF vars, maps, sockets, switchVars, history, age
<1>2. \A fd \in Fds : In(fd)' = In(fd) BY <1>1 DEF In
<1>3. Typed' /\ Own'
  BY <1>1 DEF Inv, Typed, TypeOK, Own
<1>4. Kept' /\ Ordered' BY <1>1, <1>2 DEF Inv, Kept, Ordered
<1>5. QED BY <1>3, <1>4 DEF Inv

LEMMA NextKeeps == Inv /\ [Next]_vars => Inv'
<1> SUFFICES ASSUME Inv, [Next]_vars PROVE Inv' OBVIOUS
<1>1. CASE Main BY <1>1, MainKeeps
<1>2. ASSUME NEW fd \in Fds, Receive(fd) PROVE Inv' BY <1>2, ReceiveKeeps
<1>3. CASE SwitchBegin BY <1>3, SwitchBeginKeeps
<1>4. CASE SwitchRead BY <1>4, SwitchReadKeeps
<1>5. CASE SwitchIdle BY <1>5, SwitchIdleKeeps
<1>6. CASE SwitchForward BY <1>6, SwitchForwardKeeps
<1>7. CASE UNCHANGED vars BY <1>7, StutterKeeps
<1>8. QED BY <1>1, <1>2, <1>3, <1>4, <1>5, <1>6, <1>7 DEF Next, Switch

\* The invariant holds in every reachable state.
THEOREM Invariance == Spec => []Inv
BY InvInit, NextKeeps, PTL DEF Spec

\* Type correctness of the media path (data_plane.cpp, udp_interface.cpp).
THEOREM MediaPathTypeCorrect == Spec => []TypeOK
<1>1. Inv => TypeOK BY DEF Inv, Typed
<1>2. QED BY <1>1, Invariance, PTL

-----------------------------------------------------------------------------
(***************************************************************************)
(* Old sound.  What a listener has been sent of it so far is bounded       *)
(* together with what it may still be sent: the packet in hand, and the    *)
(* queue of F's socket up to the last packet older than the listener.      *)
(***************************************************************************)

\* An old packet for c is in hand, or will be when a node that was erased under
\* the switch thread is read once more.
InHand(c) ==
    \/ packet # NoPacket /\ packet.number <= since[c]
    \/ /\ packet = NoPacket /\ walk \in Fds \ fMap
       /\ queue[walk] # <<>> /\ queue[walk][1].number <= since[c]

Owed(c) == stale[c] + (IF InHand(c) THEN 1 ELSE 0)

Bounded ==
    \A c \in Clients :
        /\ since[c] <= arrived /\ Owed(c) <= QueueCap + 1
        /\ \A fd \in fMap \cap Fds : \A k \in 1 .. Len(queue[fd]) :
              queue[fd][k].number <= since[c] => Owed(c) + k <= QueueCap + 1

\* The numbers that the bound is about.
LEMMA OwedIs ==
  ASSUME Typed, NEW c \in Clients
  PROVE  /\ stale[c] \in Nat /\ since[c] \in Nat /\ Owed(c) \in Nat
         /\ arrived \in Nat /\ QueueCap \in Nat \ {0}
         /\ Owed(c) = stale[c] \/ Owed(c) = stale[c] + 1
         /\ InHand(c) => Owed(c) = stale[c] + 1
         /\ ~InHand(c) => Owed(c) = stale[c]
         /\ \A fd \in Fds : /\ Len(queue[fd]) \in Nat /\ Len(queue[fd]) <= QueueCap
                            /\ \A k \in 1 .. Len(queue[fd]) : queue[fd][k].number \in Nat \ {0}
<1>1. stale[c] \in Nat /\ since[c] \in Nat /\ arrived \in Nat /\ QueueCap \in Nat \ {0}
  BY BoundsAssumption DEF Typed, TypeOK
<1>2. /\ InHand(c) => Owed(c) = stale[c] + 1
      /\ ~InHand(c) => Owed(c) = stale[c]
  BY <1>1 DEF Owed
<1>3. ASSUME NEW fd \in Fds
      PROVE  /\ Len(queue[fd]) \in Nat /\ Len(queue[fd]) <= QueueCap
             /\ \A k \in 1 .. Len(queue[fd]) : queue[fd][k].number \in Nat \ {0}
  <2>1. queue[fd] \in Seq(Packets) /\ Len(queue[fd]) <= QueueCap BY DEF Typed, TypeOK
  <2>2. \A p \in Packets : p.number \in Nat \ {0} BY PacketIs
  <2>3. \A k \in 1 .. Len(queue[fd]) : queue[fd][k] \in Packets BY <2>1
  <2>4. QED BY <2>1, <2>2, <2>3
<1>4. QED BY <1>1, <1>2, <1>3

\* The same of the next state.
LEMMA NextOwedIs ==
  ASSUME Typed', NEW c \in Clients
  PROVE  /\ stale'[c] \in Nat /\ since'[c] \in Nat /\ Owed(c)' \in Nat
         /\ arrived' \in Nat
         /\ Owed(c)' = stale'[c] \/ Owed(c)' = stale'[c] + 1
         /\ InHand(c)' => Owed(c)' = stale'[c] + 1
         /\ ~InHand(c)' => Owed(c)' = stale'[c]
         /\ \A fd \in Fds : /\ Len(queue'[fd]) \in Nat /\ Len(queue'[fd]) <= QueueCap
                            /\ \A k \in 1 .. Len(queue'[fd]) : queue'[fd][k].number \in Nat \ {0}
<1>1. stale'[c] \in Nat /\ since'[c] \in Nat /\ arrived' \in Nat
  BY BoundsAssumption DEF Typed, TypeOK
<1>2. /\ InHand(c)' => Owed(c)' = stale'[c] + 1
      /\ ~InHand(c)' => Owed(c)' = stale'[c]
  BY <1>1 DEF Owed
<1>3. ASSUME NEW fd \in Fds
      PROVE  /\ Len(queue'[fd]) \in Nat /\ Len(queue'[fd]) <= QueueCap
             /\ \A k \in 1 .. Len(queue'[fd]) : queue'[fd][k].number \in Nat \ {0}
  <2>1. queue'[fd] \in Seq(Packets) /\ Len(queue'[fd]) <= QueueCap BY DEF Typed, TypeOK
  <2>2. \A p \in Packets : p.number \in Nat \ {0} BY PacketIs
  <2>3. \A k \in 1 .. Len(queue'[fd]) : queue'[fd][k] \in Packets BY <2>1
  <2>4. QED BY <2>1, <2>2, <2>3
<1>4. QED BY <1>1, <1>2, <1>3

\* The bound outlives every step after which no client is owed more, and nothing
\* has come to the queue of F's socket but packets that arrive now.
LEMMA BoundOutlives ==
  ASSUME Inv, Inv', Bounded, since' = since, arrived <= arrived',
         \A c \in Clients : Owed(c)' <= Owed(c),
         \A fd \in fMap' \cap Fds : \A k \in 1 .. Len(queue'[fd]) :
            \/ fd \in fMap /\ k \in 1 .. Len(queue[fd]) /\ queue'[fd][k] = queue[fd][k]
            \/ queue'[fd][k].number > arrived
  PROVE  Bounded'
<1> SUFFICES ASSUME NEW c \in Clients
             PROVE  /\ since'[c] <= arrived' /\ Owed(c)' <= QueueCap + 1
                    /\ \A fd \in fMap' \cap Fds : \A k \in 1 .. Len(queue'[fd]) :
                          queue'[fd][k].number <= since'[c] => Owed(c)' + k <= QueueCap + 1
  BY DEF Bounded
<1>1. /\ Owed(c) \in Nat /\ since[c] \in Nat /\ arrived \in Nat /\ QueueCap \in Nat
      /\ Owed(c)' \in Nat /\ arrived' \in Nat
      /\ \A fd \in Fds : /\ Len(queue'[fd]) \in Nat
                         /\ \A k \in 1 .. Len(queue'[fd]) : queue'[fd][k].number \in Nat
  BY OwedIs, NextOwedIs DEF Inv
<1>2. since[c] <= arrived /\ Owed(c) <= QueueCap + 1 /\ Owed(c)' <= Owed(c) BY DEF Bounded
<1>3. since'[c] <= arrived' /\ Owed(c)' <= QueueCap + 1 BY <1>1, <1>2
<1>4. ASSUME NEW fd \in fMap' \cap Fds, NEW k \in 1 .. Len(queue'[fd]),
             queue'[fd][k].number <= since[c]
      PROVE  Owed(c)' + k <= QueueCap + 1
  <2>1. k \in Nat /\ queue'[fd][k].number \in Nat BY <1>1
  <2>2. ~(queue'[fd][k].number > arrived) BY <1>1, <1>2, <1>4, <2>1
  <2>3. Owed(c) + k <= QueueCap + 1 BY <1>4, <2>2 DEF Bounded
  <2>4. QED BY <1>1, <1>2, <2>1, <2>3
<1>5. QED BY <1>3, <1>4

LEMMA InitBounded == Init => Bounded
BY BoundsAssumption DEF Init, Bounded, Owed, InHand

LEMMA AddFBounded ==
  ASSUME Inv, Inv', Bounded, AddF, fMap = {}, UNCHANGED <<arrived, walk, packet, sent>>
  PROVE  Bounded'
<1>1. PICK fd \in Fds \cup {Failed} : Socket(fd) /\ fMap' = {fd} BY DEF AddF
<1>2. UNCHANGED <<cMap, queue, since, stale>> BY DEF AddF, age
<1>3. ASSUME fd \in Fds PROVE queue[fd] = <<>> /\ fd # walk
  <2>1. fd = opened + 1 /\ opened \in Nat
    BY <1>1, <1>3, SetsAreNumbers, BoundsAssumption DEF Socket, Inv, Typed, TypeOK
  <2>2. fd # walk
    <3>1. walk \in Fds => walk <= opened /\ walk \in Nat BY SetsAreNumbers DEF Inv, Own
    <3>2. QED BY <1>3, <2>1, <3>1
  <2>3. Range(queue[fd]) = {} BY <1>3, <2>2 DEF Inv, Kept, In
  <2>4. queue[fd] \in Seq(Packets) BY <1>3 DEF Inv, Typed
  <2>5. QED BY <2>2, <2>3, <2>4, HoldsNothing
<1>4. ASSUME NEW c \in Clients PROVE Owed(c)' <= Owed(c)
  <2>1. InHand(c)' => InHand(c) BY <1>1, <1>2 DEF InHand
  <2>2. stale'[c] = stale[c] BY <1>2
  <2>3. QED BY <2>1, <2>2, OwedIs, NextOwedIs DEF Inv
<1>5. \A g \in fMap' \cap Fds : Len(queue'[g]) = 0 BY <1>1, <1>2, <1>3
<1>6. QED
  <2>1. arrived <= arrived' BY OwedIs, BoundsAssumption DEF Inv, Typed, TypeOK
  <2>2. \A g \in fMap' \cap Fds : 1 .. Len(queue'[g]) = {} BY <1>5
  <2>3. QED BY <1>2, <1>4, <2>1, <2>2, BoundOutlives

\* A sender of F that is erased may be read once more: what comes of it was the
\* first packet of its queue.
LEMMA DelFBounded ==
  ASSUME Inv, Inv', Bounded, DelF, UNCHANGED <<arrived, walk, packet, sent>>
  PROVE  Bounded'
<1>1. /\ fMap' = {} /\ queue' = Readable({}, walk) /\ UNCHANGED <<since, stale>>
  BY DEF DelF, age
<1>2. walk \in Fds => queue'[walk] = queue[walk] BY <1>1 DEF Readable
<1>3. ASSUME NEW c \in Clients PROVE since'[c] <= arrived' /\ Owed(c)' <= QueueCap + 1
  <2>1. since[c] <= arrived /\ Owed(c) <= QueueCap + 1 BY DEF Bounded
  <2>2. CASE InHand(c)' => InHand(c)
    <3>1. Owed(c)' <= Owed(c) BY <1>1, <2>2, OwedIs, NextOwedIs DEF Inv
    <3>2. QED BY <1>1, <2>1, <3>1, OwedIs, NextOwedIs DEF Inv
  <2>3. CASE InHand(c)' /\ ~InHand(c)
    <3>1. walk \in fMap \cap Fds /\ queue[walk] # <<>> /\ queue[walk][1].number <= since[c]
      BY <1>1, <1>2, <2>3 DEF InHand
    <3>2. 1 \in 1 .. Len(queue[walk])
      <4>1. queue[walk] \in Seq(Packets) BY <3>1 DEF Inv, Typed
      <4>2. QED BY <3>1, <4>1
    <3>3. Owed(c) + 1 <= QueueCap + 1 BY <3>1, <3>2 DEF Bounded
    <3>4. Owed(c)' = Owed(c) + 1 BY <1>1, <2>3, OwedIs, NextOwedIs DEF Inv
    <3>5. QED BY <1>1, <2>1, <3>3, <3>4
  <2>4. QED BY <2>2, <2>3
<1>4. QED BY <1>1, <1>3 DEF Bounded

\* A listener that comes or goes has been sent nothing old so far.
LEMMA ClientBounded ==
  ASSUME Inv, Inv', Bounded, NEW c \in Clients, NEW t \in {0, arrived},
         since' = [since EXCEPT ![c] = t], stale' = [stale EXCEPT ![c] = 0],
         UNCHANGED <<fMap, queue, arrived, walk, packet, sent>>
  PROVE  Bounded'
<1> SUFFICES ASSUME NEW d \in Clients
             PROVE  /\ since'[d] <= arrived' /\ Owed(d)' <= QueueCap + 1
                    /\ \A fd \in fMap' \cap Fds : \A k \in 1 .. Len(queue'[fd]) :
                          queue'[fd][k].number <= since'[d] => Owed(d)' + k <= QueueCap + 1
  BY DEF Bounded
<1>1. since \in [Clients -> 0 .. MaxPackets] /\ stale \in [Clients -> Nat]
  BY DEF Inv, Typed, TypeOK
<1>2. CASE d = c
  <2>1. since'[c] = t /\ stale'[c] = 0 BY <1>1
  <2>2. since'[c] <= arrived' BY <2>1, OwedIs DEF Inv
  <2>3. Owed(c)' = 0 \/ Owed(c)' = 1 BY <2>1, NextOwedIs DEF Inv
  <2>4. \A fd \in Fds : Len(queue'[fd]) \in Nat /\ Len(queue'[fd]) <= QueueCap
    BY NextOwedIs DEF Inv
  <2>5. QED BY <1>2, <2>2, <2>3, <2>4, BoundsAssumption
<1>3. CASE d # c
  <2>1. since'[d] = since[d] /\ stale'[d] = stale[d] BY <1>1, <1>3
  <2>2. Owed(d)' = Owed(d) BY <2>1 DEF Owed, InHand
  <2>3. QED BY <2>1, <2>2 DEF Bounded
<1>4. QED BY <1>2, <1>3

LEMMA MainBounded == ASSUME Inv, Inv', Bounded, Main PROVE Bounded'
<1> USE MainLeaves
<1>1. CASE LoginF BY <1>1, AddFBounded DEF LoginF
<1>2. CASE MoveF BY <1>2, AddFBounded DEF MoveF, Inv, Own
<1>3. CASE LeaveF BY <1>3, DelFBounded DEF LeaveF
<1>4. ASSUME NEW c \in Clients, AddC(c) \/ DelC(c) PROVE Bounded'
  BY <1>4, ClientBounded DEF AddC, DelC
<1>5. QED BY <1>1, <1>2, <1>3, <1>4 DEF Main, LoginC, MoveC, LeaveC

\* What arrives now is not old to anybody, be it for a node that was erased.
LEMMA ReceiveBounded ==
  ASSUME Inv, Inv', Bounded, NEW f \in Fds, Receive(f) PROVE Bounded'
<1> DEFINE new == [speaker |-> f, number |-> arrived + 1]
<1>1. /\ UNCHANGED <<fMap, walk, packet, since, stale>>
      /\ arrived' = arrived + 1 /\ arrived \in Nat /\ arrived + 1 \in 1 .. MaxPackets
      /\ queue' = IF Len(queue[f]) < QueueCap
                  THEN [queue EXCEPT ![f] = Append(queue[f], new)] ELSE queue
  BY BoundsAssumption DEF Receive, maps, switchVars, history, age, Inv, Typed, TypeOK
<1>2. new.number = arrived + 1 OBVIOUS
<1> HIDE DEF new
<1>3. queue \in [Fds -> Seq(Packets)] /\ queue[f] \in Seq(Packets) BY DEF Inv, Typed
<1>4. \A g \in Fds \ {f} : queue'[g] = queue[g] BY <1>1, <1>3
<1>5. ASSUME NEW k \in 1 .. Len(queue'[f])
      PROVE  \/ k \in 1 .. Len(queue[f]) /\ queue'[f][k] = queue[f][k]
             \/ queue'[f][k].number > arrived
  <2>1. CASE Len(queue[f]) < QueueCap
    <3>1. queue'[f] = Append(queue[f], new) BY <1>1, <1>3, <2>1
    <3>2. k \in 1 .. Len(queue[f]) \/ k = Len(queue[f]) + 1 BY <1>3, <3>1
    <3>3. CASE k \in 1 .. Len(queue[f]) BY <1>3, <3>1, <3>3
    <3>4. CASE k = Len(queue[f]) + 1
      <4>1. queue'[f][k] = new BY <1>3, <3>1, <3>4
      <4>2. arrived + 1 > arrived BY <1>1
      <4>3. QED BY <1>2, <4>1, <4>2
    <3>5. QED BY <3>2, <3>3, <3>4
  <2>2. CASE ~(Len(queue[f]) < QueueCap) BY <1>1, <2>2
  <2>3. QED BY <2>1, <2>2
<1>6. ASSUME NEW c \in Clients PROVE Owed(c)' <= Owed(c)
  <2>1. InHand(c)' => InHand(c)
    <3>1. CASE walk # f BY <1>1, <1>4, <3>1 DEF InHand
    <3>2. CASE walk = f
      <4>1. SUFFICES ASSUME packet = NoPacket, walk \notin fMap, InHand(c)' PROVE InHand(c)
        BY <1>1 DEF InHand
      <4>2. queue'[f] # <<>> /\ queue'[f][1].number <= since[c]
        BY <1>1, <3>2, <4>1 DEF InHand
      <4>3. queue'[f] \in Seq(Packets) BY DEF Inv, Typed
      <4>4. 1 \in 1 .. Len(queue'[f]) BY <4>2, <4>3
      <4>5. queue'[f][1].number \in Nat BY <4>3, <4>4, PacketIs
      <4>6. since[c] <= arrived /\ since[c] \in Nat BY OwedIs DEF Bounded, Inv
      <4>7. 1 \in 1 .. Len(queue[f]) /\ queue'[f][1] = queue[f][1]
        BY <1>1, <1>5, <4>2, <4>4, <4>5, <4>6
      <4>8. queue[f] # <<>> BY <1>3, <4>7
      <4>9. QED BY <3>2, <4>1, <4>2, <4>7, <4>8 DEF InHand
    <3>3. QED BY <3>1, <3>2
  <2>2. QED BY <1>1, <2>1, OwedIs, NextOwedIs DEF Inv
<1>7. arrived <= arrived' BY <1>1
<1>8. QED BY <1>1, <1>4, <1>5, <1>6, <1>7, BoundOutlives

\* A packet that is taken into hand leaves its place in the queue.
LEMMA SwitchReadBounded == ASSUME Inv, Inv', Bounded, SwitchRead PROVE Bounded'
<1>1. /\ UNCHANGED <<fMap, arrived, walk, since, stale>>
      /\ walk \in Fds /\ packet = NoPacket /\ packet' \in Packets
  BY SwitchReadTakes
<1>2. /\ queue[walk] # <<>> /\ packet' = Head(queue[walk])
      /\ queue' = [queue EXCEPT ![walk] = Tail(queue[walk])]
      /\ queue \in [Fds -> Seq(Packets)] /\ queue[walk] \in Seq(Packets)
  BY <1>1 DEF SwitchRead, Inv, Typed
<1>3. /\ packet' = queue[walk][1] /\ packet' # NoPacket
      /\ Len(queue'[walk]) = Len(queue[walk]) - 1 /\ Len(queue[walk]) \in Nat \ {0}
      /\ \A k \in 1 .. Len(queue'[walk]) :
            k + 1 \in 1 .. Len(queue[walk]) /\ queue'[walk][k] = queue[walk][k + 1]
      /\ \A fd \in Fds \ {walk} : queue'[fd] = queue[fd]
  BY <1>1, <1>2, SetsAreNumbers
<1>4. ASSUME walk \notin fMap PROVE Bounded'
  <2>1. \A c \in Clients : InHand(c)' <=> InHand(c) BY <1>1, <1>2, <1>3, <1>4 DEF InHand
  <2>2. \A c \in Clients : Owed(c)' = Owed(c) BY <1>1, <2>1 DEF Owed
  <2>3. \A fd \in fMap' \cap Fds : fd \in fMap /\ queue'[fd] = queue[fd] BY <1>1, <1>3, <1>4
  <2>4. QED BY <1>1, <2>2, <2>3 DEF Bounded
<1>5. ASSUME walk \in fMap PROVE Bounded'
  <2> SUFFICES ASSUME NEW c \in Clients
               PROVE  /\ since'[c] <= arrived' /\ Owed(c)' <= QueueCap + 1
                      /\ \A fd \in fMap' \cap Fds : \A k \in 1 .. Len(queue'[fd]) :
                            queue'[fd][k].number <= since'[c] => Owed(c)' + k <= QueueCap + 1
    BY DEF Bounded
  <2>1. \A fd \in fMap' \cap Fds : fd = walk BY <1>1, <1>5 DEF Inv, Own
  <2>2. ~InHand(c) BY <1>1, <1>5 DEF InHand
  <2>3. InHand(c)' <=> queue[walk][1].number <= since[c] BY <1>1, <1>3 DEF InHand
  <2>4. /\ Owed(c) \in Nat /\ Owed(c)' \in Nat /\ QueueCap \in Nat
        /\ Owed(c)' = Owed(c) \/ Owed(c)' = Owed(c) + 1
        /\ ~InHand(c)' => Owed(c)' = Owed(c)
    BY <1>1, <2>2, OwedIs, NextOwedIs DEF Inv
  <2>5. /\ since[c] <= arrived /\ Owed(c) <= QueueCap + 1
        /\ \A k \in 1 .. Len(queue[walk]) :
              queue[walk][k].number <= since[c] => Owed(c) + k <= QueueCap + 1
    BY <1>1, <1>5 DEF Bounded
  <2>6. Owed(c)' <= QueueCap + 1
    <3>1. 1 \in 1 .. Len(queue[walk]) BY <1>3
    <3>2. InHand(c)' => Owed(c) + 1 <= QueueCap + 1 BY <2>3, <2>5, <3>1
    <3>3. QED BY <2>4, <2>5, <3>2
  <2>7. ASSUME NEW k \in 1 .. Len(queue'[walk]), queue'[walk][k].number <= since[c]
        PROVE  Owed(c)' + k <= QueueCap + 1
    <3>1. Owed(c) + (k + 1) <= QueueCap + 1 BY <1>3, <2>5, <2>7
    <3>2. QED BY <2>4, <3>1
  <2>8. QED BY <1>1, <2>1, <2>5, <2>6, <2>7
<1>6. QED BY <1>4, <1>5

\* At the end of the walk nothing is in hand; what was is sent, or came to nobody.
LEMMA WalkEndBounded ==
  ASSUME Inv, Inv', Bounded, SwitchIdle \/ SwitchForward PROVE Bounded'
<1>1. /\ UNCHANGED <<fMap, arrived, since>>
      /\ walk' = NoFd /\ packet' = NoPacket /\ queue' = Readable(fMap, NoFd)
  BY DEF SwitchIdle, SwitchForward, maps, history, age
<1>2. \A fd \in fMap \cap Fds : queue'[fd] = queue[fd] BY <1>1 DEF Readable
<1>3. ASSUME NEW c \in Clients PROVE Owed(c)' <= Owed(c)
  <2>1. stale \in [Clients -> Nat] BY DEF Inv, Typed, TypeOK
  <2>2. Owed(c)' = stale'[c]
    <3>1. ~InHand(c)' BY <1>1, SetsAreNumbers DEF InHand, Nodes
    <3>2. QED BY <3>1, NextOwedIs DEF Inv
  <2>3. CASE SwitchIdle
    <3>1. stale'[c] = stale[c] BY <2>3 DEF SwitchIdle, history, age
    <3>2. QED BY <2>2, <3>1, OwedIs DEF Inv
  <2>4. CASE SwitchForward
    <3>1. /\ packet # NoPacket
          /\ stale'[c] = IF c \in Reached /\ packet.number <= since[c] THEN stale[c] + 1 ELSE stale[c]
      BY <2>4 DEF SwitchForward
    <3>2. packet.number <= since[c] => InHand(c) BY <3>1 DEF InHand
    <3>3. QED BY <2>2, <3>1, <3>2, OwedIs DEF Inv
  <2>5. QED BY <2>3, <2>4
<1>4. arrived <= arrived' BY <1>1, BoundsAssumption DEF Inv, Typed, TypeOK
<1>5. QED BY <1>1, <1>2, <1>3, <1>4, BoundOutlives

LEMMA NextBounded == Inv /\ Inv' /\ Bounded /\ [Next]_vars => Bounded'
<1> SUFFICES ASSUME Inv, Inv', Bounded, [Next]_vars PROVE Bounded' OBVIOUS
<1>1. CASE SwitchBegin \/ UNCHANGED vars
  <2>1. /\ UNCHANGED <<fMap, queue, arrived, packet, since, stale>>
        /\ walk' \in fMap \/ walk' = walk
    BY <1>1 DEF SwitchBegin, vars, maps, sockets, switchVars, history, age
  <2>2. \A c \in Clients : InHand(c)' => InHand(c) BY <2>1 DEF InHand
  <2>3. ASSUME NEW c \in Clients PROVE Owed(c)' <= Owed(c)
    <3>1. stale'[c] = stale[c] BY <2>1
    <3>2. QED BY <2>2, <3>1, OwedIs, NextOwedIs DEF Inv
  <2>4. arrived <= arrived' BY <2>1, BoundsAssumption DEF Inv, Typed, TypeOK
  <2>5. QED BY <2>1, <2>3, <2>4, BoundOutlives
<1>2. QED BY <1>1, MainBounded, ReceiveBounded, SwitchReadBounded, WalkEndBounded
  DEF Next, Switch

\* A listener hears no more of what F said to nobody before it came than the
\* kernel keeps for one socket and the packet in hand (data_plane.cpp:234-276).
THEOREM OldSoundStaysBounded == Spec => []OldSoundIsBounded
<1>1. Inv /\ Bounded => OldSoundIsBounded
  <2> SUFFICES ASSUME Inv, Bounded, NEW c \in Clients PROVE stale[c] <= QueueCap + 1
    BY DEF OldSoundIsBounded
  <2>1. Owed(c) <= QueueCap + 1 BY DEF Bounded
  <2>2. QED BY <2>1, OwedIs DEF Inv
<1>2. QED BY <1>1, InitBounded, NextBounded, InvInit, NextKeeps, PTL DEF Spec

-----------------------------------------------------------------------------
(***************************************************************************)
(* The media path implements Broadcast.                                    *)
(***************************************************************************)

\* Where a waiting packet is.
LEMMA WaitingIs ==
  ASSUME Inv, NEW p
  PROVE  p \in Waiting <=> \/ packet # NoPacket /\ p = packet
                           \/ \E fd \in Fds : p \in In(fd)
<1>1. p \in Waiting <=> \/ packet # NoPacket /\ p = packet
                        \/ \E fd \in (fMap \cup {walk}) \cap Fds : p \in In(fd)
  BY DEF Waiting, In
<1>2. \A fd \in Fds : p \in In(fd) => fd \in fMap \cup {walk} BY DEF Inv, Kept
<1>3. QED BY <1>1, <1>2

\* And one whose speaker is gone.
LEMMA OldIs ==
  ASSUME Inv, NEW p
  PROVE  p \in Old <=> /\ walk \in Fds \ fMap
                       /\ (packet # NoPacket /\ p = packet) \/ p \in In(walk)
BY DEF Old, In

\* The same of the next state.
LEMMA NextWaitingIs ==
  ASSUME Inv', NEW p
  PROVE  p \in Waiting' <=> \/ packet' # NoPacket /\ p = packet'
                            \/ \E fd \in Fds : p \in In(fd)'
<1>1. p \in Waiting' <=> \/ packet' # NoPacket /\ p = packet'
                         \/ \E fd \in (fMap' \cup {walk'}) \cap Fds : p \in In(fd)'
  BY DEF Waiting, In
<1>2. \A fd \in Fds : p \in In(fd)' => fd \in fMap' \cup {walk'} BY DEF Inv, Kept
<1>3. QED BY <1>1, <1>2

LEMMA NextOldIs ==
  ASSUME Inv', NEW p
  PROVE  p \in Old' <=> /\ walk' \in Fds \ fMap'
                        /\ (packet' # NoPacket /\ p = packet') \/ p \in In(walk)'
BY DEF Old, In

\* A step that the promise does not see.
LEMMA Unseen ==
  ASSUME Inv, Inv', UNCHANGED <<cMap, sent>>,
         \A p : p \in Waiting' <=> p \in Waiting,
         \A p : p \in Old' <=> p \in Old
  PROVE  UNCHANGED <<Waiting, Old, Listeners, sent>>
<1>1. Waiting' = Waiting /\ Old' = Old OBVIOUS
<1>2. Listeners' = Listeners BY DEF Listeners
<1>3. QED BY <1>1, <1>2

LEMMA AddFUnseen ==
  ASSUME Inv, Inv', AddF, fMap = {}, UNCHANGED <<arrived, walk, packet, sent>>
  PROVE  UNCHANGED <<Waiting, Old, Listeners, sent>>
<1>1. PICK fd \in Fds \cup {Failed} : Socket(fd) /\ fMap' = {fd}
  BY DEF AddF
<1>2. UNCHANGED <<cMap, queue>> BY DEF AddF
<1>3. walk \in Fds => walk # fd
  <2>1. SUFFICES ASSUME walk \in Fds, walk = fd PROVE FALSE OBVIOUS
  <2>2. walk \in Nat /\ walk <= opened BY <2>1, SetsAreNumbers DEF Inv, Own
  <2>3. opened \in Nat BY BoundsAssumption DEF Inv, Typed, TypeOK
  <2>4. fd = opened + 1 BY <1>1, <2>1, SetsAreNumbers DEF Socket
  <2>5. QED BY <2>1, <2>2, <2>3, <2>4
<1>4. \A x \in Fds : In(x)' = In(x) BY <1>2 DEF In
<1>5. \A p : p \in Waiting' <=> p \in Waiting
  BY <1>4, WaitingIs, NextWaitingIs
<1>6. walk' \in Fds \ fMap' <=> walk \in Fds \ fMap BY <1>1, <1>3
<1>7. walk \in Fds => In(walk)' = In(walk) BY <1>2 DEF In
<1>8. \A p : p \in Old' <=> p \in Old
  BY <1>6, <1>7, OldIs, NextOldIs
<1>9. QED BY <1>2, <1>5, <1>8, Unseen

LEMMA AddCListens ==
  ASSUME NEW c \in Clients, AddC(c) \/ DelC(c), Inv, UNCHANGED <<walk, packet, sent>>
  PROVE  Promise!Listen(c)
<1>1. UNCHANGED <<fMap, queue>> BY DEF AddC, DelC
<1>2. \A d \in Clients \ {c} : cMap'[d] = cMap[d]
  BY DEF AddC, DelC, Inv, Typed, TypeOK
<1>3. UNCHANGED <<Waiting, Old>> BY <1>1 DEF Waiting, Old
<1>4. Listeners' \in {Listeners \cup {c}, Listeners \ {c}}
  <2>1. \A d \in Clients \ {c} : d \in Listeners' <=> d \in Listeners BY <1>2 DEF Listeners
  <2>2. Listeners \subseteq Clients /\ Listeners' \subseteq Clients BY DEF Listeners
  <2>3. CASE c \in Listeners'
    <3>1. Listeners' = Listeners \cup {c} BY <2>1, <2>2, <2>3
    <3>2. QED BY <3>1
  <2>4. CASE c \notin Listeners'
    <3>1. Listeners' = Listeners \ {c} BY <2>1, <2>2, <2>4
    <3>2. QED BY <3>1
  <2>5. QED BY <2>3, <2>4
<1>5. QED BY <1>3, <1>4 DEF Promise!Listen

LEMMA DelFSilences ==
  ASSUME Inv, Inv', DelF, UNCHANGED <<walk, packet, sent>>
  PROVE  Promise!Silence
<1>1. /\ fMap' = {} /\ queue' = Readable({}, walk) /\ UNCHANGED cMap
  BY DEF DelF
<1>2. \A fd \in Fds : In(fd)' = IF fd = walk THEN In(fd) ELSE {}
  BY <1>1, EmptyQueue DEF Readable, In
<1>3. \A p : p \in Waiting' => p \in Waiting
  BY <1>2, WaitingIs, NextWaitingIs
<1>4. \A p : p \in Old' <=> p \in Waiting'
  <2> SUFFICES ASSUME NEW p PROVE p \in Old' <=> p \in Waiting' OBVIOUS
  <2>1. CASE walk \in Fds
    <3>1. p \in Old' <=> (packet' # NoPacket /\ p = packet') \/ p \in In(walk)
      <4>1. walk' \in Fds \ fMap' BY <1>1, <2>1
      <4>2. In(walk)' = In(walk) BY <1>1, <2>1 DEF Readable, In
      <4>3. QED BY <4>1, <4>2, NextOldIs
    <3>2. p \in Waiting' <=> (packet' # NoPacket /\ p = packet') \/ p \in In(walk)
      BY <1>2, <2>1, NextWaitingIs
    <3>3. QED BY <3>1, <3>2
  <2>2. CASE walk \notin Fds
    <3>1. packet' = NoPacket BY <2>2 DEF Inv, Kept
    <3>2. \A fd \in Fds : In(fd)' = {} BY <1>2, <2>2
    <3>3. p \notin Waiting' BY <3>1, <3>2, NextWaitingIs
    <3>4. p \notin Old' BY <2>2, NextOldIs
    <3>5. QED BY <3>3, <3>4
  <2>3. QED BY <2>1, <2>2
<1>5. Waiting' \in SUBSET Waiting /\ Old' = Waiting' BY <1>3, <1>4
<1>6. Listeners' = Listeners BY <1>1 DEF Listeners
<1>7. QED BY <1>5, <1>6 DEF Promise!Silence

LEMMA MainRefines ==
  ASSUME Inv, Inv', Main
  PROVE  [Promise!BroadcastNext]_<<Waiting, Old, Listeners, sent>>
<1> USE MainLeaves
<1>1. CASE LoginF BY <1>1, AddFUnseen DEF LoginF
<1>2. CASE MoveF BY <1>2, AddFUnseen DEF MoveF, Inv, Own
<1>3. CASE LeaveF BY <1>3, DelFSilences DEF LeaveF, Promise!BroadcastNext
<1>4. ASSUME NEW c \in Clients, LoginC(c) \/ MoveC(c) \/ LeaveC(c) PROVE Promise!BroadcastNext
  BY <1>4, AddCListens DEF LoginC, MoveC, LeaveC, Promise!BroadcastNext
<1>5. QED BY <1>1, <1>2, <1>3, <1>4 DEF Main

\* A packet comes after all that waits, if F's present sender is to have it; if it
\* is for a node that was erased, it is a straggler.
LEMMA ReceiveRefines ==
  ASSUME Inv, Inv', NEW f \in Fds, Receive(f)
  PROVE  [Promise!BroadcastNext]_<<Waiting, Old, Listeners, sent>>
<1> DEFINE new == [speaker |-> f, number |-> arrived + 1]
<1>1. /\ UNCHANGED <<fMap, cMap, walk, packet, sent>>
      /\ arrived' = arrived + 1 /\ arrived + 1 \in 1 .. MaxPackets /\ f \in fMap \cup {walk}
      /\ queue \in [Fds -> Seq(Packets)] /\ queue[f] \in Seq(Packets)
  BY BoundsAssumption DEF Receive, maps, switchVars, history, Inv, Typed, TypeOK
<1>2. new \in Packets /\ new.speaker = f /\ new.number = arrived + 1
  BY <1>1, PacketIs
<1>3. queue' = IF Len(queue[f]) < QueueCap
              THEN [queue EXCEPT ![f] = Append(queue[f], new)] ELSE queue
  BY <1>1 DEF Receive
<1> HIDE DEF new
<1>4. Listeners' = Listeners BY <1>1 DEF Listeners
<1>5. /\ \A c \in Clients : sent[c] \prec new
      /\ packet # NoPacket => packet \prec new
      /\ \A q \in In(f) : q \prec new
  BY <1>1, <1>2, NextIsLatest
<1>6. CASE Len(queue[f]) < QueueCap
  <2>1. /\ queue'[f] = Append(queue[f], new)
        /\ \A g \in Fds \ {f} : queue'[g] = queue[g]
    BY <1>1, <1>3, <1>6
  <2>2. In(f)' = In(f) \cup {new} /\ \A g \in Fds \ {f} : In(g)' = In(g)
    BY <1>1, <1>2, <2>1, AppendQueue DEF In
  <2>3. \A p : p \in Waiting' <=> p \in Waiting \/ p = new
    BY <1>1, <2>2, WaitingIs, NextWaitingIs
  <2>4. Waiting' = Waiting \cup {new} BY <2>3
  <2>5. CASE f \in fMap
    <3>1. ASSUME NEW q \in Waiting PROVE q \prec new
      <4>1. CASE packet # NoPacket /\ q = packet BY <1>5, <4>1
      <4>2. ASSUME NEW g \in Fds, q \in In(g) PROVE q \prec new
        <5>1. CASE g = f BY <1>5, <4>2, <5>1
        <5>2. CASE g # f
          <6>1. g = walk BY <2>5, <4>2, <5>2 DEF Inv, Own, Kept
          <6>2. g <= f BY <2>5, <4>2, <6>1 DEF Inv, Own
          <6>3. g \in Nat /\ f \in Nat BY <4>2, SetsAreNumbers
          <6>4. q.speaker = g BY <4>2 DEF Inv, Ordered
          <6>5. q.speaker < new.speaker BY <1>2, <5>2, <6>2, <6>3, <6>4
          <6>6. QED BY <6>5 DEF \prec, Promise!Before
        <5>3. QED BY <5>1, <5>2
      <4>3. QED BY <3>1, <4>1, <4>2, WaitingIs
    <3>2. \A p : p \in Old' <=> p \in Old
      <4>1. walk \in Fds \ fMap => In(walk)' = In(walk)
        <5>1. walk \in Fds \ fMap => queue'[walk] = queue[walk] BY <2>1, <2>5
        <5>2. QED BY <1>1, <5>1 DEF In
      <4>2. QED BY <1>1, <4>1, OldIs, NextOldIs
    <3>3. Old' = Old BY <3>2
    <3>4. Promise!Arrive(new)
      BY <1>1, <1>4, <1>5, <2>4, <3>1, <3>3 DEF Promise!Arrive, \prec
    <3>5. QED BY <1>2, <3>4 DEF Promise!BroadcastNext
  <2>6. CASE f \notin fMap
    <3>1. walk = f /\ walk \in Fds \ fMap BY <1>1, <2>6
    <3>2. \A q \in Old : q \prec new BY <1>5, <3>1, OldIs
    <3>3. ASSUME NEW q \in Waiting \ Old PROVE new.speaker < q.speaker
      <4>1. PICK g \in Fds : q \in In(g) BY <3>1, WaitingIs, OldIs
      <4>2. g # walk BY <3>1, <3>3, <4>1, OldIs
      <4>3. g \in fMap BY <4>1, <4>2 DEF Inv, Kept
      <4>4. walk <= g BY <3>1, <4>3 DEF Inv, Own
      <4>5. g \in Nat /\ walk \in Nat BY <3>1, SetsAreNumbers
      <4>6. q.speaker = g BY <4>1 DEF Inv, Ordered
      <4>7. QED BY <1>2, <3>1, <4>2, <4>4, <4>5, <4>6
    <3>4. \A p : p \in Old' <=> p \in Old \/ p = new
      <4>1. In(walk)' = In(walk) \cup {new}
        <5>1. In(walk)' = In(f)' BY <1>1, <3>1 DEF In
        <5>2. QED BY <2>2, <3>1, <5>1
      <4>2. QED BY <1>1, <3>1, <4>1, OldIs, NextOldIs
    <3>5. Old' = Old \cup {new} BY <3>4
    <3>6. Promise!Arrive(new)
      BY <1>1, <1>4, <1>5, <2>4, <3>2, <3>3, <3>5 DEF Promise!Arrive, \prec
    <3>7. QED BY <1>2, <3>6 DEF Promise!BroadcastNext
  <2>7. QED BY <2>5, <2>6
<1>7. CASE ~(Len(queue[f]) < QueueCap)
  <2>1. queue' = queue BY <1>3, <1>7
  <2>2. Waiting' = Waiting /\ Old' = Old BY <1>1, <2>1 DEF Waiting, Old
  <2>3. QED BY <1>1, <1>4, <2>2
<1>8. QED BY <1>6, <1>7

LEMMA SwitchBeginUnseen ==
  ASSUME Inv, Inv', SwitchBegin
  PROVE  UNCHANGED <<Waiting, Old, Listeners, sent>>
<1>1. /\ UNCHANGED <<fMap, cMap, queue, packet, sent>>
      /\ walk \notin Fds /\ walk' \in fMap'
  BY SetsAreNumbers DEF SwitchBegin, maps, sockets, history, Nodes
<1>2. \A fd \in Fds : In(fd)' = In(fd) BY <1>1 DEF In
<1>3. \A p : p \in Waiting' <=> p \in Waiting BY <1>1, <1>2, WaitingIs, NextWaitingIs
<1>4. \A p : p \in Old' <=> p \in Old BY <1>1, OldIs, NextOldIs
<1>5. QED BY <1>1, <1>3, <1>4, Unseen

LEMMA SwitchReadUnseen ==
  ASSUME Inv, Inv', SwitchRead
  PROVE  UNCHANGED <<Waiting, Old, Listeners, sent>>
<1>1. /\ UNCHANGED <<fMap, cMap, walk, sent>>
      /\ walk \in Fds /\ packet = NoPacket /\ packet' \in Packets
      /\ In(walk) = {packet'} \cup In(walk)'
      /\ \A fd \in Fds \ {walk} : In(fd)' = In(fd)
  BY SwitchReadTakes
<1>2. packet' # NoPacket BY <1>1, SetsAreNumbers
<1>3. \A fd \in Fds : fd = walk => In(fd)' = In(walk)' BY <1>1 DEF In
<1>4. \A p : p \in Waiting' <=> p \in Waiting
  <2> SUFFICES ASSUME NEW p PROVE p \in Waiting' <=> p \in Waiting OBVIOUS
  <2>1. (\E fd \in Fds : p \in In(fd))
          <=> p = packet' \/ \E fd \in Fds : p \in In(fd)'
    BY <1>1, <1>3
  <2>2. QED BY <1>1, <1>2, <2>1, WaitingIs, NextWaitingIs
<1>5. \A p : p \in Old' <=> p \in Old BY <1>1, <1>2, OldIs, NextOldIs
<1>6. QED BY <1>1, <1>4, <1>5, Unseen

LEMMA SwitchIdleDrops == ASSUME Inv, Inv', SwitchIdle PROVE Promise!Drop
<1>1. /\ UNCHANGED <<fMap, cMap, sent>> /\ walk' = NoFd
      /\ packet = NoPacket /\ packet' = NoPacket /\ queue' = Readable(fMap, NoFd)
  BY DEF SwitchIdle, maps, history
<1>2. \A fd \in Fds : In(fd)' = IF fd \in fMap THEN In(fd) ELSE {}
  BY <1>1, WalkEnds DEF In
<1>3. walk' \notin Fds BY <1>1, SetsAreNumbers DEF Nodes
<1>4. \A p : p \notin Old' BY <1>3, NextOldIs
<1>5. \A p : p \in Waiting' <=> p \in Waiting \ Old
  <2> SUFFICES ASSUME NEW p PROVE p \in Waiting' <=> p \in Waiting \ Old OBVIOUS
  <2>1. p \in Waiting' <=> \E fd \in Fds \cap fMap : p \in In(fd)
    BY <1>1, <1>2, NextWaitingIs
  <2>2. p \in Waiting <=> \E fd \in Fds : p \in In(fd) BY <1>1, WaitingIs
  <2>3. p \in Old <=> walk \in Fds \ fMap /\ p \in In(walk) BY <1>1, OldIs
  <2>4. \A fd \in Fds : p \in In(fd) => fd \in fMap \/ fd = walk BY DEF Inv, Kept
  <2>5. ASSUME walk \in Fds \ fMap, NEW fd \in Fds \cap fMap, p \in In(fd), p \in In(walk)
        PROVE  FALSE
    <3>1. p.speaker = fd /\ p.speaker = walk BY <2>5 DEF Inv, Ordered
    <3>2. QED BY <2>5, <3>1
  <2>6. QED BY <2>1, <2>2, <2>3, <2>4, <2>5
<1>6. Old \in SUBSET Old /\ Waiting' = Waiting \ Old /\ Old' = Old \cap Waiting'
  BY <1>4, <1>5
<1>7. Promise!Keep(Waiting) BY <1>6 DEF Promise!Keep
<1>8. Listeners' = Listeners BY <1>1 DEF Listeners
<1>9. QED BY <1>1, <1>7, <1>8 DEF Promise!Drop

LEMMA SwitchForwardPassesOn ==
  ASSUME Inv, Inv', SwitchForward
  PROVE  packet \in Waiting /\ Promise!PassOn(packet)
<1>1. /\ UNCHANGED <<fMap, cMap>>
      /\ walk' = NoFd /\ packet' = NoPacket /\ queue' = Readable(fMap, NoFd)
      /\ packet # NoPacket
      /\ sent' = [c \in Clients |-> IF c \in Reached THEN packet ELSE sent[c]]
  BY DEF SwitchForward, maps
<1>2. \A fd \in Fds : In(fd)' = IF fd \in fMap THEN In(fd) ELSE {}
  BY <1>1, WalkEnds DEF In
<1>3. walk \in Fds /\ walk' \notin Fds BY <1>1, SetsAreNumbers DEF Nodes, Inv, Kept
<1>4. packet \in Waiting BY <1>1, WaitingIs
<1>5. \A c \in Clients : sent[c] \prec packet BY <1>1 DEF Inv, Ordered
<1>6. ASSUME NEW fd \in Fds PROVE packet \notin In(fd)
  <2>1. SUFFICES ASSUME packet \in In(fd) PROVE FALSE OBVIOUS
  <2>2. packet \prec packet BY <1>1, <2>1 DEF Inv, Ordered
  <2>3. packet \in Packets BY <1>1, Numbers DEF Inv
  <2>4. QED BY <2>2, <2>3, NotBeforeItself
<1>7. \A p : p \notin Old' BY <1>3, NextOldIs
<1>8. \A p : p \in Waiting' <=> p \in (Waiting \ {packet}) \ (Old \ {packet})
  <2> SUFFICES ASSUME NEW p
               PROVE  p \in Waiting' <=> p \in (Waiting \ {packet}) \ (Old \ {packet})
    OBVIOUS
  <2>1. p \in Waiting' <=> \E fd \in Fds \cap fMap : p \in In(fd)
    BY <1>1, <1>2, NextWaitingIs
  <2>2. p \in Waiting /\ p # packet <=> \E fd \in Fds : p \in In(fd)
    BY <1>6, WaitingIs
  <2>3. p \in Old /\ p # packet <=> walk \in Fds \ fMap /\ p \in In(walk)
    BY <1>6, OldIs
  <2>4. \A fd \in Fds : p \in In(fd) => fd \in fMap \/ fd = walk BY DEF Inv, Kept
  <2>5. ASSUME walk \in Fds \ fMap, NEW fd \in Fds \cap fMap, p \in In(fd), p \in In(walk)
        PROVE  FALSE
    <3>1. p.speaker = fd /\ p.speaker = walk BY <2>5 DEF Inv, Ordered
    <3>2. QED BY <2>5, <3>1
  <2>6. QED BY <2>1, <2>2, <2>3, <2>4, <2>5
<1>9. /\ Old \ {packet} \in SUBSET Old
      /\ Waiting' = (Waiting \ {packet}) \ (Old \ {packet})
      /\ Old' = Old \cap Waiting'
  BY <1>7, <1>8
<1>10. Promise!Keep(Waiting \ {packet}) BY <1>9 DEF Promise!Keep
<1>11. Listeners' = Listeners /\ Listeners = Reached BY <1>1 DEF Listeners, Reached
<1>12. Promise!PassOn(packet)
  <2>1. \A c \in Listeners : Promise!Before(sent[c], packet) BY <1>5 DEF Listeners, \prec
  <2>2. sent' = [c \in Clients |-> IF c \in Listeners THEN packet ELSE sent[c]]
    BY <1>1, <1>11
  <2>3. QED BY <1>4, <1>10, <1>11, <2>1, <2>2 DEF Promise!PassOn
<1>13. QED BY <1>4, <1>12

LEMMA NextRefines ==
  ASSUME Inv, Inv', [Next]_vars
  PROVE  [Promise!BroadcastNext]_<<Waiting, Old, Listeners, sent>>
<1>1. CASE Main BY <1>1, MainRefines
<1>2. ASSUME NEW fd \in Fds, Receive(fd)
      PROVE  [Promise!BroadcastNext]_<<Waiting, Old, Listeners, sent>>
  BY <1>2, ReceiveRefines
<1>3. CASE SwitchBegin BY <1>3, SwitchBeginUnseen
<1>4. CASE SwitchRead BY <1>4, SwitchReadUnseen
<1>5. CASE SwitchIdle BY <1>5, SwitchIdleDrops DEF Promise!BroadcastNext
<1>6. CASE SwitchForward BY <1>6, SwitchForwardPassesOn DEF Promise!BroadcastNext
<1>7. CASE UNCHANGED vars
  BY <1>7 DEF vars, maps, sockets, switchVars, history, Waiting, Old, Listeners
<1>8. QED BY <1>1, <1>2, <1>3, <1>4, <1>5, <1>6, <1>7 DEF Next, Switch

LEMMA InitRefines == ASSUME Init PROVE Promise!BroadcastInit
<1>1. Inv BY InvInit
<1>2. Waiting = {} /\ Old = {}
  BY EmptyQueue, SetsAreNumbers DEF Init, Waiting, Old, Nodes
<1>3. Listeners = {} BY SetsAreNumbers DEF Init, Listeners, Nodes
<1>4. QED BY <1>2, <1>3 DEF Init, Promise!BroadcastInit

\* data_plane_switch_data_run_thread passes F's stream on as Broadcast promises: in
\* order of F's senders and of arrival at each, each packet at most once and to
\* everybody who listens, and complete as far as the kernel kept it and F's sender
\* lasted.
THEOREM MediaPathImplementsBroadcast == Spec => ImplementsBroadcast
<1>1. Init => Promise!BroadcastInit BY InitRefines
<1>2. Inv /\ Inv' /\ [Next]_vars
        => [Promise!BroadcastNext]_<<Waiting, Old, Listeners, sent>>
  BY NextRefines
<1>3. QED
  BY <1>1, <1>2, Invariance, PTL
  DEF Spec, ImplementsBroadcast, Promise!BroadcastSpec, Promise!broadcastVars
=============================================================================
