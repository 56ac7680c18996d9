------------------------------ MODULE MediaPath ------------------------------
(***************************************************************************)
(* The way of a packet from F to the listeners: the sockets that           *)
(* data_plane_add_sender opens (utils/udp_interface.cpp), the datagrams    *)
(* that the kernel keeps for them, and the switch thread that takes them   *)
(* out and passes them on (core/data_plane.cpp).                           *)
(*                                                                         *)
(* Each visit to the maps under the lock is one action; what the lock      *)
(* itself is worth is the subject of module DataPlane.  is_suspend is left *)
(* out: nothing on this way reads it.  A packet is the socket that it came *)
(* by, which says whose it is, and its number in the order of arrival.     *)
(***************************************************************************)
EXTENDS Integers, Sequences, FiniteSets, SequencesExt

CONSTANTS
    Clients,        \* the listeners
    MaxFds,         \* how many sockets the process may open for senders
    QueueCap,       \* datagrams that the kernel keeps for a socket
    MaxPackets,     \* a bound of the model: packets that arrive
    NoFd, NoPacket

ASSUME BoundsAssumption ==
    /\ MaxFds \in Nat /\ MaxPackets \in Nat
    /\ QueueCap \in Nat \ {0}
ASSUME ClientsAssumption == {"none", "F"} \cap Clients = {}
Fds == 1 .. MaxFds
Packets == [speaker : Fds, number : 1 .. MaxPackets]

ASSUME SentinelAssumption == NoFd \notin Int /\ NoPacket \notin Packets

\* Sockets and packets are numbered from 1 on.
Nothing == [speaker |-> 0, number |-> 0]

\* What udp_interface_init returns when there is no socket to be had.
Failed == -1

VARIABLES
    fMap,       \* the sockets of the nodes of data_plane_f_map
    cMap,       \* the socket of each client in data_plane_c_map, or NoFd
    todo,       \* main: the client whose media change is half done, "F", or "none"
    opened,     \* sockets opened so far
    queue,      \* the datagrams that wait at each socket
    arrived,    \* packets so far
    walk,       \* switch: the socket of the node it stands on, or NoFd
    packet,     \* switch: out_data
    sent,       \* history: the last packet that each client was sent, or Nothing
    since,      \* history: arrived, when the sender of a client was made
    stale       \* history: how many packets older than that were sent to it

maps == <<fMap, cMap>>
sockets == <<opened, queue, arrived>>
age == <<since, stale>>
history == <<sent, age>>
switchVars == <<walk, packet>>
vars == <<maps, todo, sockets, switchVars, history>>

Init ==
    /\ fMap = {} /\ cMap = [c \in Clients |-> NoFd] /\ todo = "none"
    /\ opened = 0 /\ queue = [fd \in Fds |-> <<>>] /\ arrived = 0
    /\ walk = NoFd /\ packet = NoPacket
    /\ sent = [c \in Clients |-> Nothing]
    /\ since = [c \in Clients |-> 0] /\ stale = [c \in Clients |-> 0]

Present == {c \in Clients : cMap[c] # NoFd}

-----------------------------------------------------------------------------
(***************************************************************************)
(* main: logins, media changes and departures, as the control plane makes  *)
(* them.  A sender that is erased leaves its socket open.                  *)
(***************************************************************************)

\* Mutant: a call that failed is counted as well.
Socket_Counts(fd) ==
    /\ opened' = opened + 1
    /\ fd = IF opened < MaxFds THEN opened + 1 ELSE Failed

\* udp_interface_init(0): a socket that nobody has, while there are any.
Socket(fd) ==
    IF opened < MaxFds THEN fd = opened + 1 /\ opened' = fd
                       ELSE fd = Failed /\ UNCHANGED opened

\* data_plane_add_sender.  It does not look at what udp_interface_init returned.
AddF ==
    /\ \E fd \in Fds \cup {Failed} : Socket(fd) /\ fMap' = fMap \cup {fd}
    /\ UNCHANGED <<cMap, queue, age>>

AddC(c) ==
    /\ \E fd \in Fds \cup {Failed} : Socket(fd) /\ cMap' = [cMap EXCEPT ![c] = fd]
    /\ since' = [since EXCEPT ![c] = arrived]
    /\ stale' = [stale EXCEPT ![c] = 0]
    /\ UNCHANGED <<fMap, queue>>

\* Nobody reads a socket but on the way from F's node: what waits elsewhere is
\* forgotten, and so is the age of a listener that is gone.
Readable(f, w) == [fd \in Fds |-> IF fd \in f \cup {w} THEN queue[fd] ELSE <<>>]

\* data_plane_del_sender.
DelF == fMap' = {} /\ queue' = Readable({}, walk) /\ UNCHANGED <<cMap, age>>

DelC(c) ==
    /\ cMap' = [cMap EXCEPT ![c] = NoFd]
    /\ since' = [since EXCEPT ![c] = 0] /\ stale' = [stale EXCEPT ![c] = 0]
    /\ UNCHANGED <<fMap, queue>>

LoginF == todo = "none" /\ fMap = {} /\ AddF /\ UNCHANGED todo
LoginC(c) == todo = "none" /\ cMap[c] = NoFd /\ AddC(c) /\ UNCHANGED todo

\* The end of a session, and the first half of a media change.
LeaveF ==
    /\ todo = "none" /\ fMap # {}
    /\ todo' \in {"none", "F"}
    /\ DelF
    /\ UNCHANGED opened

LeaveC(c) ==
    /\ todo = "none" /\ cMap[c] # NoFd
    /\ todo' \in {"none", c}
    /\ DelC(c)
    /\ UNCHANGED opened

\* The second half.
MoveF == todo = "F" /\ AddF /\ todo' = "none"
MoveC(c) == todo = c /\ AddC(c) /\ todo' = "none"

Main ==
    /\ UNCHANGED <<arrived, switchVars, sent>>
    /\ LoginF \/ LeaveF \/ MoveF \/ \E c \in Clients : LoginC(c) \/ LeaveC(c) \/ MoveC(c)

-----------------------------------------------------------------------------
(***************************************************************************)
(* The network and the kernel.  The socket of a sender that was erased is  *)
(* still open, and a packet to it is read as long as the switch thread     *)
(* stands on the erased node.  Any other packet to the port of a sender    *)
(* that is gone, or that of a listener, is read by nobody: it is as good   *)
(* as lost.                                                                *)
(***************************************************************************)

Receive(fd) ==
    /\ arrived < MaxPackets
    /\ fd \in fMap \cup {walk}
    /\ arrived' = arrived + 1
    /\ queue' = IF Len(queue[fd]) < QueueCap
                THEN [queue EXCEPT ![fd] = Append(@, [speaker |-> fd, number |-> arrived'])]
                ELSE queue
    /\ UNCHANGED <<maps, todo, opened, switchVars, history>>

-----------------------------------------------------------------------------
(***************************************************************************)
(* switch: data_plane_switch_data_run_thread.                              *)
(***************************************************************************)

\* A round begins, under the lock, if somebody speaks and somebody listens.
SwitchBegin ==
    /\ walk = NoFd /\ packet = NoPacket
    /\ fMap # {} /\ Present # {}
    /\ walk' \in fMap
    /\ UNCHANGED <<maps, todo, sockets, packet, history>>

\* Mutant: the read wants more than one datagram.
SwitchRead_Late ==
    /\ walk # NoFd /\ packet = NoPacket
    /\ walk # Failed /\ Len(queue[walk]) > 1
    /\ packet' = Head(queue[walk])
    /\ queue' = [queue EXCEPT ![walk] = Tail(@)]
    /\ UNCHANGED <<maps, todo, opened, arrived, walk, history>>

\* udp_interface_data_read, without the lock.
SwitchRead ==
    /\ walk # NoFd /\ packet = NoPacket
    /\ walk # Failed /\ queue[walk] # <<>>
    /\ packet' = Head(queue[walk])
    /\ queue' = [queue EXCEPT ![walk] = Tail(@)]
    /\ UNCHANGED <<maps, todo, opened, arrived, walk, history>>

\* Nothing came within the time of select, or the descriptor is -1.  The thread
\* also ends its walk here when the node was erased and reads as something else.
SwitchIdle ==
    /\ walk # NoFd /\ packet = NoPacket
    /\ walk \in fMap \cap Fds => queue[walk] = <<>>
    /\ walk' = NoFd /\ queue' = Readable(fMap, NoFd)
    /\ UNCHANGED <<maps, todo, opened, arrived, packet, history>>

\* Mutant: a failed send ends the round of the listeners.
Reached_StopsAtFailure ==
    IF \E c \in Clients : cMap[c] = Failed THEN {} ELSE {c \in Clients : cMap[c] \in Fds}

\* udp_interface_send to every client in the map; with the descriptor -1 it fails.
Reached == {c \in Clients : cMap[c] \in Fds}

\* Mutant: the packet is sent and not thrown away.
SwitchForward_Again ==
    /\ packet # NoPacket
    /\ sent' = [c \in Clients |-> IF c \in Reached THEN packet ELSE sent[c]]
    /\ stale' = [c \in Clients |->
                    IF c \in Reached /\ packet.number <= since[c]
                    THEN stale[c] + 1 ELSE stale[c]]
    /\ walk' = NoFd /\ UNCHANGED packet
    /\ UNCHANGED <<maps, todo, sockets, since>>

\* The packet goes to all the clients in one visit under the lock, and the walk
\* is over: there is one F.
SwitchForward ==
    /\ packet # NoPacket
    /\ sent' = [c \in Clients |-> IF c \in Reached THEN packet ELSE sent[c]]
    /\ stale' = [c \in Clients |->
                    IF c \in Reached /\ packet.number <= since[c]
                    THEN stale[c] + 1 ELSE stale[c]]
    /\ walk' = NoFd /\ packet' = NoPacket
    /\ UNCHANGED maps /\ queue' = Readable(fMap, NoFd)
    /\ UNCHANGED <<todo, opened, arrived, since>>

Switch == SwitchBegin \/ SwitchRead \/ SwitchIdle \/ SwitchForward

Next == Main \/ (\E fd \in Fds : Receive(fd)) \/ Switch

\* The switch thread always runs on: it waits 100 microseconds for a datagram at
\* most, and for the lock no longer than a short section of another thread.
Spec == Init /\ [][Next]_vars /\ WF_vars(Switch)

-----------------------------------------------------------------------------
(***************************************************************************)
(* Properties.                                                             *)
(***************************************************************************)
Nodes == Fds \cup {Failed}

TypeOK ==
    /\ fMap \subseteq Nodes /\ cMap \in [Clients -> Nodes \cup {NoFd}]
    /\ todo \in Clients \cup {"none", "F"}
    /\ opened \in 0 .. MaxFds /\ arrived \in 0 .. MaxPackets
    /\ \A fd \in Fds : queue[fd] \in Seq(Packets) /\ Len(queue[fd]) <= QueueCap
    /\ walk \in Nodes \cup {NoFd} /\ packet \in Packets \cup {NoPacket}
    /\ sent \in [Clients -> {Nothing} \cup Packets]
    /\ since \in [Clients -> 0 .. MaxPackets] /\ stale \in [Clients -> Nat]

\* The switch thread reads F's socket only while somebody listens, so the first
\* listener hears what F said to nobody.  It is no more than the kernel keeps for
\* one socket and the packet in hand, even if F moves its media meanwhile.
OldSoundIsBounded == \A c \in Clients : stale[c] <= QueueCap + 1

\* What waits for the listeners: the packet in hand, and the sockets of F and of
\* the node that the switch thread stands on.
Waiting ==
    ({packet} \ {NoPacket})
        \cup UNION {Range(queue[fd]) : fd \in (fMap \cup {walk}) \cap Fds}

\* The part of it that comes from a sender that was erased.
Old ==
    IF walk \in Fds \ fMap THEN ({packet} \ {NoPacket}) \cup Range(queue[walk]) ELSE {}

Listeners == {c \in Clients : cMap[c] \in Fds}

Promise == INSTANCE Broadcast WITH
    waiting <- Waiting, old <- Old, listeners <- Listeners, heard <- sent

\* The media path keeps the promise: one stream, in order of F's senders and of
\* arrival at each, to everybody at once, and complete as far as the kernel kept it
\* and F's sender lasted.
ImplementsBroadcast == Promise!BroadcastSpec

\* What F has said does not wait for ever: it is passed on, or lost with F's
\* sender, unless nobody listens.
Waits(n) == \E p \in Waiting : p.number = n

SpokenIsPassedOn ==
    \A n \in 1 .. MaxPackets : Waits(n) ~> ~Waits(n) \/ Present = {}
=============================================================================
