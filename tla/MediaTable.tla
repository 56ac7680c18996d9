----------------------------- MODULE MediaTable -----------------------------
(***************************************************************************)
(* The two maps of media senders that the data plane keeps                 *)
(* (data_plane_f_map and data_plane_c_map, core/data_plane.cpp), and the   *)
(* three calls the control plane makes on them.  A map from 64-bit keys to *)
(* senders is a total function in which NoSender marks a key that is not   *)
(* in the map, so that erasing or suspending an unknown key is a no-op, as *)
(* it is with std::map::erase and behind the find() of the suspend call.   *)
(*                                                                         *)
(* A sender is what the two planes must agree on: where its packets go and *)
(* whether it is suspended.  The socket, the local port and the RTP        *)
(* context are bound to the key when the sender is made and never change,  *)
(* so the key stands for them.                                             *)
(***************************************************************************)
EXTENDS Integers

CONSTANTS
    Keys,       \* keys that data_plane_add_sender hands out
    NoSender,   \* marks a key that is not in a map
    IPs,        \* IPv4 addresses as the 32-bit numbers that inet_addr returns
    Ports       \* UDP ports

ASSUME AddressAssumption == IPs \subseteq Nat /\ Ports \subseteq Nat

Addr == [ip : IPs, port : Ports]

\* sdp_process_type_t: SDP_F is the broadcaster, SDP_C a listener.
Kinds == {"F", "C"}

Sender == [dst : Addr, is_suspend : BOOLEAN]

ASSUME NoSenderAssumption == NoSender \notin Sender

Tables == [Kinds -> [Keys -> Sender \cup {NoSender}]]

EmptyTables == [t \in Kinds |-> [k \in Keys |-> NoSender]]

\* The keys of the map of kind t.
Held(tab, t) == {k \in Keys : tab[t][k] # NoSender}

\* A key is the time of the call in microseconds: none that is in a map.
FreshKeys(tab) == Keys \ (Held(tab, "F") \cup Held(tab, "C"))

NewSender(a) == [dst |-> a, is_suspend |-> FALSE]

AddSender(tab, t, k, a) ==
    [u \in Kinds |-> [x \in Keys |->
        IF u = t /\ x = k THEN NewSender(a) ELSE tab[u][x]]]

\* Mutant: the whole map is cleared.
DelSender_Clears(tab, t, k) == [tab EXCEPT ![t] = [x \in Keys |-> NoSender]]

DelSender(tab, t, k) ==
    [u \in Kinds |-> [x \in Keys |->
        IF u = t /\ x = k THEN NoSender ELSE tab[u][x]]]

Suspend(tab, t, k, b) ==
    [u \in Kinds |-> [x \in Keys |->
        IF u = t /\ x = k /\ tab[u][x] # NoSender
        THEN [dst |-> tab[u][x].dst, is_suspend |-> b]
        ELSE tab[u][x]]]
=============================================================================
