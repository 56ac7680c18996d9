------------------------------ MODULE Broadcast ------------------------------
(***************************************************************************)
(* What the media path promises: one stream, passed on packet by packet.   *)
(* A packet goes to everybody who listens at that moment, at most once,    *)
(* and never after a later one of its speaker or one of a later speaker.   *)
(* None is lost on the way through the server as long as its speaker has   *)
(* not gone.                                                               *)
(*                                                                         *)
(* There is one speaker at a time; each is numbered, and so are packets,   *)
(* in the order in which they reach the server.                            *)
(***************************************************************************)
EXTENDS Naturals

CONSTANTS
    Clients,
    Packets,    \* records of the speaker and the number of a packet
    Nothing     \* the record that comes before all of them

VARIABLES
    waiting,    \* the packets that arrived and may still be passed on
    old,        \* those of them whose speaker is gone
    listeners,  \* the clients that a packet is passed on to
    heard       \* the last packet that each client was sent, or Nothing

broadcastVars == <<waiting, old, listeners, heard>>

BroadcastInit ==
    /\ waiting = {} /\ old = {}
    /\ listeners = {}
    /\ heard = [c \in Clients |-> Nothing]

\* The order of the stream.  It is not the order of arrival: a packet may still
\* arrive for a speaker that is gone when the next one has spoken already.
Before(p, q) ==
    \/ p.speaker < q.speaker
    \/ p.speaker = q.speaker /\ p.number < q.number

\* A packet comes after all that wait, or it is a straggler: after the others of
\* those that are gone, and before all that the present speaker has said.
Arrive(p) ==
    /\ \A c \in Clients : Before(heard[c], p)
    /\ \/ (\A q \in waiting : Before(q, p)) /\ UNCHANGED old
       \/ /\ \A q \in old : Before(q, p)
          /\ \A q \in waiting \ old : p.speaker < q.speaker
          /\ old' = old \cup {p}
    /\ waiting' = waiting \cup {p}
    /\ UNCHANGED <<listeners, heard>>

\* Packets whose speaker is gone may be dropped at any time.
Keep(rest) == /\ \E lost \in SUBSET old : waiting' = rest \ lost
              /\ old' = old \cap waiting'

\* Everybody hears it at once.
PassOn(p) ==
    /\ p \in waiting
    /\ \A c \in listeners : Before(heard[c], p)
    /\ heard' = [c \in Clients |-> IF c \in listeners THEN p ELSE heard[c]]
    /\ Keep(waiting \ {p})
    /\ UNCHANGED listeners

Drop == Keep(waiting) /\ UNCHANGED <<listeners, heard>>

\* The speaker goes.
Silence ==
    /\ waiting' \in SUBSET waiting /\ old' = waiting'
    /\ UNCHANGED <<listeners, heard>>

Listen(c) ==
    /\ listeners' \in {listeners \cup {c}, listeners \ {c}}
    /\ UNCHANGED <<waiting, old, heard>>

BroadcastNext ==
    \/ \E p \in Packets : Arrive(p)
    \/ \E p \in waiting : PassOn(p)
    \/ Drop \/ Silence
    \/ \E c \in Clients : Listen(c)

BroadcastSpec == BroadcastInit /\ [][BroadcastNext]_broadcastVars
=============================================================================
