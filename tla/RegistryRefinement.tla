-------------------------- MODULE RegistryRefinement --------------------------
(***************************************************************************)
(* The mapping under which ControlPlane implements SessionRegistry: what   *)
(* the slots and the maps of the data plane show together.                 *)
(***************************************************************************)
EXTENDS ControlPlane

\* The sentinel that stands for "no session" is no session.
ASSUME AbsentAssumption == NoAddr \notin [kind : Kinds, dst : Addr, paused : BOOLEAN]

Holder(u) == {i \in Slots : Session(i) /\ patClient[i].aUUID = u}

\* The sender that the data plane has for a slot.  One that is missing shows as
\* one that goes nowhere, which the registry does not know.
Served(i) ==
    IF patClient[i].tMedia \in Held(senders, Kind(i)) THEN SenderOf(i)
                                                      ELSE NewSender(NoAddr)

\* The session of a Call-ID is the sender that the data plane has for it.
Registered ==
    [u \in UUIDs |->
        IF Holder(u) = {} THEN NoAddr
        ELSE LET i == CHOOSE i \in Holder(u) : TRUE
             IN  [kind |-> Kind(i), dst |-> Served(i).dst,
                  paused |-> Served(i).is_suspend]]

Registry == INSTANCE SessionRegistry WITH
    CallIDs <- UUIDs, Dsts <- Addr, MaxListeners <- MaxClients - 1,
    Absent <- NoAddr, reg <- Registered

\* The server implements the registry: every step of a handler or of the tick,
\* seen through the senders it leaves behind, is a step of SessionRegistry.
ImplementsRegistry == Registry!RegSpec
=============================================================================
