---------------------------- MODULE ControlPlane ----------------------------
(***************************************************************************)
(* The signalling server of the broadcast daemon (core/control_plane.cpp)  *)
(* driven by the main loop of main.cpp.                                    *)
(*                                                                         *)
(* One thread runs the loop: it looks at the clock, perhaps runs a tick    *)
(* over all client slots, waits for a datagram, and handles at most one.   *)
(* Slot 0 belongs to the broadcaster F, the others to listeners C.  Every  *)
(* handler runs to its end before the loop goes on, so a handler is one    *)
(* action; what the threads of the data plane see between the calls that a *)
(* handler makes is the subject of module DataPlane.                       *)
(*                                                                         *)
(* Time is kept as differences from now, in seconds: sinceKA[i] is         *)
(* time() - n32TimeGotKA of a slot in use, sinceCheck is time() -          *)
(* nCheckTime of the main loop.  Both stop at a bound past which no        *)
(* comparison of the code can tell values apart.                           *)
(***************************************************************************)
EXTENDS MediaTable, FiniteSets, FiniteSetsExt

CONSTANTS
    MaxClients,     \* MAX_CONNECT_CLIENT
    UUIDs,          \* Call-IDs that requests carry
    Names,          \* names that From headers carry
    FName,          \* m_confs.aFName: the name that makes a client the F
    SignalAddrs,    \* addresses requests come from
    Indexes,        \* arguments of a listener-list event, as atoi reads them
    Residue,        \* eState that new[] may leave in slots 1..MaxClients-1
    KATimer,        \* m_confs.u32KATimer, in seconds after load_config
    OfflineTimer,   \* m_confs.u32OfflineTimer, in seconds
    ClockSteps,     \* how far the clock may go forward at once
    NoName, NoUUID, NoKey, NoAddr, NoReply

\* A listener has an index, which is a BYTE.
ASSUME SlotsAssumption == MaxClients \in Nat /\ MaxClients >= 2 /\ MaxClients <= 256
ASSUME TimerAssumption ==
    /\ KATimer \in Nat
    /\ OfflineTimer \in Nat
    /\ ClockSteps \subseteq Nat \ {0}
ASSUME NameAssumption == FName \in Names /\ NoName \notin Names
ASSUME SentinelAssumption ==
    /\ NoUUID \notin UUIDs
    /\ NoKey \notin Keys
    /\ NoAddr \notin Addr
    /\ NoAddr \notin SignalAddrs
ASSUME IndexAssumption == Indexes \subseteq Int

Slots == 0 .. MaxClients - 1
CSlots == 1 .. MaxClients - 1

Kind(i) == IF i = 0 THEN "F" ELSE "C"

\* eCLIENT_STATE.  No code path assigns LOST; it stands for every value of an
\* uninitialised slot that is none of the first three.
States == {"NONE", "CONNECTED", "INACTIVE", "LOST"}

ASSUME ResidueAssumption == Residue \subseteq States /\ Residue # {}

\* CLIENT_t.  tMedia is the key of the sender made for the client.
Client ==
    [eState            : States,
     aName             : Names \cup {NoName},
     aUUID             : UUIDs \cup {NoUUID},
     tAddrRemoteSignal : SignalAddrs \cup {NoAddr},
     tAddrRemoteMedia  : Addr \cup {NoAddr},
     tMedia            : Keys \cup {NoKey}]

\* What memset and uninitialised memory hold.  Memory left by new[] may read as
\* any eState, but equals no name, Call-ID or key of this run of the program.
Blank(s) ==
    [eState            |-> s,
     aName             |-> NoName,
     aUUID             |-> NoUUID,
     tAddrRemoteSignal |-> NoAddr,
     tAddrRemoteMedia  |-> NoAddr,
     tMedia            |-> NoKey]

-----------------------------------------------------------------------------
(***************************************************************************)
(* Requests and replies.                                                   *)
(***************************************************************************)

\* The Event header of a NOTIFY: a name and, for listener-list, an index.
Events ==
    [name : {"none", "logon-state", "listener-list", "other"}]
        \cup [name : {"listener-list"}, index : Indexes]

\* What P_ComDecode leaves for the handlers.  NoName: the request has no From
\* header.  NoAddr: no Media header, or a host that inet_addr rejects.
ConnMsgs ==
    [from : Names \cup {NoName}, callid : UUIDs, src : SignalAddrs,
     media : Addr \cup {NoAddr}]

NotifyMsgs ==
    [from : Names \cup {NoName}, callid : UUIDs, src : SignalAddrs,
     event : Events]

\* DISCONN, RESET, and what getMsgType knows no handler for.
BareMsgs == [from : Names \cup {NoName}, callid : UUIDs, src : SignalAddrs]

Bodies ==
    [kind : {"none"}]
        \cup [kind : {"state"}, state : States]
        \cup [kind : {"total"}, n : 0 .. MaxClients - 1]
        \cup [kind : {"f-state"}, name : Names \cup {NoName}]
        \cup [kind : {"entry"}, slot : CSlots, name : Names \cup {NoName}]

NoBody == [kind |-> "none"]

Replies ==
    [to     : SignalAddrs \cup {NoAddr},
     code   : {200, 400, 404, 486},
     callid : UUIDs \cup {NoUUID},
     port   : Keys \cup {NoKey},
     body   : Bodies]

-----------------------------------------------------------------------------
VARIABLES
    patClient,   \* the slots
    sinceKA,     \* age in seconds of the last sign of life of each slot
    senders,     \* the maps of the data plane
    sent,        \* the datagram the last step sent, or NoReply
    phase,       \* where the main loop is: before the tick or before recvfrom
    sinceCheck,  \* seconds since the last tick
    up           \* FALSE once the process has crashed

vars == <<patClient, sinceKA, senders, sent, phase, sinceCheck, up>>

Live(i) == patClient[i].eState # "NONE"

\* Slots that hold what init_client wrote, not what new[] left there.
Session(i) == Live(i) /\ patClient[i].aUUID # NoUUID

-----------------------------------------------------------------------------
(***************************************************************************)
(* Looking a client up.                                                    *)
(***************************************************************************)

\* Mutant: the loop starts at slot 1.
WithUUID_FromOne(u) == {i \in CSlots : Live(i) /\ patClient[i].aUUID = u}

\* locateClientByUUID, locateClientByName: the first live slot that matches.
WithUUID(u) == {i \in Slots : Live(i) /\ patClient[i].aUUID = u}
WithName(n) == {i \in Slots : Live(i) /\ patClient[i].aName = n}

First(i, S) == i \in S /\ \A j \in S : i <= j

\* Mutant: the loop starts at slot 0.
FreeCSlots_FromZero == {i \in Slots : ~Live(i)}

\* getClient: the slots a new C may get.
FreeCSlots == {i \in CSlots : ~Live(i)}

\* An empty result of locateClientByUUID makes it compare m_confs.aFName with
\* the name of the request: without a From header that is a NULL pointer.
Missed(m) == WithUUID(m.callid) = {}
NullName(m) == Missed(m) /\ m.from = NoName
Unknown(m) == Missed(m) /\ m.from # NoName

-----------------------------------------------------------------------------
(***************************************************************************)
(* Sending, and the parts of a slot that the handlers write.               *)
(***************************************************************************)
Reply(to, code, callid, port, body) ==
    [to |-> to, code |-> code, callid |-> callid, port |-> port, body |-> body]

\* sendMgrResponse: no Media header, no body.
MgrReply(to, code, callid) == Reply(to, code, callid, NoKey, NoBody)

\* Mutant: the Call-ID is copied from the wrong header.
InitClient_WrongHeader(m) ==
    [eState            |-> "NONE",
     aName             |-> m.from,
     aUUID             |-> m.from,
     tAddrRemoteSignal |-> m.src,
     tAddrRemoteMedia  |-> NoAddr,
     tMedia            |-> NoKey]

\* init_client and the assignment of the signal address after it.
InitClient(m) ==
    [eState            |-> "NONE",
     aName             |-> m.from,
     aUUID             |-> m.callid,
     tAddrRemoteSignal |-> m.src,
     tAddrRemoteMedia  |-> NoAddr,
     tMedia            |-> NoKey]

\* freeClient
FreeClient(i) == [patClient EXCEPT ![i].eState = "NONE"]

-----------------------------------------------------------------------------
(***************************************************************************)
(* The clock and the tick.                                                 *)
(***************************************************************************)
InactiveAfter == 3 * KATimer

AgeCap ==
    IF OfflineTimer >= InactiveAfter THEN OfflineTimer + 1 ELSE InactiveAfter + 1

\* A tick runs when more than this many seconds have passed.
TickAfter == 1

Capped(x, cap) == IF x > cap THEN cap ELSE x

\* The clock goes on, whatever the loop is doing.
Elapse(d) ==
    /\ sinceKA' = [i \in Slots |->
           IF Live(i) THEN Capped(sinceKA[i] + d, AgeCap) ELSE sinceKA[i]]
    /\ sinceCheck' = Capped(sinceCheck + d, TickAfter + 1)
    /\ sent' = NoReply
    /\ UNCHANGED <<patClient, senders, phase, up>>

\* Mutants: "already in-active, continue" is tested first; a slot without a
\* sender is skipped.
GoesOffline_ActiveOnly(i) ==
    Live(i) /\ patClient[i].eState # "INACTIVE" /\ sinceKA[i] > OfflineTimer
GoesOffline_WithSender(i) ==
    Live(i) /\ patClient[i].tMedia # NoKey /\ sinceKA[i] > OfflineTimer

\* handle_req_time_tick decides on each slot by its age alone.
GoesOffline(i) == Live(i) /\ sinceKA[i] > OfflineTimer
GoesInactive(i) ==
    /\ Live(i)
    /\ ~GoesOffline(i)
    /\ sinceKA[i] > InactiveAfter
    /\ patClient[i].eState # "INACTIVE"

\* Slots are independent of one another, so the loop over them is one map.
TickClient(i) ==
    IF GoesOffline(i) THEN [patClient[i] EXCEPT !.eState = "NONE"]
    ELSE IF GoesInactive(i) THEN [patClient[i] EXCEPT !.eState = "INACTIVE"]
    ELSE patClient[i]

\* Mutant: the release by the tick leaves the sender in the map.
TickSender_NoErase(t, k) ==
    IF senders[t][k] # NoSender
       /\ \E i \in Slots : GoesInactive(i) /\ Kind(i) = t /\ patClient[i].tMedia = k
    THEN [dst |-> senders[t][k].dst, is_suspend |-> TRUE]
    ELSE senders[t][k]

TickSender(t, k) ==
    LET mine(i) == Kind(i) = t /\ patClient[i].tMedia = k
    IN  IF \E i \in Slots : GoesOffline(i) /\ mine(i) THEN NoSender
        ELSE IF senders[t][k] # NoSender /\ \E i \in Slots : GoesInactive(i) /\ mine(i)
        THEN [dst |-> senders[t][k].dst, is_suspend |-> TRUE]
        ELSE senders[t][k]

Tick ==
    /\ patClient' = [i \in Slots |-> TickClient(i)]
    /\ senders' = [t \in Kinds |-> [k \in Keys |-> TickSender(t, k)]]

\* The top of the main loop.
TimerCheck ==
    /\ up
    /\ phase = "check" /\ phase' = "recv"
    /\ sent' = NoReply
    /\ \/ /\ sinceCheck > TickAfter
          /\ sinceCheck' = 0
          /\ Tick
       \/ /\ sinceCheck <= TickAfter
          /\ UNCHANGED <<patClient, senders, sinceCheck>>
    /\ UNCHANGED <<sinceKA, up>>

-----------------------------------------------------------------------------
(***************************************************************************)
(* The request handlers.  Each is what one pass of signal_callback does    *)
(* with one datagram, down to the reply.                                   *)
(***************************************************************************)
Receive == up /\ phase = "recv" /\ phase' = "check" /\ UNCHANGED sinceCheck

Unchanged == UNCHANGED <<patClient, sinceKA, senders, up>>

Answer(r) == sent' = r

\* select fails or times out, or recvfrom has nothing.
NoMessage ==
    /\ Receive
    /\ Unchanged
    /\ sent' = NoReply

\* P_ComDecode fails: the reply carries whatever Call-ID was decoded so far.
Malformed(src, u) ==
    /\ Receive
    /\ Unchanged
    /\ Answer(MgrReply(src, 400, u))

\* locateClientByUUID compares the F name with a NULL pointer, whatever the
\* type of the request.
AnonymousMiss(m) ==
    /\ Receive
    /\ NullName(m)
    /\ up' = FALSE
    /\ sent' = NoReply
    /\ UNCHANGED <<patClient, sinceKA, senders>>

\* handle_request_CONN, after init_client made slot i the client's.
OpenSession(i, m) ==
    /\ sinceKA' = [sinceKA EXCEPT ![i] = 0]
    /\ UNCHANGED up
    /\ \/ /\ m.media = NoAddr
          /\ patClient' = [patClient EXCEPT ![i] = InitClient(m)]
          /\ UNCHANGED senders
          /\ Answer(MgrReply(m.src, 400, m.callid))
       \/ /\ m.media # NoAddr
          /\ \E k \in FreshKeys(senders) :
                /\ patClient' = [patClient EXCEPT ![i] =
                      [InitClient(m) EXCEPT !.eState = "CONNECTED",
                                            !.tAddrRemoteMedia = m.media,
                                            !.tMedia = k]]
                /\ senders' = AddSender(senders, Kind(i), k, m.media)
                /\ Answer(Reply(m.src, 200, m.callid, k, NoBody))

\* Mutant: a second F takes the slot of the first.
ConnF_NotBusy(m) ==
    /\ Receive
    /\ Unknown(m) /\ m.from = FName
    /\ OpenSession(0, m)

\* A CONN that matches no Call-ID: F goes to slot 0, a C to the first free slot.
ConnF(m) ==
    /\ Receive
    /\ Unknown(m) /\ m.from = FName
    /\ \/ /\ Live(0)
          /\ Unchanged
          /\ Answer(MgrReply(m.src, 486, m.callid))
       \/ /\ ~Live(0)
          /\ OpenSession(0, m)

ConnC(m) ==
    /\ Receive
    /\ Unknown(m) /\ m.from # FName
    /\ \/ /\ FreeCSlots = {}
          /\ Unchanged
          /\ Answer(MgrReply(m.src, 486, m.callid))
       \/ \E i \in FreeCSlots : First(i, FreeCSlots) /\ OpenSession(i, m)

\* The test that is meant to recognise a re-sent CONN compares the new port
\* with the old IP address.
SameMedia(new, old) == old # NoAddr /\ new.ip = old.ip /\ new.port = old.ip

\* Mutant: the slot keeps the key of the sender that was erased.
MoveMedia_KeepsKey(i, a) ==
    \E k \in FreshKeys(senders) :
        /\ patClient' = [patClient EXCEPT ![i].tAddrRemoteMedia = a]
        /\ senders' = AddSender(DelSender(senders, Kind(i), patClient[i].tMedia),
                                Kind(i), k, a)

\* The client's sender is erased and a new one made under a fresh key.
MoveMedia(i, a) ==
    LET dropped == DelSender(senders, Kind(i), patClient[i].tMedia)
    IN  \E k \in FreshKeys(senders) :
          /\ patClient' = [patClient EXCEPT ![i].tAddrRemoteMedia = a, ![i].tMedia = k]
          /\ senders' = AddSender(dropped, Kind(i), k, a)

\* handle_request_reCONN: a CONN with the Call-ID of slot i.
ReConn(i, m) ==
    /\ Receive
    /\ First(i, WithUUID(m.callid))
    /\ UNCHANGED <<sinceKA, up>>
    /\ LET c == patClient[i]
       IN  \/ /\ m.media = NoAddr
              /\ UNCHANGED <<patClient, senders>>
              /\ Answer(MgrReply(c.tAddrRemoteSignal, 400, m.callid))
           \/ /\ m.media # NoAddr /\ SameMedia(m.media, c.tAddrRemoteMedia)
              /\ UNCHANGED <<patClient, senders>>
              /\ Answer(Reply(c.tAddrRemoteSignal, 200, m.callid, c.tMedia, NoBody))
           \/ /\ m.media # NoAddr /\ ~SameMedia(m.media, c.tAddrRemoteMedia)
              /\ MoveMedia(i, m.media)
              /\ Answer(Reply(c.tAddrRemoteSignal, 200, m.callid,
                              patClient'[i].tMedia, NoBody))

\* Mutant: the reply goes to where the request came from.
Release_ToSource(i, m) ==
    /\ senders' = DelSender(senders, Kind(i), patClient[i].tMedia)
    /\ patClient' = FreeClient(i)
    /\ Answer(MgrReply(m.src, 200, m.callid))
    /\ UNCHANGED <<sinceKA, up>>

\* handle_request_DISCONN and handle_request_RESET do the same to slot i.
Release(i, m) ==
    /\ senders' = DelSender(senders, Kind(i), patClient[i].tMedia)
    /\ patClient' = FreeClient(i)
    /\ Answer(MgrReply(patClient[i].tAddrRemoteSignal, 200, m.callid))
    /\ UNCHANGED <<sinceKA, up>>

ReleaseByUUID(i, m) ==
    /\ Receive
    /\ First(i, WithUUID(m.callid))
    /\ Release(i, m)

\* RESET of a restarted client, which no longer knows its Call-ID.
ResetByName(i, m) ==
    /\ Receive
    /\ Unknown(m)
    /\ First(i, WithName(m.from))
    /\ Release(i, m)

\* RESET of a client that holds no slot: ignored.
ResetMiss(m) ==
    /\ Receive
    /\ Unknown(m)
    /\ WithName(m.from) = {}
    /\ Unchanged
    /\ sent' = NoReply

\* DISCONN or NOTIFY for no slot.
NotFound(m) ==
    /\ Receive
    /\ Unknown(m)
    /\ Unchanged
    /\ Answer(MgrReply(m.src, 404, m.callid))

\* A request of another type, or a response: dropped, found or not.
Unsupported(m) ==
    /\ Receive
    /\ ~NullName(m)
    /\ Unchanged
    /\ sent' = NoReply

-----------------------------------------------------------------------------
(***************************************************************************)
(* NOTIFY: keep-alive, and the questions a client may ask with it.         *)
(***************************************************************************)
ActiveClient(i) ==
    [patClient[i] EXCEPT !.eState = IF @ = "INACTIVE" THEN "CONNECTED" ELSE @]

\* Mutant: the state goes back to CONNECTED, the sender stays suspended.
KeepAlive_NoResume(i) ==
    /\ sinceKA' = [sinceKA EXCEPT ![i] = 0]
    /\ patClient' = [patClient EXCEPT ![i] = ActiveClient(i)]
    /\ UNCHANGED <<senders, up>>

\* Every NOTIFY is a sign of life, and resumes what a tick had suspended.
KeepAlive(i) ==
    /\ sinceKA' = [sinceKA EXCEPT ![i] = 0]
    /\ patClient' = [patClient EXCEPT ![i] = ActiveClient(i)]
    /\ senders' = IF patClient[i].eState = "INACTIVE"
                  THEN Suspend(senders, Kind(i), patClient[i].tMedia, FALSE)
                  ELSE senders
    /\ UNCHANGED up

LiveC == {i \in CSlots : Live(i)}

\* The slot a listener-list with index k shows: the k-th live C.
ListenerAt(k, i) == i \in LiveC /\ Cardinality({j \in LiveC : j <= i}) = k

\* Mutant: the range ends one slot early.
InRange_TooShort(n) ==
    LET k == n % 256 IN IF k < 1 \/ k >= MaxClients - 1 THEN 1 ELSE k

\* The number is kept in a BYTE; out of range means the first.
InRange(n) ==
    LET k == n % 256 IN IF k < 1 \/ k >= MaxClients THEN 1 ELSE k

HasIndex(e) == "index" \in DOMAIN e

\* The body of the 200 reply to a NOTIFY with event e from slot i.
Body(i, e, b) ==
    \/ /\ e.name = "none"
       /\ b = NoBody
    \/ /\ e.name = "logon-state"
       /\ b = [kind |-> "state", state |-> ActiveClient(i).eState]
    \/ /\ e.name = "listener-list" /\ i # 0
       /\ b = [kind |-> "f-state", name |-> patClient[0].aName]
    \/ /\ e.name = "listener-list" /\ i = 0 /\ ~HasIndex(e)
       /\ b = [kind |-> "total", n |-> Cardinality(LiveC)]
    \/ /\ e.name = "listener-list" /\ i = 0 /\ HasIndex(e)
       /\ \E j \in CSlots :
             /\ ListenerAt(InRange(e.index), j)
             /\ b = [kind |-> "entry", slot |-> j, name |-> patClient[j].aName]

\* Events the server answers with 400: an unknown one, and an index past the end.
BadEvent(i, e) ==
    \/ e.name = "other"
    \/ /\ e.name = "listener-list" /\ i = 0 /\ HasIndex(e)
       /\ InRange(e.index) > Cardinality(LiveC)

Notify(i, m) ==
    /\ Receive
    /\ First(i, WithUUID(m.callid))
    /\ KeepAlive(i)
    /\ LET to == patClient[i].tAddrRemoteSignal
       IN  \/ /\ BadEvent(i, m.event)
              /\ Answer(MgrReply(to, 400, m.callid))
           \/ /\ ~BadEvent(i, m.event)
              /\ \E b \in Bodies :
                    /\ Body(i, m.event, b)
                    /\ Answer(Reply(to, 200, m.callid, NoKey, b))

-----------------------------------------------------------------------------
(***************************************************************************)
(* The specification.                                                      *)
(***************************************************************************)

\* control_plane_init clears slot 0 only; the other slots keep what new[] left.
Init ==
    /\ patClient \in [Slots -> {Blank(s) : s \in Residue \cup {"NONE"}}]
    /\ patClient[0] = Blank("NONE")
    /\ \A i \in CSlots : patClient[i].eState \in Residue
    /\ \E a \in 0 .. AgeCap : sinceKA = [i \in Slots |-> IF Live(i) THEN a ELSE 0]
    /\ senders = EmptyTables
    /\ sent = NoReply
    /\ phase = "check"
    /\ sinceCheck = 0
    /\ up = TRUE

Conn(m) == ConnF(m) \/ ConnC(m) \/ \E i \in Slots : ReConn(i, m)
NotifyRequest(m) == NotFound(m) \/ \E i \in Slots : Notify(i, m)
Disconn(m) == NotFound(m) \/ \E i \in Slots : ReleaseByUUID(i, m)
Reset(m) ==
    \/ ResetMiss(m)
    \/ \E i \in Slots : ReleaseByUUID(i, m) \/ ResetByName(i, m)

Request ==
    \/ \E m \in ConnMsgs : Conn(m)
    \/ \E m \in NotifyMsgs : NotifyRequest(m)
    \/ \E m \in BareMsgs :
          Disconn(m) \/ Reset(m) \/ Unsupported(m) \/ AnonymousMiss(m)
    \/ \E src \in SignalAddrs, u \in UUIDs \cup {NoUUID} : Malformed(src, u)

Loop == TimerCheck \/ NoMessage \/ Request

Next == Loop \/ \E d \in ClockSteps : Elapse(d)

\* The loop never stops: select waits at most a second and every handler
\* returns.  The clock goes on.  Nothing is assumed of the clients.
Fairness == WF_vars(Loop) /\ WF_vars(\E d \in ClockSteps : Elapse(d))

Spec == Init /\ [][Next]_vars

FairSpec == Spec /\ Fairness

-----------------------------------------------------------------------------
(***************************************************************************)
(* Correctness.                                                            *)
(***************************************************************************)

FieldTypes ==
    /\ patClient \in [Slots -> Client]
    /\ sinceKA \in [Slots -> 0 .. AgeCap]
    /\ senders \in Tables
    /\ sent \in Replies \cup {NoReply}
    /\ phase \in {"check", "recv"}
    /\ sinceCheck \in 0 .. TickAfter + 1
    /\ up \in BOOLEAN

\* A free or a dirty slot may hold no address and no key, a session never does.
SessionsAreComplete ==
    \A i \in Slots : Session(i) =>
        /\ patClient[i].tAddrRemoteSignal \in SignalAddrs
        /\ patClient[i].tAddrRemoteMedia \in Addr
        /\ patClient[i].tMedia \in Keys

\* Types.  A slot that counts as a session has the address it logged in from, a
\* media address and the key of a sender: init_client leaves the last two empty,
\* and only a CONN with a usable Media header fills them and makes the slot live.
TypeOK == FieldTypes /\ SessionsAreComplete

SenderOf(i) == senders[Kind(i)][patClient[i].tMedia]

\* The two planes agree: through every order of logins, media changes, resets
\* and ticks, a session keeps a sender in the map of its own kind, and that
\* sender transmits to the media address the session holds.
SenderForEverySession ==
    \A i \in Slots : Session(i) =>
        /\ patClient[i].tMedia \in Held(senders, Kind(i))
        /\ SenderOf(i).dst = patClient[i].tAddrRemoteMedia

\* No sender outlives its session: whatever ends or moves a session erases the
\* sender it had, so the data plane never transmits to a client that left.
NoOrphanSender ==
    \A t \in Kinds : \A k \in Held(senders, t) :
        \E i \in Slots : Session(i) /\ Kind(i) = t /\ patClient[i].tMedia = k

\* Sessions never share a Call-ID or a sender, so the first match of a lookup is
\* the only one, and erasing one client's sender leaves the others alone.
SessionsAreDistinct ==
    \A i, j \in Slots : Session(i) /\ Session(j) /\ i # j =>
        /\ patClient[i].aUUID # patClient[j].aUUID
        /\ patClient[i].tMedia # patClient[j].tMedia

\* Slot 0 holds a client with F's name and no other slot does: the dispatch by
\* slot and the classification by name always mean the same client.
FOnlyInSlotZero ==
    \A i \in Slots : Session(i) => (i = 0 <=> patClient[i].aName = FName)

\* A session in state CONNECTED is never left with a suspended sender, whichever
\* of tick, NOTIFY and re-sent CONN came last.
ConnectedIsHeard ==
    \A i \in Slots :
        Session(i) /\ patClient[i].eState = "CONNECTED" => ~SenderOf(i).is_suspend

\* The port a 200 reply advertises is that of a sender that exists, and belongs
\* to the session with the Call-ID of the reply.
AdvertisedPortIsServed ==
    sent # NoReply /\ sent.port # NoKey =>
        \E i \in Slots :
            /\ Session(i)
            /\ patClient[i].aUUID = sent.callid
            /\ patClient[i].tMedia = sent.port
            /\ sent.port \in Held(senders, Kind(i))

\* Walking the listener list with indexes 1, 2, ... up to the total shows every
\* listener: the range check on the index hides none, not even in a full house.
EveryListenerIsListed ==
    \A i \in LiveC : \E k \in 1 .. Cardinality(LiveC) : ListenerAt(InRange(k), i)

\* One datagram touches one client: every other session keeps its slot, its age
\* and its sender.
RequestTouchesOneClient ==
    [][phase = "recv" /\ phase' = "check" =>
         \E i \in Slots : \A j \in Slots \ {i} :
             /\ UNCHANGED <<patClient[j], sinceKA[j]>>
             /\ Session(j) => SenderOf(j)' = SenderOf(j)]_vars

\* A session ends in silence or with a reply: outside the tick it ends only in a
\* step that sends 200 to the address the client logged in from.
ReleaseIsAcknowledged ==
    [][phase = "recv" =>
         \A i \in Slots : Session(i) /\ ~Live(i)' =>
             \E u \in UUIDs : sent' = MgrReply(patClient[i].tAddrRemoteSignal, 200, u)]_vars

\* No slot stays taken without signs of life: time and again it is free, or its
\* client was heard just now.  Re-sent CONNs do not count as signs of life.
NoImmortalSession ==
    \A i \in Slots : []<>(~up \/ ~Live(i) \/ sinceKA[i] = 0)

\* Slots that look taken because new[] left their memory dirty become usable: in
\* the end only clients that logged in hold slots.
ResidueIsReleased ==
    <>(~up \/ [](\A i \in Slots : Live(i) => Session(i)))

-----------------------------------------------------------------------------
(***************************************************************************)
(* What the source says of itself and the code does not do.  Each is       *)
(* checked by a run that finds it violated.                                *)
(***************************************************************************)

\* "inactive, NOTIFY media module t stop sending/recieving"
\* (control_plane.cpp:508): while a session is INACTIVE its sender is suspended.
InactiveIsSilent ==
    \A i \in Slots :
        Session(i) /\ patClient[i].eState = "INACTIVE" => SenderOf(i).is_suspend

\* "goto below, just return 200-OK" (control_plane.cpp:618): a re-sent CONN with
\* the media address the session already has leaves its sender in place.
ResentConnKeepsSender ==
    [][\A m \in ConnMsgs : \A i \in Slots :
         ReConn(i, m) /\ m.media = patClient[i].tAddrRemoteMedia =>
             UNCHANGED senders]_vars
=============================================================================
