------------------------- MODULE ControlPlaneProofs -------------------------
(***************************************************************************)
(* Proofs about ControlPlane, for every number of slots, every set of      *)
(* keys, names, Call-IDs and addresses, and every setting of the timers.   *)
(***************************************************************************)
EXTENDS ControlPlane, FiniteSetTheorems, TLAPS

-----------------------------------------------------------------------------
(***************************************************************************)
(* The calls on the maps.                                                  *)
(***************************************************************************)

\* The calls on the maps keep them maps of senders.
LEMMA AddType ==
  ASSUME NEW tab \in Tables, NEW t \in Kinds, NEW k, NEW a \in Addr
  PROVE  AddSender(tab, t, k, a) \in Tables
BY DEF AddSender, NewSender, Tables, Sender, Addr

\* Erasing keeps them so.
LEMMA DelType ==
  ASSUME NEW tab \in Tables, NEW t \in Kinds, NEW k
  PROVE  DelSender(tab, t, k) \in Tables
BY DEF DelSender, Tables

\* And so does suspending or resuming.
LEMMA SuspendType ==
  ASSUME NEW tab \in Tables, NEW t \in Kinds, NEW k, NEW b \in BOOLEAN
  PROVE  Suspend(tab, t, k, b) \in Tables
BY DEF Suspend, Tables, Sender, Addr

\* A new sender is one, and not the mark of an absent key.
LEMMA NewSenderType ==
  ASSUME NEW a \in Addr
  PROVE  /\ NewSender(a) \in Sender /\ NewSender(a) # NoSender
         /\ NewSender(a).dst = a /\ NewSender(a).is_suspend = FALSE
<1>1. NewSender(a) \in Sender
  BY DEF NewSender, Sender
<1>2. QED BY <1>1, NoSenderAssumption DEF NewSender

\* The maps the data plane starts with.
LEMMA EmptyTablesType == EmptyTables \in Tables
BY DEF EmptyTables, Tables

-----------------------------------------------------------------------------
(***************************************************************************)
(* Slots and timers.                                                       *)
(***************************************************************************)

\* The kind of a slot names one of the two maps.
LEMMA KindType == \A i \in Slots : Kind(i) \in Kinds
BY DEF Kind, Kinds

\* F has a slot, and it is none of the listeners'.
LEMMA ZeroIsASlot == 0 \in Slots /\ \A i \in CSlots : i \in Slots /\ i # 0
BY SlotsAssumption DEF Slots, CSlots

\* The bound on ages is a number.
LEMMA AgeCapType == AgeCap \in Nat /\ InactiveAfter \in Nat
BY TimerAssumption DEF AgeCap, InactiveAfter

-----------------------------------------------------------------------------
(***************************************************************************)
(* What a step can do.                                                     *)
(***************************************************************************)
\* A message of any kind has a sender, a Call-ID and perhaps a name.
LEMMA MsgFields ==
    /\ \A m \in ConnMsgs \cup NotifyMsgs \cup BareMsgs :
          /\ m.from \in Names \cup {NoName}
          /\ m.callid \in UUIDs
          /\ m.src \in SignalAddrs
    /\ \A m \in ConnMsgs : m.media \in Addr \cup {NoAddr}
    /\ \A m \in NotifyMsgs : m.event \in Events
BY DEF ConnMsgs, NotifyMsgs, BareMsgs

\* What one datagram can lead to.
Ignores == Unchanged /\ (sent' = NoReply \/ sent'.port = NoKey)

Opens(i, m) ==
    /\ ~Live(i) /\ Missed(m)
    /\ i = 0 <=> m.from = FName
    /\ OpenSession(i, m)

Handles ==
    \/ Ignores
    \/ UNCHANGED <<patClient, sinceKA, senders>> /\ sent' = NoReply
    \/ \E i \in Slots, m \in ConnMsgs : Opens(i, m) \/ (Session(i) /\ ReConn(i, m))
    \/ \E i \in Slots, m \in NotifyMsgs : Session(i) /\ Notify(i, m)
    \/ \E i \in Slots, m \in BareMsgs : Live(i) /\ Release(i, m)

\* A reply without a Media header names no port.
LEMMA MgrReplyHasNoPort ==
    ASSUME NEW to, NEW code, NEW u PROVE MgrReply(to, code, u).port = NoKey
BY DEF MgrReply, Reply

\* Every datagram is handled in one of these ways.
LEMMA RequestHandles == ASSUME Request \/ NoMessage PROVE Handles /\ Receive
<1> USE DEF Handles
<1>1. ASSUME NEW u \in UUIDs, NEW i \in Slots, First(i, WithUUID(u)) PROVE Session(i)
  BY <1>1, SentinelAssumption DEF First, WithUUID, Session
<1>2. CASE NoMessage BY <1>2 DEF NoMessage, Ignores
<1>3. ASSUME NEW m \in ConnMsgs, ConnF(m) PROVE Handles /\ Receive
  <2>1. CASE Unchanged /\ Answer(MgrReply(m.src, 486, m.callid))
    BY <1>3, <2>1, MgrReplyHasNoPort DEF ConnF, Answer, Ignores
  <2>2. CASE ~Live(0) /\ OpenSession(0, m)
    <3>1. Opens(0, m) BY <1>3, <2>2 DEF ConnF, Opens, Unknown
    <3>2. QED BY <1>3, <3>1, ZeroIsASlot DEF ConnF
  <2>3. QED BY <1>3, <2>1, <2>2 DEF ConnF
<1>4. ASSUME NEW m \in ConnMsgs, ConnC(m) PROVE Handles /\ Receive
  <2>1. CASE Unchanged /\ Answer(MgrReply(m.src, 486, m.callid))
    BY <1>4, <2>1, MgrReplyHasNoPort DEF ConnC, Answer, Ignores
  <2>2. ASSUME NEW i \in FreeCSlots, OpenSession(i, m) PROVE Handles /\ Receive
    <3>1. i \in Slots /\ i # 0 /\ ~Live(i) BY ZeroIsASlot DEF FreeCSlots
    <3>2. Opens(i, m) BY <1>4, <2>2, <3>1 DEF ConnC, Opens, Unknown
    <3>3. QED BY <1>4, <3>1, <3>2 DEF ConnC
  <2>3. QED BY <1>4, <2>1, <2>2 DEF ConnC
<1>5. ASSUME NEW m \in ConnMsgs, NEW i \in Slots, ReConn(i, m) PROVE Handles /\ Receive
  BY <1>1, <1>5, MsgFields DEF ReConn
<1>6. ASSUME NEW m \in NotifyMsgs, NEW i \in Slots, Notify(i, m) PROVE Handles /\ Receive
  BY <1>1, <1>6, MsgFields DEF Notify
<1>7. ASSUME NEW m, NotFound(m) \/ ResetMiss(m) \/ Unsupported(m) PROVE Handles /\ Receive
  BY <1>7, MgrReplyHasNoPort DEF NotFound, ResetMiss, Unsupported, Answer, Ignores
<1>8. ASSUME NEW m, AnonymousMiss(m) PROVE Handles /\ Receive
  BY <1>8 DEF AnonymousMiss
<1>9. ASSUME NEW m \in BareMsgs, NEW i \in Slots, ReleaseByUUID(i, m) \/ ResetByName(i, m)
      PROVE  Handles /\ Receive
  BY <1>9 DEF ReleaseByUUID, ResetByName, First, WithUUID, WithName
<1>10. ASSUME NEW src, NEW u, Malformed(src, u) PROVE Handles /\ Receive
  BY <1>10, MgrReplyHasNoPort DEF Malformed, Answer, Ignores
<1>11. QED
  BY <1>2, <1>3, <1>4, <1>5, <1>6, <1>7, <1>8, <1>9, <1>10
  DEF Request, Conn, NotifyRequest, Disconn, Reset

\* A step is of the clock, of the top of the loop, or handles a datagram.
LEMMA StepIs ==
    ASSUME [Next]_vars
    PROVE  \/ UNCHANGED vars
           \/ UNCHANGED <<patClient, senders, phase>> /\ sent' = NoReply
           \/ TimerCheck
           \/ Receive /\ Handles
<1>1. ASSUME NEW d \in ClockSteps, Elapse(d)
      PROVE  UNCHANGED <<patClient, senders, phase>> /\ sent' = NoReply
  BY <1>1 DEF Elapse
<1>2. QED BY <1>1, RequestHandles DEF Next, Loop

-----------------------------------------------------------------------------
(***************************************************************************)
(* Type correctness.                                                       *)
(***************************************************************************)
\* What sendResponse sends is a reply.
LEMMA ReplyType ==
    ASSUME NEW to \in SignalAddrs \cup {NoAddr}, NEW code \in {200, 400, 404, 486},
           NEW u \in UUIDs \cup {NoUUID}, NEW p \in Keys \cup {NoKey}, NEW b \in Bodies
    PROVE  Reply(to, code, u, p, b) \in Replies \cup {NoReply}
BY DEF Reply, Replies

\* What sendMgrResponse sends is a reply.
LEMMA MgrReplyType ==
    ASSUME NEW to \in SignalAddrs \cup {NoAddr}, NEW code \in {200, 400, 404, 486},
           NEW u \in UUIDs \cup {NoUUID}
    PROVE  MgrReply(to, code, u) \in Replies \cup {NoReply}
BY DEF MgrReply, Reply, Replies, NoBody, Bodies

\* What control_plane_init leaves is well typed, dirty slots included.
LEMMA InitType == Init => TypeOK
<1> SUFFICES ASSUME Init PROVE TypeOK OBVIOUS
<1>1. \A s \in States : Blank(s) \in Client
  BY DEF Blank, Client
<1>2. patClient \in [Slots -> Client]
  BY <1>1, ResidueAssumption DEF Init, States
<1>3. sinceKA \in [Slots -> 0 .. AgeCap]
  BY AgeCapType DEF Init
<1>4. sinceCheck \in 0 .. TickAfter + 1
  BY DEF Init, TickAfter
<1>5. \A i \in Slots : ~Session(i) BY DEF Init, Blank, Session
<1>6. QED BY <1>2, <1>3, <1>4, <1>5, EmptyTablesType
  DEF Init, TypeOK, FieldTypes, SessionsAreComplete

\* The clock keeps the types.
LEMMA ElapseType ==
    ASSUME TypeOK, NEW d \in ClockSteps, Elapse(d)
    PROVE  FieldTypes'
<1> USE DEF TypeOK, FieldTypes
<1>1. d \in Nat BY TimerAssumption
<1>2. sinceKA' \in [Slots -> 0 .. AgeCap]
  BY <1>1, AgeCapType DEF Elapse, Capped
<1>3. sinceCheck' \in 0 .. TickAfter + 1
  BY <1>1 DEF Elapse, Capped, TickAfter
<1>4. QED BY <1>2, <1>3 DEF Elapse

\* handle_req_time_tick keeps them.
LEMMA TickType ==
    ASSUME TypeOK, Tick
    PROVE  patClient' \in [Slots -> Client] /\ senders' \in Tables
<1>1. \A i \in Slots : TickClient(i) \in Client
  BY DEF TypeOK, FieldTypes, TickClient, Client, States
<1>2. \A t \in Kinds, k \in Keys : TickSender(t, k) \in Sender \cup {NoSender}
  BY DEF TypeOK, FieldTypes, TickSender, Tables, Sender
<1>3. QED BY <1>1, <1>2 DEF Tick, Tables

\* handle_request_CONN keeps them, in whatever slot.
LEMMA OpenType ==
    ASSUME TypeOK, NEW i \in Slots, NEW m \in ConnMsgs, OpenSession(i, m)
    PROVE  /\ patClient' \in [Slots -> Client] /\ senders' \in Tables
           /\ sinceKA' \in [Slots -> 0 .. AgeCap]
           /\ sent' \in Replies \cup {NoReply}
<1> USE DEF TypeOK, FieldTypes
<1>1. sinceKA' \in [Slots -> 0 .. AgeCap]
  <2>1. sinceKA' = [sinceKA EXCEPT ![i] = 0] BY DEF OpenSession
  <2>2. QED BY <2>1, AgeCapType
<1>2. CASE m.media = NoAddr
  <2>1. InitClient(m) \in Client
    BY MsgFields DEF InitClient, Client, States
  <2>2. MgrReply(m.src, 400, m.callid) \in Replies \cup {NoReply}
    BY MsgFields, MgrReplyType
  <2>3. QED BY <1>1, <1>2, <2>1, <2>2 DEF OpenSession, Answer
<1>3. CASE m.media # NoAddr
  <2>1. PICK k \in FreshKeys(senders) :
          /\ patClient' = [patClient EXCEPT ![i] =
                [InitClient(m) EXCEPT !.eState = "CONNECTED",
                                      !.tAddrRemoteMedia = m.media,
                                      !.tMedia = k]]
          /\ senders' = AddSender(senders, Kind(i), k, m.media)
          /\ Answer(Reply(m.src, 200, m.callid, k, NoBody))
    BY <1>3 DEF OpenSession
  <2>2. k \in Keys /\ m.media \in Addr
    BY <1>3, MsgFields DEF FreshKeys
  <2>3. patClient' \in [Slots -> Client]
    BY <2>1, <2>2, MsgFields DEF InitClient, Client, States
  <2>4. senders' \in Tables
    BY <2>1, <2>2, KindType, AddType
  <2>5. NoBody \in Bodies BY DEF NoBody, Bodies
  <2>6. sent' \in Replies \cup {NoReply}
    BY <2>1, <2>2, <2>5, MsgFields, ReplyType DEF Answer
  <2>7. QED BY <1>1, <2>3, <2>4, <2>6
<1>4. QED BY <1>2, <1>3

\* The media change of handle_request_reCONN keeps them.
LEMMA MoveType ==
    ASSUME TypeOK, NEW i \in Slots, NEW a \in Addr, MoveMedia(i, a)
    PROVE  /\ patClient' \in [Slots -> Client] /\ senders' \in Tables
           /\ patClient'[i].tMedia \in Keys
<1> USE DEF TypeOK, FieldTypes
<1> DEFINE dropped == DelSender(senders, Kind(i), patClient[i].tMedia)
<1>1. PICK k \in FreshKeys(senders) :
        /\ patClient' = [patClient EXCEPT ![i].tAddrRemoteMedia = a, ![i].tMedia = k]
        /\ senders' = AddSender(dropped, Kind(i), k, a)
  BY DEF MoveMedia
<1>2. k \in Keys BY DEF FreshKeys
<1>3. patClient' \in [Slots -> Client] /\ patClient'[i].tMedia \in Keys
  <2> DEFINE moved == [patClient[i] EXCEPT !.tAddrRemoteMedia = a, !.tMedia = k]
  <2>1. patClient[i] \in Client
    OBVIOUS
  <2>2. moved \in Client /\ moved.tMedia = k
    BY <1>2, <2>1 DEF Client
  <2>3. patClient' = [patClient EXCEPT ![i] = moved]
    BY <1>1
  <2> HIDE DEF moved
  <2>4. QED BY <1>2, <2>2, <2>3
<1>4. dropped \in Tables
  BY KindType, DelType
<1>5. senders' \in Tables
  BY <1>1, <1>4, KindType, AddType
<1>6. QED BY <1>3, <1>5

\* freeClient with the erasure of the sender keeps them.
LEMMA ReleaseType ==
    ASSUME TypeOK, NEW i \in Slots,
           NEW m \in ConnMsgs \cup NotifyMsgs \cup BareMsgs, Release(i, m)
    PROVE  /\ patClient' \in [Slots -> Client] /\ senders' \in Tables
           /\ sent' \in Replies \cup {NoReply}
<1> USE DEF TypeOK, FieldTypes
<1>1. patClient' \in [Slots -> Client]
  BY DEF Release, FreeClient, Client, States
<1>2. senders' \in Tables
  BY KindType, DelType DEF Release
<1>3. patClient[i].tAddrRemoteSignal \in SignalAddrs \cup {NoAddr}
  BY DEF Client
<1>4. sent' \in Replies \cup {NoReply}
  BY <1>3, MsgFields, MgrReplyType DEF Release, Answer
<1>5. QED BY <1>1, <1>2, <1>4

\* The keep-alive of a NOTIFY keeps them.
LEMMA KeepAliveType ==
    ASSUME TypeOK, NEW i \in Slots, KeepAlive(i)
    PROVE  /\ patClient' \in [Slots -> Client] /\ senders' \in Tables
           /\ sinceKA' \in [Slots -> 0 .. AgeCap]
<1> USE DEF TypeOK, FieldTypes
<1>1. ActiveClient(i) \in Client
  BY DEF ActiveClient, Client, States
<1>2. senders' \in Tables
  BY KindType, SuspendType DEF KeepAlive
<1>3. sinceKA' = [sinceKA EXCEPT ![i] = 0] /\ patClient' = [patClient EXCEPT ![i] = ActiveClient(i)]
  BY DEF KeepAlive
<1>4. QED BY <1>1, <1>2, <1>3, AgeCapType

\* Every step keeps them.
LEMMA NextFieldTypes == TypeOK /\ [Next]_vars => FieldTypes'
<1> SUFFICES ASSUME TypeOK, [Next]_vars PROVE FieldTypes'
  OBVIOUS
<1>1. ASSUME NEW d \in ClockSteps, Elapse(d) PROVE FieldTypes'
  BY <1>1, ElapseType
<1>2. CASE TimerCheck
  <2>1. patClient' \in [Slots -> Client] /\ senders' \in Tables
    BY <1>2, TickType DEF TimerCheck, TypeOK, FieldTypes
  <2>2. QED BY <1>2, <2>1 DEF TimerCheck, TypeOK, FieldTypes, TickAfter
<1>3. CASE NoMessage
  BY <1>3 DEF NoMessage, Receive, Unchanged, TypeOK, FieldTypes
\* The handlers that leave the slots and the maps alone.
<1>4. ASSUME Receive, Unchanged, sent' \in Replies \cup {NoReply} PROVE FieldTypes'
  BY <1>4 DEF Receive, Unchanged, TypeOK, FieldTypes
<1>5. ASSUME NEW m \in ConnMsgs \cup NotifyMsgs \cup BareMsgs, NotFound(m) PROVE FieldTypes'
  BY <1>4, <1>5, MsgFields, MgrReplyType DEF NotFound, Answer
<1>6. ASSUME NEW i \in Slots, NEW m \in BareMsgs, Receive, Release(i, m) PROVE FieldTypes'
  BY <1>6, ReleaseType DEF Release, Receive, TypeOK, FieldTypes
<1>7. ASSUME NEW i \in Slots, NEW m \in ConnMsgs, Receive, OpenSession(i, m) PROVE FieldTypes'
  <2>1. UNCHANGED up BY <1>7 DEF OpenSession
  <2>2. QED BY <1>7, <2>1, OpenType DEF Receive, TypeOK, FieldTypes
<1>8. ASSUME NEW m \in ConnMsgs, ConnF(m) PROVE FieldTypes'
  <2>1. MgrReply(m.src, 486, m.callid) \in Replies \cup {NoReply}
    BY MsgFields, MgrReplyType
  <2>2. QED BY <1>4, <1>7, <1>8, <2>1, ZeroIsASlot DEF ConnF, Answer
<1>9. ASSUME NEW m \in ConnMsgs, ConnC(m) PROVE FieldTypes'
  <2>1. MgrReply(m.src, 486, m.callid) \in Replies \cup {NoReply}
    BY MsgFields, MgrReplyType
  <2>2. CASE Unchanged /\ Answer(MgrReply(m.src, 486, m.callid))
    BY <1>4, <1>9, <2>1, <2>2 DEF ConnC, Answer
  <2>3. ASSUME NEW i \in FreeCSlots, OpenSession(i, m) PROVE FieldTypes'
    <3>1. i \in Slots BY ZeroIsASlot DEF FreeCSlots
    <3>2. Receive BY <1>9 DEF ConnC
    <3>3. QED BY <1>7, <2>3, <3>1, <3>2
  <2>4. QED BY <1>9, <2>2, <2>3 DEF ConnC
<1>10. ASSUME NEW m \in ConnMsgs, NEW i \in Slots, ReConn(i, m) PROVE FieldTypes'
  <2> DEFINE to == patClient[i].tAddrRemoteSignal
  <2>1. /\ to \in SignalAddrs \cup {NoAddr}
        /\ patClient[i].tMedia \in Keys \cup {NoKey}
        /\ NoBody \in Bodies
    BY DEF TypeOK, FieldTypes, Client, NoBody, Bodies
  <2>2. Receive /\ UNCHANGED <<sinceKA, up>>
    BY <1>10 DEF ReConn
  <2>3. ASSUME UNCHANGED <<patClient, senders>>, sent' \in Replies \cup {NoReply}
        PROVE  FieldTypes'
    BY <2>2, <2>3 DEF TypeOK, FieldTypes, Receive
  <2>4. CASE m.media = NoAddr
    BY <1>10, <2>1, <2>4, <2>3, MsgFields, MgrReplyType DEF ReConn, Answer
  <2>5. CASE m.media # NoAddr /\ SameMedia(m.media, patClient[i].tAddrRemoteMedia)
    BY <1>10, <2>1, <2>5, <2>3, MsgFields, ReplyType DEF ReConn, Answer
  <2>6. CASE m.media # NoAddr /\ ~SameMedia(m.media, patClient[i].tAddrRemoteMedia)
    <3>1. m.media \in Addr BY <2>6, MsgFields
    <3>2. MoveMedia(i, m.media) /\ sent' = Reply(to, 200, m.callid, patClient'[i].tMedia, NoBody)
      BY <1>10, <2>6 DEF ReConn, Answer
    <3>3. /\ patClient' \in [Slots -> Client] /\ senders' \in Tables
          /\ patClient'[i].tMedia \in Keys
      BY <3>1, <3>2, MoveType
    <3>4. sent' \in Replies \cup {NoReply}
      BY <2>1, <3>2, <3>3, MsgFields, ReplyType
    <3>5. QED BY <2>2, <3>3, <3>4 DEF TypeOK, FieldTypes, Receive
  <2>7. QED BY <2>4, <2>5, <2>6
<1>11. ASSUME NEW m \in NotifyMsgs, NEW i \in Slots, Notify(i, m) PROVE FieldTypes'
  <2>1. Receive /\ KeepAlive(i) /\ UNCHANGED up
    BY <1>11 DEF Notify, KeepAlive
  <2>2. /\ patClient[i].tAddrRemoteSignal \in SignalAddrs \cup {NoAddr}
        /\ m.callid \in UUIDs
    BY MsgFields DEF TypeOK, FieldTypes, Client
  <2> DEFINE to == patClient[i].tAddrRemoteSignal
  <2>3. \/ sent' = MgrReply(to, 400, m.callid)
        \/ \E b \in Bodies : sent' = Reply(to, 200, m.callid, NoKey, b)
    BY <1>11 DEF Notify, Answer
  <2>4. sent' \in Replies \cup {NoReply}
    <3> HIDE DEF to
    <3>1. NoKey \in Keys \cup {NoKey} /\ m.callid \in UUIDs \cup {NoUUID}
          /\ to \in SignalAddrs \cup {NoAddr}
      BY <2>2 DEF to
    <3>2. CASE sent' = MgrReply(to, 400, m.callid)
      BY <3>1, <3>2, MgrReplyType
    <3>3. ASSUME NEW b \in Bodies, sent' = Reply(to, 200, m.callid, NoKey, b)
          PROVE  sent' \in Replies \cup {NoReply}
      BY <3>1, <3>3 DEF Reply, Replies
    <3>4. QED BY <2>3, <3>2, <3>3
  <2>5. QED BY <2>1, <2>4, KeepAliveType DEF TypeOK, FieldTypes, Receive
<1>12. ASSUME NEW m \in BareMsgs, Disconn(m) \/ Reset(m) \/ Unsupported(m) \/ AnonymousMiss(m)
       PROVE FieldTypes'
  <2>1. CASE Disconn(m)
    BY <1>5, <1>6, <2>1 DEF Disconn, ReleaseByUUID
  <2>2. CASE Reset(m)
    BY <1>4, <1>6, <2>2 DEF Reset, ReleaseByUUID, ResetByName, ResetMiss
  <2>3. CASE Unsupported(m)
    BY <1>4, <2>3 DEF Unsupported
  <2>4. CASE AnonymousMiss(m)
    BY <2>4 DEF AnonymousMiss, Receive, TypeOK, FieldTypes
  <2>5. QED BY <1>12, <2>1, <2>2, <2>3, <2>4
<1>13. ASSUME NEW src \in SignalAddrs, NEW u \in UUIDs \cup {NoUUID}, Malformed(src, u)
       PROVE FieldTypes'
  BY <1>4, <1>13, MgrReplyType DEF Malformed, Answer
<1>14. CASE UNCHANGED vars
  BY <1>14 DEF vars, TypeOK, FieldTypes
<1>15. QED
  BY <1>1, <1>2, <1>3, <1>5, <1>8, <1>9, <1>10, <1>11, <1>12, <1>13, <1>14
  DEF Next, Loop, Request, Conn, NotifyRequest

\* One slot changes, to one that is complete if it is a session.
LEMMA CompleteSlot ==
    ASSUME TypeOK, NEW i \in Slots, NEW c, patClient' = [patClient EXCEPT ![i] = c],
           c.eState # "NONE" /\ c.aUUID # NoUUID =>
               /\ c.tAddrRemoteSignal \in SignalAddrs
               /\ c.tAddrRemoteMedia \in Addr
               /\ c.tMedia \in Keys
    PROVE  SessionsAreComplete'
BY DEF TypeOK, FieldTypes, SessionsAreComplete, Session, Live

\* No step makes a session of a slot without addresses or a key, or takes them
\* from a session.
LEMMA NextComplete == TypeOK /\ [Next]_vars => SessionsAreComplete'
<1> SUFFICES ASSUME TypeOK, [Next]_vars PROVE SessionsAreComplete' OBVIOUS
<1>1. ASSUME UNCHANGED patClient PROVE SessionsAreComplete'
  BY <1>1 DEF TypeOK, SessionsAreComplete, Session, Live
<1>2. ASSUME Tick PROVE SessionsAreComplete'
  <2>1. ASSUME NEW i \in Slots
        PROVE  /\ patClient'[i].aUUID = patClient[i].aUUID
               /\ patClient'[i].tAddrRemoteSignal = patClient[i].tAddrRemoteSignal
               /\ patClient'[i].tAddrRemoteMedia = patClient[i].tAddrRemoteMedia
               /\ patClient'[i].tMedia = patClient[i].tMedia
               /\ Live(i)' => Live(i)
    BY <1>2 DEF Tick, TickClient, Live, GoesOffline, GoesInactive, TypeOK, FieldTypes, Client
  <2>2. QED BY <2>1 DEF TypeOK, SessionsAreComplete, Session
<1>3. ASSUME NEW i \in Slots, NEW m \in ConnMsgs, Opens(i, m) PROVE SessionsAreComplete'
  <2>1. CASE m.media = NoAddr
    BY <1>3, <2>1, CompleteSlot DEF Opens, OpenSession, InitClient
  <2>2. CASE m.media # NoAddr
    <3>1. PICK k \in Keys :
            patClient' = [patClient EXCEPT ![i] =
                [InitClient(m) EXCEPT !.eState = "CONNECTED",
                                      !.tAddrRemoteMedia = m.media,
                                      !.tMedia = k]]
      BY <1>3, <2>2 DEF Opens, OpenSession, FreshKeys
    <3>2. m.media \in Addr /\ m.src \in SignalAddrs BY <2>2, MsgFields
    <3>3. QED BY <3>1, <3>2, CompleteSlot DEF InitClient
  <2>3. QED BY <2>1, <2>2
<1>4. ASSUME NEW i \in Slots, NEW m \in ConnMsgs, Session(i), ReConn(i, m)
      PROVE  SessionsAreComplete'
  <2>1. CASE UNCHANGED patClient BY <1>1, <2>1
  <2>2. CASE m.media # NoAddr /\ MoveMedia(i, m.media)
    <3> DEFINE moved(k) == [patClient[i] EXCEPT !.tAddrRemoteMedia = m.media, !.tMedia = k]
    <3>1. PICK k \in Keys : patClient' = [patClient EXCEPT ![i] = moved(k)]
      BY <2>2 DEF MoveMedia, FreshKeys, TypeOK, FieldTypes
    <3>2. /\ moved(k).tAddrRemoteSignal = patClient[i].tAddrRemoteSignal
          /\ moved(k).tAddrRemoteMedia = m.media /\ moved(k).tMedia = k
      BY DEF TypeOK, FieldTypes, Client
    <3>3. patClient[i].tAddrRemoteSignal \in SignalAddrs
      BY <1>4 DEF TypeOK, SessionsAreComplete
    <3>4. m.media \in Addr BY <2>2, MsgFields
    <3> HIDE DEF moved
    <3>5. QED BY <3>1, <3>2, <3>3, <3>4, CompleteSlot
  <2>3. QED BY <1>4, <2>1, <2>2 DEF ReConn
<1>5. ASSUME NEW i \in Slots, NEW m \in NotifyMsgs, Session(i), Notify(i, m)
      PROVE  SessionsAreComplete'
  <2>1. patClient' = [patClient EXCEPT ![i] = ActiveClient(i)]
    BY <1>5 DEF Notify, KeepAlive
  <2>2. /\ ActiveClient(i).tAddrRemoteSignal = patClient[i].tAddrRemoteSignal
        /\ ActiveClient(i).tAddrRemoteMedia = patClient[i].tAddrRemoteMedia
        /\ ActiveClient(i).tMedia = patClient[i].tMedia
    BY DEF ActiveClient, TypeOK, FieldTypes, Client
  <2>3. /\ patClient[i].tAddrRemoteSignal \in SignalAddrs
        /\ patClient[i].tAddrRemoteMedia \in Addr
        /\ patClient[i].tMedia \in Keys
    BY <1>5 DEF TypeOK, SessionsAreComplete
  <2>4. QED BY <2>1, <2>2, <2>3, CompleteSlot
<1>6. ASSUME NEW i \in Slots, NEW m \in BareMsgs, Release(i, m) PROVE SessionsAreComplete'
  <2> DEFINE freed == [patClient[i] EXCEPT !.eState = "NONE"]
  <2>1. patClient' = [patClient EXCEPT ![i] = freed] /\ freed.eState = "NONE"
    BY <1>6 DEF Release, FreeClient, TypeOK, FieldTypes, Client
  <2> HIDE DEF freed
  <2>2. QED BY <2>1, CompleteSlot
<1>7. CASE Handles
  BY <1>1, <1>3, <1>4, <1>5, <1>6, <1>7 DEF Handles, Ignores, Unchanged
<1>8. CASE TimerCheck BY <1>1, <1>2, <1>8 DEF TimerCheck
<1>9. QED BY <1>1, <1>7, <1>8, StepIs DEF vars

LEMMA NextType == TypeOK /\ [Next]_vars => TypeOK'
BY NextFieldTypes, NextComplete DEF TypeOK

\* Every reachable state is well typed, whatever order requests and ticks come
\* in: no handler puts into a slot, a map or a reply what does not belong there.
THEOREM TypeCorrect == Spec => []TypeOK
BY InitType, NextType, PTL DEF Spec

-----------------------------------------------------------------------------
(***************************************************************************)
(* The two planes agree.  The invariant is the conjunction of the safety   *)
(* properties that relate slots to senders, and of the fact that a slot    *)
(* whose memory was never initialised names no sender: without it the      *)
(* release of such a slot could erase the sender of a session.             *)
(***************************************************************************)
ResidueHoldsNothing ==
    \A i \in Slots : patClient[i].aUUID = NoUUID => patClient[i].tMedia = NoKey

Agreement ==
    /\ ResidueHoldsNothing
    /\ SenderForEverySession
    /\ NoOrphanSender
    /\ SessionsAreDistinct
    /\ FOnlyInSlotZero
    /\ ConnectedIsHeard

IsSession(c) == c.eState # "NONE" /\ c.aUUID # NoUUID

\* No session, no sender: the planes agree at the start.
LEMMA InitAgreement == Init => Agreement
<1> SUFFICES ASSUME Init PROVE Agreement OBVIOUS
<1>1. \A i \in Slots : patClient[i].aUUID = NoUUID /\ patClient[i].tMedia = NoKey
  BY DEF Init, Blank
<1>2. \A i \in Slots : ~Session(i)
  BY <1>1 DEF Session
<1>3. \A t \in Kinds : Held(senders, t) = {}
  BY DEF Init, Held, EmptyTables
<1>4. QED
  BY <1>1, <1>2, <1>3
  DEF Agreement, ResidueHoldsNothing, SenderForEverySession, NoOrphanSender,
      SessionsAreDistinct, FOnlyInSlotZero, ConnectedIsHeard

\* One slot changes, and in the maps only what belongs to it before or after.
LEMMA OneSlotChanges ==
    ASSUME TypeOK, Agreement,
           NEW i \in Slots, NEW c \in Client,
           patClient' = [patClient EXCEPT ![i] = c],
           c.aUUID = NoUUID => c.tMedia = NoKey,
           \* what the new slot must bring with it
           IsSession(c) =>
               /\ c.tMedia \in Keys
               /\ senders'[Kind(i)][c.tMedia] # NoSender
               /\ senders'[Kind(i)][c.tMedia].dst = c.tAddrRemoteMedia
               /\ c.eState = "CONNECTED" => ~senders'[Kind(i)][c.tMedia].is_suspend
               /\ i = 0 <=> c.aName = FName
               /\ \A j \in Slots \ {i} : Session(j) =>
                      c.aUUID # patClient[j].aUUID /\ c.tMedia # patClient[j].tMedia,
           \* what the old session must leave behind
           \A x \in Keys :
               Session(i) /\ x = patClient[i].tMedia /\ ~(IsSession(c) /\ x = c.tMedia)
                   => senders'[Kind(i)][x] = NoSender,
           \* everything else stays
           \A t \in Kinds, x \in Keys :
               ~(t = Kind(i) /\ \/ Session(i) /\ x = patClient[i].tMedia
                                \/ IsSession(c) /\ x = c.tMedia)
                   => senders'[t][x] = senders[t][x]
    PROVE  Agreement'
<1> USE DEF Agreement
<1>1. /\ patClient'[i] = c
      /\ Session(i)' <=> IsSession(c)
      /\ \A j \in Slots \ {i} : patClient'[j] = patClient[j] /\ (Session(j)' <=> Session(j))
  BY DEF TypeOK, FieldTypes, Session, Live, IsSession
<1>2. \A j \in Slots : Kind(j) \in Kinds
  BY KindType
<1>3. \A j \in Slots \ {i} : Session(j) =>
        /\ patClient[j].tMedia \in Keys
        /\ senders'[Kind(j)][patClient[j].tMedia] = senders[Kind(j)][patClient[j].tMedia]
  BY <1>2 DEF SenderForEverySession, SessionsAreDistinct, Held
<1>4. ResidueHoldsNothing'
  BY <1>1 DEF ResidueHoldsNothing
<1>5. SenderForEverySession'
  BY <1>1, <1>3 DEF SenderForEverySession, SenderOf, Held
<1>6. NoOrphanSender'
  <2> SUFFICES ASSUME NEW t \in Kinds, NEW x \in Keys, senders'[t][x] # NoSender
               PROVE  \E j \in Slots : Session(j)' /\ Kind(j) = t /\ patClient'[j].tMedia = x
    BY DEF NoOrphanSender, Held
  <2>1. CASE t = Kind(i) /\ IsSession(c) /\ x = c.tMedia
    BY <1>1, <2>1
  <2>2. CASE ~(t = Kind(i) /\ IsSession(c) /\ x = c.tMedia)
    <3>1. ~(t = Kind(i) /\ Session(i) /\ x = patClient[i].tMedia)
      BY <2>2
    <3>2. senders[t][x] # NoSender
      BY <2>2, <3>1
    <3>3. PICK j \in Slots : Session(j) /\ Kind(j) = t /\ patClient[j].tMedia = x
      BY <3>2 DEF NoOrphanSender, Held
    <3>4. j # i BY <3>1, <3>3
    <3>5. QED BY <1>1, <3>3, <3>4
  <2>3. QED BY <2>1, <2>2
<1>7. SessionsAreDistinct'
  BY <1>1 DEF SessionsAreDistinct
<1>8. FOnlyInSlotZero'
  BY <1>1 DEF FOnlyInSlotZero
<1>9. ConnectedIsHeard'
  BY <1>1, <1>3 DEF ConnectedIsHeard, SenderOf
<1>10. QED BY <1>4, <1>5, <1>6, <1>7, <1>8, <1>9

\* A CONN that matches no Call-ID, into a slot that is free.
LEMMA OpenAgreement ==
    ASSUME TypeOK, Agreement, NEW i \in Slots, NEW m \in ConnMsgs,
           ~Live(i), Missed(m), i = 0 <=> m.from = FName, OpenSession(i, m)
    PROVE  Agreement'
<1>1. ~Session(i) /\ Kind(i) \in Kinds /\ m.callid \in UUIDs /\ m.callid # NoUUID
  BY MsgFields, KindType, SentinelAssumption DEF Session
<1>2. CASE m.media = NoAddr
  <2> DEFINE c == InitClient(m)
  <2>1. c \in Client /\ c.aUUID # NoUUID /\ ~IsSession(c)
    BY <1>1, MsgFields DEF InitClient, Client, States, IsSession
  <2>2. patClient' = [patClient EXCEPT ![i] = c] /\ senders' = senders
    BY <1>2 DEF OpenSession
  <2> HIDE DEF c
  <2>3. QED BY <1>1, <2>1, <2>2, OneSlotChanges
<1>3. CASE m.media # NoAddr
  <2>1. PICK k \in FreshKeys(senders) :
          /\ patClient' = [patClient EXCEPT ![i] =
                [InitClient(m) EXCEPT !.eState = "CONNECTED",
                                      !.tAddrRemoteMedia = m.media,
                                      !.tMedia = k]]
          /\ senders' = AddSender(senders, Kind(i), k, m.media)
    BY <1>3 DEF OpenSession
  <2> DEFINE c == [InitClient(m) EXCEPT !.eState = "CONNECTED",
                                        !.tAddrRemoteMedia = m.media,
                                        !.tMedia = k]
  <2>2. /\ k \in Keys /\ m.media \in Addr
        /\ \A t \in Kinds : senders[t][k] = NoSender
    BY <1>3, MsgFields DEF FreshKeys, Held, Kinds
  <2>3. /\ c \in Client /\ c.aUUID = m.callid /\ c.tMedia = k
        /\ c.aName = m.from /\ c.tAddrRemoteMedia = m.media
        /\ c.eState = "CONNECTED"
    BY <2>2, MsgFields DEF InitClient, Client, States
  <2>4. /\ senders'[Kind(i)][k] = NewSender(m.media)
        /\ \A t \in Kinds, x \in Keys :
              ~(t = Kind(i) /\ x = k) => senders'[t][x] = senders[t][x]
    BY <1>1, <2>1, <2>2 DEF AddSender
  <2>5. /\ senders'[Kind(i)][k] # NoSender
        /\ senders'[Kind(i)][k].dst = m.media
        /\ ~senders'[Kind(i)][k].is_suspend
    BY <2>2, <2>4, NewSenderType
  <2>6. \A j \in Slots \ {i} : Session(j) =>
          /\ m.callid # patClient[j].aUUID
          /\ k # patClient[j].tMedia
    BY <2>2, KindType DEF Missed, WithUUID, Session, Agreement, SenderForEverySession, Held
  <2>7. patClient' = [patClient EXCEPT ![i] = c] BY <2>1
  <2> HIDE DEF c
  <2>8. IsSession(c) =>
          /\ c.tMedia \in Keys
          /\ senders'[Kind(i)][c.tMedia] # NoSender
          /\ senders'[Kind(i)][c.tMedia].dst = c.tAddrRemoteMedia
          /\ c.eState = "CONNECTED" => ~senders'[Kind(i)][c.tMedia].is_suspend
          /\ i = 0 <=> c.aName = FName
          /\ \A j \in Slots \ {i} : Session(j) =>
                 c.aUUID # patClient[j].aUUID /\ c.tMedia # patClient[j].tMedia
    BY <2>2, <2>3, <2>5, <2>6
  <2>9. IsSession(c) BY <1>1, <2>3 DEF IsSession
  <2>10. QED
    BY <1>1, <2>3, <2>4, <2>7, <2>8, <2>9, OneSlotChanges
<1>4. QED BY <1>2, <1>3

\* A CONN of a session that gives a media address: erase, then make anew.
LEMMA MoveAgreement ==
    ASSUME TypeOK, Agreement, NEW i \in Slots, NEW a \in Addr,
           Session(i), MoveMedia(i, a)
    PROVE  Agreement'
<1> DEFINE old == patClient[i].tMedia
           dropped == DelSender(senders, Kind(i), old)
<1>1. PICK k \in FreshKeys(senders) :
        /\ patClient' = [patClient EXCEPT ![i].tAddrRemoteMedia = a, ![i].tMedia = k]
        /\ senders' = AddSender(dropped, Kind(i), k, a)
  BY DEF MoveMedia
<1> DEFINE c == [patClient[i] EXCEPT !.tAddrRemoteMedia = a, !.tMedia = k]
<1>2. k \in Keys /\ Kind(i) \in Kinds /\ \A t \in Kinds : senders[t][k] = NoSender
  BY KindType DEF FreshKeys, Held, Kinds
<1>3. patClient[i] \in Client BY DEF TypeOK, FieldTypes
<1>4. /\ c \in Client /\ c.aUUID = patClient[i].aUUID /\ c.tMedia = k
      /\ c.aName = patClient[i].aName /\ c.tAddrRemoteMedia = a
      /\ c.eState = patClient[i].eState
  BY <1>2, <1>3 DEF Client
<1>5. patClient' = [patClient EXCEPT ![i] = c]
  BY <1>1 DEF TypeOK, FieldTypes
<1>6. old \in Keys /\ old # k
  BY <1>2 DEF Agreement, SenderForEverySession, Held
<1>7. /\ senders'[Kind(i)][k] = NewSender(a)
      /\ senders'[Kind(i)][old] = NoSender
      /\ \A t \in Kinds, x \in Keys :
            ~(t = Kind(i) /\ (x = k \/ x = old)) => senders'[t][x] = senders[t][x]
  BY <1>1, <1>2, <1>6 DEF AddSender, DelSender
<1>8. /\ senders'[Kind(i)][k] # NoSender
      /\ senders'[Kind(i)][k].dst = a
      /\ ~senders'[Kind(i)][k].is_suspend
  BY <1>7, NewSenderType
<1>9. \A j \in Slots \ {i} : Session(j) =>
        /\ patClient[i].aUUID # patClient[j].aUUID
        /\ k # patClient[j].tMedia
  BY <1>2, KindType DEF Agreement, SessionsAreDistinct, SenderForEverySession, Held
<1>10. patClient[i].aUUID # NoUUID /\ (i = 0 <=> patClient[i].aName = FName)
  BY DEF Session, Agreement, FOnlyInSlotZero
<1> HIDE DEF c, old
<1>11. IsSession(c)
  BY <1>4 DEF IsSession, Session, Live
<1>12. IsSession(c) =>
         /\ c.tMedia \in Keys
         /\ senders'[Kind(i)][c.tMedia] # NoSender
         /\ senders'[Kind(i)][c.tMedia].dst = c.tAddrRemoteMedia
         /\ c.eState = "CONNECTED" => ~senders'[Kind(i)][c.tMedia].is_suspend
         /\ i = 0 <=> c.aName = FName
         /\ \A j \in Slots \ {i} : Session(j) =>
                c.aUUID # patClient[j].aUUID /\ c.tMedia # patClient[j].tMedia
  BY <1>2, <1>4, <1>8, <1>9, <1>10
<1>13. \A x \in Keys :
         Session(i) /\ x = patClient[i].tMedia /\ ~(IsSession(c) /\ x = c.tMedia)
             => senders'[Kind(i)][x] = NoSender
  BY <1>7 DEF old
<1>14. \A t \in Kinds, x \in Keys :
         ~(t = Kind(i) /\ \/ Session(i) /\ x = patClient[i].tMedia
                          \/ IsSession(c) /\ x = c.tMedia)
             => senders'[t][x] = senders[t][x]
  BY <1>4, <1>7, <1>11 DEF old
<1>15. c.aUUID = NoUUID => c.tMedia = NoKey
  BY <1>4, <1>10
<1>16. QED
  BY <1>4, <1>5, <1>12, <1>13, <1>14, <1>15, OneSlotChanges

\* A release, of a session or of a slot that new[] left looking like one.
LEMMA ReleaseAgreement ==
    ASSUME TypeOK, Agreement, NEW i \in Slots,
           NEW m \in ConnMsgs \cup NotifyMsgs \cup BareMsgs, Live(i), Release(i, m)
    PROVE  Agreement'
<1> DEFINE c == [patClient[i] EXCEPT !.eState = "NONE"]
<1>1. Kind(i) \in Kinds /\ patClient[i] \in Client
  BY KindType DEF TypeOK, FieldTypes
<1>2. c \in Client /\ ~IsSession(c) /\ c.aUUID = patClient[i].aUUID
      /\ c.tMedia = patClient[i].tMedia
  BY <1>1 DEF Client, States, IsSession
<1>3. patClient' = [patClient EXCEPT ![i] = c]
  BY DEF Release, FreeClient, TypeOK, FieldTypes
<1>4. \A t \in Kinds, x \in Keys :
        senders'[t][x] = IF t = Kind(i) /\ x = patClient[i].tMedia
                         THEN NoSender ELSE senders[t][x]
  BY DEF Release, DelSender
<1>5. ~Session(i) => patClient[i].tMedia \notin Keys
  BY SentinelAssumption DEF Agreement, ResidueHoldsNothing, Session
<1>6. c.aUUID = NoUUID => c.tMedia = NoKey
  BY <1>2 DEF Agreement, ResidueHoldsNothing
<1> HIDE DEF c
<1>7. \A x \in Keys :
        Session(i) /\ x = patClient[i].tMedia /\ ~(IsSession(c) /\ x = c.tMedia)
            => senders'[Kind(i)][x] = NoSender
  BY <1>1, <1>4
<1>8. \A t \in Kinds, x \in Keys :
        ~(t = Kind(i) /\ \/ Session(i) /\ x = patClient[i].tMedia
                         \/ IsSession(c) /\ x = c.tMedia)
            => senders'[t][x] = senders[t][x]
  BY <1>4, <1>5
<1>9. QED BY <1>2, <1>3, <1>6, <1>7, <1>8, OneSlotChanges

\* A NOTIFY: the session is CONNECTED again, and its sender not suspended.
LEMMA KeepAliveAgreement ==
    ASSUME TypeOK, Agreement, NEW i \in Slots, Session(i), KeepAlive(i)
    PROVE  Agreement'
<1> DEFINE c == ActiveClient(i)
           k == patClient[i].tMedia
<1>1. Kind(i) \in Kinds /\ patClient[i] \in Client
  BY KindType DEF TypeOK, FieldTypes
<1>2. /\ c \in Client /\ c.aUUID = patClient[i].aUUID /\ c.tMedia = k
      /\ c.aName = patClient[i].aName
      /\ c.tAddrRemoteMedia = patClient[i].tAddrRemoteMedia
      /\ c.eState = "CONNECTED" =>
            patClient[i].eState = "INACTIVE" \/ patClient[i].eState = "CONNECTED"
  BY <1>1 DEF ActiveClient, Client, States
<1>3. patClient' = [patClient EXCEPT ![i] = c]
  BY DEF KeepAlive
<1>4. /\ k \in Keys
      /\ senders[Kind(i)][k] # NoSender
      /\ senders[Kind(i)][k].dst = patClient[i].tAddrRemoteMedia
  BY DEF Agreement, SenderForEverySession, SenderOf, Held
<1>5. \A t \in Kinds, x \in Keys :
        ~(t = Kind(i) /\ x = k) => senders'[t][x] = senders[t][x]
  BY DEF KeepAlive, Suspend, TypeOK, FieldTypes, Tables
<1>6. /\ senders'[Kind(i)][k] # NoSender
      /\ senders'[Kind(i)][k].dst = patClient[i].tAddrRemoteMedia
      /\ c.eState = "CONNECTED" => ~senders'[Kind(i)][k].is_suspend
  <2>1. CASE patClient[i].eState = "INACTIVE"
    <3> DEFINE s == [dst |-> senders[Kind(i)][k].dst, is_suspend |-> FALSE]
    <3>1. senders'[Kind(i)][k] = s
      BY <1>1, <1>4, <2>1 DEF KeepAlive, Suspend
    <3>2. senders[Kind(i)][k] \in Sender
      BY <1>1, <1>4 DEF TypeOK, FieldTypes, Tables
    <3>3. s \in Sender
      BY <3>2 DEF Sender
    <3>4. s # NoSender /\ s.dst = patClient[i].tAddrRemoteMedia /\ ~s.is_suspend
      BY <1>4, <3>3, NoSenderAssumption
    <3> HIDE DEF s
    <3>5. QED BY <3>1, <3>4
  <2>2. CASE patClient[i].eState # "INACTIVE"
    <3>1. senders' = senders
      BY <2>2 DEF KeepAlive
    <3>2. c.eState = "CONNECTED" => ~senders[Kind(i)][k].is_suspend
      BY <1>2, <2>2 DEF Agreement, ConnectedIsHeard, SenderOf
    <3>3. QED BY <1>4, <3>1, <3>2
  <2>3. QED BY <2>1, <2>2
<1>7. /\ c.aUUID # NoUUID
      /\ i = 0 <=> c.aName = FName
      /\ \A j \in Slots \ {i} : Session(j) =>
             c.aUUID # patClient[j].aUUID /\ c.tMedia # patClient[j].tMedia
  BY <1>2 DEF Session, Agreement, FOnlyInSlotZero, SessionsAreDistinct
<1>8. IsSession(c)
  BY <1>1, <1>7 DEF IsSession, ActiveClient, Session, Live, Client
<1> HIDE DEF c
<1>9. IsSession(c) =>
        /\ c.tMedia \in Keys
        /\ senders'[Kind(i)][c.tMedia] # NoSender
        /\ senders'[Kind(i)][c.tMedia].dst = c.tAddrRemoteMedia
        /\ c.eState = "CONNECTED" => ~senders'[Kind(i)][c.tMedia].is_suspend
        /\ i = 0 <=> c.aName = FName
        /\ \A j \in Slots \ {i} : Session(j) =>
               c.aUUID # patClient[j].aUUID /\ c.tMedia # patClient[j].tMedia
  BY <1>2, <1>4, <1>6, <1>7
<1>10. \A x \in Keys :
         Session(i) /\ x = patClient[i].tMedia /\ ~(IsSession(c) /\ x = c.tMedia)
             => senders'[Kind(i)][x] = NoSender
  BY <1>2, <1>8
<1>11. \A t \in Kinds, x \in Keys :
         ~(t = Kind(i) /\ \/ Session(i) /\ x = patClient[i].tMedia
                          \/ IsSession(c) /\ x = c.tMedia)
             => senders'[t][x] = senders[t][x]
  BY <1>5
<1>12. QED BY <1>2, <1>3, <1>7, <1>9, <1>10, <1>11, OneSlotChanges

\* What the tick makes of a slot.
LEMMA TickOfSlot ==
    ASSUME TypeOK, Tick, NEW i \in Slots
    PROVE  /\ patClient'[i] = TickClient(i)
           /\ patClient'[i].aUUID = patClient[i].aUUID
           /\ patClient'[i].aName = patClient[i].aName
           /\ patClient'[i].tMedia = patClient[i].tMedia
           /\ patClient'[i].tAddrRemoteMedia = patClient[i].tAddrRemoteMedia
           /\ Session(i)' <=> Session(i) /\ ~GoesOffline(i)
           /\ patClient'[i].eState = "CONNECTED" =>
                 patClient[i].eState = "CONNECTED" /\ ~GoesInactive(i)
BY DEF Tick, TickClient, Session, Live, GoesOffline, GoesInactive, TypeOK, FieldTypes, Client

\* What the tick makes of the sender of a session that stays.
LEMMA TickOfSession ==
    ASSUME TypeOK, Agreement, Tick, NEW i \in Slots, Session(i)'
    PROVE  /\ SenderOf(i)' = IF GoesInactive(i)
                             THEN [dst |-> SenderOf(i).dst, is_suspend |-> TRUE]
                             ELSE SenderOf(i)
           /\ Session(i) /\ ~GoesOffline(i)
<1> USE DEF Agreement
<1>1. Session(i) /\ ~GoesOffline(i) /\ patClient'[i].tMedia = patClient[i].tMedia
  BY TickOfSlot
<1>2. /\ patClient[i].tMedia \in Keys /\ Kind(i) \in Kinds
      /\ SenderOf(i) \in Sender
  BY <1>1, KindType DEF SenderForEverySession, SenderOf, Held, TypeOK, FieldTypes, Tables
<1>3. SenderOf(i)' = TickSender(Kind(i), patClient[i].tMedia)
  BY <1>1, <1>2 DEF SenderOf, Tick
\* No other slot shares the sender of a session, so a session that stays keeps it.
<1>4. \A j \in Slots : Live(j) /\ patClient[j].tMedia = patClient[i].tMedia => j = i
  BY <1>1, <1>2, SentinelAssumption DEF SessionsAreDistinct, ResidueHoldsNothing, Session
<1>5. \A j \in Slots : (GoesOffline(j) \/ GoesInactive(j))
        /\ patClient[j].tMedia = patClient[i].tMedia => j = i
  BY <1>4 DEF GoesOffline, GoesInactive
<1>6. SenderOf(i) # NoSender
  BY <1>2, NoSenderAssumption
<1>7. QED BY <1>1, <1>3, <1>5, <1>6 DEF TickSender, SenderOf

\* The tick ends and suspends sessions, each with its own sender.
LEMMA TickAgreement ==
    ASSUME TypeOK, Agreement, Tick
    PROVE  Agreement'
<1> USE DEF Agreement
<1>1. \A i \in Slots :
        /\ patClient'[i].aUUID = patClient[i].aUUID
        /\ patClient'[i].aName = patClient[i].aName
        /\ patClient'[i].tMedia = patClient[i].tMedia
        /\ patClient'[i].tAddrRemoteMedia = patClient[i].tAddrRemoteMedia
        /\ Session(i)' <=> Session(i) /\ ~GoesOffline(i)
        /\ patClient'[i].eState = "CONNECTED" =>
              patClient[i].eState = "CONNECTED" /\ ~GoesInactive(i)
  BY TickOfSlot
<1>2. \A t \in Kinds, x \in Keys : senders'[t][x] = TickSender(t, x)
  BY DEF Tick
<1>3. \A i \in Slots : Session(i) =>
        /\ patClient[i].tMedia \in Keys /\ Kind(i) \in Kinds
        /\ SenderOf(i) \in Sender /\ SenderOf(i).dst = patClient[i].tAddrRemoteMedia
  BY KindType DEF SenderForEverySession, SenderOf, Held, TypeOK, FieldTypes, Tables
<1>4. ASSUME NEW i \in Slots, Session(i)'
      PROVE  /\ SenderOf(i)' = IF GoesInactive(i)
                               THEN [dst |-> SenderOf(i).dst, is_suspend |-> TRUE]
                               ELSE SenderOf(i)
             /\ Session(i) /\ ~GoesOffline(i)
  BY <1>4, TickOfSession
<1>5. SenderForEverySession'
  <2> SUFFICES ASSUME NEW i \in Slots, Session(i)'
               PROVE  /\ patClient'[i].tMedia \in Keys
                      /\ SenderOf(i)' # NoSender
                      /\ SenderOf(i)'.dst = patClient'[i].tAddrRemoteMedia
    BY DEF SenderForEverySession, Held, SenderOf
  <2>1. SenderOf(i)' \in Sender /\ SenderOf(i)'.dst = SenderOf(i).dst
    <3> DEFINE s == SenderOf(i)
    <3>1. s \in Sender
      BY <1>3, <1>4
    <3>2. SenderOf(i)' = IF GoesInactive(i)
                         THEN [dst |-> s.dst, is_suspend |-> TRUE] ELSE s
      BY <1>4
    <3> HIDE DEF s
    <3>3. [dst |-> s.dst, is_suspend |-> TRUE] \in Sender
      BY <3>1 DEF Sender
    <3>4. SenderOf(i)' \in Sender /\ SenderOf(i)'.dst = s.dst
      BY <3>1, <3>2, <3>3
    <3>5. QED BY <3>4 DEF s
  <2>2. QED BY <1>1, <1>3, <1>4, <2>1, NoSenderAssumption
<1>6. NoOrphanSender'
  <2> SUFFICES ASSUME NEW t \in Kinds, NEW x \in Keys, senders'[t][x] # NoSender
               PROVE  \E j \in Slots : Session(j)' /\ Kind(j) = t /\ patClient'[j].tMedia = x
    BY DEF NoOrphanSender, Held
  <2>1. /\ ~ \E j \in Slots : GoesOffline(j) /\ Kind(j) = t /\ patClient[j].tMedia = x
        /\ senders[t][x] # NoSender
    <3>1. TickSender(t, x) # NoSender BY <1>2
    <3>2. QED BY <3>1 DEF TickSender
  <2>2. PICK j \in Slots : Session(j) /\ Kind(j) = t /\ patClient[j].tMedia = x
    BY <2>1 DEF NoOrphanSender, Held
  <2>3. QED BY <1>1, <2>1, <2>2
<1>7. ConnectedIsHeard'
  BY <1>1, <1>4 DEF ConnectedIsHeard
<1>8. SessionsAreDistinct' /\ FOnlyInSlotZero' /\ ResidueHoldsNothing'
  BY <1>1 DEF SessionsAreDistinct, FOnlyInSlotZero, ResidueHoldsNothing
<1>9. QED BY <1>5, <1>6, <1>7, <1>8

\* Every step of the loop and of the clock keeps the planes in agreement.
LEMMA NextAgreement == TypeOK /\ Agreement /\ [Next]_vars => Agreement'
<1> SUFFICES ASSUME TypeOK, Agreement, [Next]_vars PROVE Agreement'
  OBVIOUS
\* Agreement speaks of slots and senders only.
<1>1. ASSUME UNCHANGED <<patClient, senders>> PROVE Agreement'
  BY <1>1
  DEF Agreement, ResidueHoldsNothing, SenderForEverySession, NoOrphanSender,
      SessionsAreDistinct, FOnlyInSlotZero, ConnectedIsHeard, Session, Live,
      SenderOf, Held
<1>2. ASSUME NEW d \in ClockSteps, Elapse(d) PROVE Agreement'
  BY <1>1, <1>2 DEF Elapse
<1>3. CASE TimerCheck
  BY <1>1, <1>3, TickAgreement DEF TimerCheck
<1>4. CASE NoMessage
  BY <1>1, <1>4 DEF NoMessage, Unchanged
<1>5. ASSUME NEW m \in ConnMsgs, ConnF(m) PROVE Agreement'
  BY <1>1, <1>5, ZeroIsASlot, OpenAgreement DEF ConnF, Unknown, Unchanged
<1>6. ASSUME NEW m \in ConnMsgs, ConnC(m) PROVE Agreement'
  BY <1>1, <1>6, ZeroIsASlot, OpenAgreement DEF ConnC, Unknown, Unchanged, FreeCSlots
\* A Call-ID that came with a request finds a session, never a dirty slot.
<1>7. ASSUME NEW u \in UUIDs, NEW i \in Slots, First(i, WithUUID(u))
      PROVE  Session(i)
  BY <1>7, SentinelAssumption DEF First, WithUUID, Session
<1>8. ASSUME NEW m \in ConnMsgs, NEW i \in Slots, ReConn(i, m) PROVE Agreement'
  <2>1. Session(i) BY <1>7, <1>8, MsgFields DEF ReConn
  <2>2. UNCHANGED <<patClient, senders>> \/ (m.media # NoAddr /\ MoveMedia(i, m.media))
    BY <1>8 DEF ReConn
  <2>3. QED BY <1>1, <2>1, <2>2, MsgFields, MoveAgreement
<1>9. ASSUME NEW m \in NotifyMsgs, NEW i \in Slots, Notify(i, m) PROVE Agreement'
  BY <1>7, <1>9, MsgFields, KeepAliveAgreement DEF Notify
<1>10. ASSUME NEW m \in BareMsgs, NEW i \in Slots, ReleaseByUUID(i, m) PROVE Agreement'
  BY <1>10, ReleaseAgreement DEF ReleaseByUUID, First, WithUUID
<1>11. ASSUME NEW m \in BareMsgs, NEW i \in Slots, ResetByName(i, m) PROVE Agreement'
  BY <1>11, ReleaseAgreement DEF ResetByName, First, WithName
<1>12. ASSUME NEW m, NotFound(m) \/ ResetMiss(m) \/ Unsupported(m) \/ AnonymousMiss(m)
       PROVE  Agreement'
  BY <1>1, <1>12 DEF NotFound, ResetMiss, Unsupported, AnonymousMiss, Unchanged
<1>13. ASSUME NEW src, NEW u, Malformed(src, u) PROVE Agreement'
  BY <1>1, <1>13 DEF Malformed, Unchanged
<1>14. CASE UNCHANGED vars
  BY <1>1, <1>14 DEF vars
<1>15. QED
  BY <1>2, <1>3, <1>4, <1>5, <1>6, <1>8, <1>9, <1>10, <1>11, <1>12, <1>13, <1>14
  DEF Next, Loop, Request, Conn, NotifyRequest, Disconn, Reset

\* The agreement of the planes is an invariant: from a dirty start, through every
\* order of requests and ticks.
THEOREM AgreementHolds == Spec => []Agreement
<1>1. Spec => [](TypeOK /\ Agreement)
  BY InitType, NextType, InitAgreement, NextAgreement, PTL DEF Spec
<1>2. QED BY <1>1, PTL

\* Through every order of logins, media changes, resets and ticks a session
\* keeps its sender, and the sender transmits to the address the session holds.
THEOREM SessionsAreServed == Spec => []SenderForEverySession
<1>1. Agreement => SenderForEverySession BY DEF Agreement
<1>2. QED BY <1>1, AgreementHolds, PTL

\* Whatever ends or moves a session erases the sender it had: the data plane is
\* never left transmitting to a client that has gone.
THEOREM SendersAreOwned == Spec => []NoOrphanSender
<1>1. Agreement => NoOrphanSender BY DEF Agreement
<1>2. QED BY <1>1, AgreementHolds, PTL

\* No two sessions share a Call-ID or a sender, so the first match of every
\* lookup is the only one.
THEOREM LookupsAreUnique == Spec => []SessionsAreDistinct
<1>1. Agreement => SessionsAreDistinct BY DEF Agreement
<1>2. QED BY <1>1, AgreementHolds, PTL

\* The classification of clients by name and their dispatch by slot never
\* disagree.
THEOREM DispatchIsConsistent == Spec => []FOnlyInSlotZero
<1>1. Agreement => FOnlyInSlotZero BY DEF Agreement
<1>2. QED BY <1>1, AgreementHolds, PTL

\* No session is CONNECTED with its sender suspended, whichever of tick, NOTIFY
\* and re-sent CONN came last.
THEOREM ConnectedSessionsAreHeard == Spec => []ConnectedIsHeard
<1>1. Agreement => ConnectedIsHeard BY DEF Agreement
<1>2. QED BY <1>1, AgreementHolds, PTL
-----------------------------------------------------------------------------
(***************************************************************************)
(* Single requests: what the reply says is so, nobody's session ends       *)
(* without one, and no request touches another client.  This rests on the  *)
(* agreement of the planes.                                                *)
(***************************************************************************)
-----------------------------------------------------------------------------
(***************************************************************************)
(* The reply to a CONN.                                                    *)
(***************************************************************************)
LEMMA HandlesAdvertises ==
    ASSUME TypeOK, Agreement, Agreement', Handles
    PROVE  AdvertisedPortIsServed'
<1> SUFFICES ASSUME sent' # NoReply, sent'.port # NoKey
             PROVE  \E i \in Slots :
                        /\ Session(i)' /\ patClient'[i].aUUID = sent'.callid
                        /\ patClient'[i].tMedia = sent'.port
    BY DEF AdvertisedPortIsServed, Agreement, SenderForEverySession
<1>1. ASSUME NEW i \in Slots, NEW m \in ConnMsgs, Opens(i, m)
      PROVE  /\ Session(i)' /\ patClient'[i].aUUID = sent'.callid
             /\ patClient'[i].tMedia = sent'.port
  <2>1. CASE m.media = NoAddr
    BY <1>1, <2>1, MgrReplyHasNoPort DEF Opens, OpenSession, Answer
  <2>2. CASE m.media # NoAddr
    <3>1. PICK k \in FreshKeys(senders) :
            /\ patClient' = [patClient EXCEPT ![i] =
                  [InitClient(m) EXCEPT !.eState = "CONNECTED",
                                        !.tAddrRemoteMedia = m.media,
                                        !.tMedia = k]]
            /\ sent' = Reply(m.src, 200, m.callid, k, NoBody)
      BY <1>1, <2>2 DEF Opens, OpenSession, Answer
    <3>2. /\ patClient'[i].eState = "CONNECTED" /\ patClient'[i].aUUID = m.callid
          /\ patClient'[i].tMedia = k
      BY <3>1 DEF InitClient, TypeOK, FieldTypes
    <3>3. m.callid # NoUUID BY MsgFields, SentinelAssumption
    <3>4. sent'.callid = m.callid /\ sent'.port = k BY <3>1 DEF Reply
    <3>5. QED BY <3>2, <3>3, <3>4 DEF Session, Live
  <2>3. QED BY <2>1, <2>2
<1>2. ASSUME NEW i \in Slots, NEW m \in ConnMsgs, Session(i), ReConn(i, m)
      PROVE  /\ Session(i)' /\ patClient'[i].aUUID = sent'.callid
             /\ patClient'[i].tMedia = sent'.port
  <2>1. patClient[i].aUUID = m.callid BY <1>2 DEF ReConn, First, WithUUID
  <2>2. /\ patClient'[i].eState = patClient[i].eState
        /\ patClient'[i].aUUID = patClient[i].aUUID
    <3>1. UNCHANGED patClient \/ MoveMedia(i, m.media) BY <1>2 DEF ReConn
    <3>2. QED BY <3>1 DEF MoveMedia, TypeOK, FieldTypes, Client
  <2>3. Session(i)' BY <1>2, <2>2 DEF Session, Live
  <2>4. sent'.callid = m.callid /\ sent'.port = patClient'[i].tMedia
    BY <1>2, MgrReplyHasNoPort DEF ReConn, Answer, Reply
  <2>5. QED BY <2>1, <2>2, <2>3, <2>4
<1>3. ASSUME NEW i \in Slots, NEW m \in NotifyMsgs, Notify(i, m) PROVE FALSE
  BY <1>3, MgrReplyHasNoPort DEF Notify, Answer, Reply
<1>4. ASSUME NEW i \in Slots, NEW m \in BareMsgs, Release(i, m) PROVE FALSE
  BY <1>4, MgrReplyHasNoPort DEF Release, Answer
<1>5. QED BY <1>1, <1>2, <1>3, <1>4 DEF Handles, Ignores

\* The port that the 200 of a CONN advertises (control_plane.cpp:516-667) is that of
\* a sender which is there, and belongs to the session the reply is about.
THEOREM AdvertisedPortsAreServed == Spec => []AdvertisedPortIsServed
<1>1. Init => AdvertisedPortIsServed BY DEF Init, AdvertisedPortIsServed
<1>2. TypeOK /\ Agreement /\ Agreement' /\ AdvertisedPortIsServed /\ [Next]_vars
        => AdvertisedPortIsServed'
  <2> SUFFICES ASSUME TypeOK, Agreement, Agreement', AdvertisedPortIsServed, [Next]_vars
               PROVE  AdvertisedPortIsServed'
    OBVIOUS
  <2>1. CASE UNCHANGED vars
    BY <2>1 DEF vars, AdvertisedPortIsServed, Session, Live, Held
  <2>2. CASE sent' = NoReply BY <2>2 DEF AdvertisedPortIsServed
  <2>3. CASE Handles BY <2>3, HandlesAdvertises
  <2>4. QED BY <2>1, <2>2, <2>3, StepIs DEF TimerCheck
<1>3. QED BY <1>1, <1>2, TypeCorrect, AgreementHolds, PTL DEF Spec

-----------------------------------------------------------------------------
(***************************************************************************)
(* What a request does to the others.                                      *)
(***************************************************************************)

\* What a handler of slot i leaves alone: the slots of the others, and their senders.
Spares(i) ==
    \A j \in Slots \ {i} :
        /\ UNCHANGED <<patClient[j], sinceKA[j]>>
        /\ Session(j) => SenderOf(j)' = SenderOf(j)

\* The sender that a slot erases is no other session's.
LEMMA ErasesItsOwn ==
    ASSUME TypeOK, Agreement, NEW i \in Slots, NEW j \in Slots \ {i}, Live(i), Session(j)
    PROVE  patClient[i].tMedia # patClient[j].tMedia
<1>1. CASE Session(i) BY <1>1 DEF Agreement, SessionsAreDistinct
<1>2. CASE ~Session(i)
  <2>1. patClient[i].tMedia = NoKey
    BY <1>2 DEF Session, Agreement, ResidueHoldsNothing
  <2>2. patClient[j].tMedia \in Keys BY DEF Agreement, SenderForEverySession, Held
  <2>3. QED BY <2>1, <2>2, SentinelAssumption
<1>3. QED BY <1>1, <1>2

\* A handler writes one slot, and in the maps only what is that slot's or nobody's.
LEMMA HandlerSpares ==
    ASSUME TypeOK, Agreement, NEW i \in Slots,
           \/ \E m \in ConnMsgs : Opens(i, m) \/ (Session(i) /\ ReConn(i, m))
           \/ \E m \in NotifyMsgs : Session(i) /\ Notify(i, m)
           \/ \E m \in BareMsgs : Live(i) /\ Release(i, m)
    PROVE  Spares(i)
<1> SUFFICES ASSUME NEW j \in Slots \ {i}
             PROVE  /\ UNCHANGED <<patClient[j], sinceKA[j]>>
                    /\ Session(j) => SenderOf(j)' = SenderOf(j)
  BY DEF Spares
<1> DEFINE Spared == /\ UNCHANGED <<patClient[j], sinceKA[j]>>
                     /\ Session(j) => SenderOf(j)' = SenderOf(j)
<1>1. Session(j) => /\ Kind(j) \in Kinds
                    /\ patClient[j].tMedia \in Held(senders, Kind(j))
                    /\ patClient[j].tMedia \in Keys
  BY KindType DEF Agreement, SenderForEverySession, Held
<1>2. Live(i) /\ Session(j) => patClient[i].tMedia # patClient[j].tMedia
  BY ErasesItsOwn
<1>3. ASSUME NEW m \in ConnMsgs, Opens(i, m)
      PROVE  Spared
  <2>1. UNCHANGED <<patClient[j], sinceKA[j]>>
    BY <1>3 DEF Opens, OpenSession, TypeOK, FieldTypes
  <2>2. ASSUME Session(j) PROVE SenderOf(j)' = SenderOf(j)
    <3>1. \/ senders' = senders
          \/ \E k \in FreshKeys(senders) : senders' = AddSender(senders, Kind(i), k, m.media)
      BY <1>3 DEF Opens, OpenSession
    <3>2. patClient[j].tMedia \notin FreshKeys(senders)
      BY <1>1, <2>2 DEF FreshKeys, Kind
    <3>3. QED BY <1>1, <2>1, <2>2, <3>1, <3>2 DEF SenderOf, AddSender
  <2>3. QED BY <2>1, <2>2
<1>4. ASSUME NEW m \in ConnMsgs, Session(i), ReConn(i, m)
      PROVE  Spared
  <2>1. CASE UNCHANGED <<patClient, senders>>
    BY <1>4, <2>1 DEF ReConn, SenderOf
  <2>2. CASE MoveMedia(i, m.media)
    <3>1. PICK k \in FreshKeys(senders) :
            /\ patClient' = [patClient EXCEPT ![i].tAddrRemoteMedia = m.media, ![i].tMedia = k]
            /\ senders' = AddSender(DelSender(senders, Kind(i), patClient[i].tMedia),
                                    Kind(i), k, m.media)
      BY <2>2 DEF MoveMedia
    <3>2. UNCHANGED <<patClient[j], sinceKA[j]>>
      BY <1>4, <3>1 DEF ReConn, TypeOK, FieldTypes
    <3>3. ASSUME Session(j) PROVE SenderOf(j)' = SenderOf(j)
      <4>1. patClient[j].tMedia # k BY <1>1, <3>1, <3>3 DEF FreshKeys, Kind
      <4>2. patClient[j].tMedia # patClient[i].tMedia BY <1>2, <1>4, <3>3 DEF Session
      <4>3. QED BY <1>1, <3>1, <3>2, <3>3, <4>1, <4>2 DEF SenderOf, AddSender, DelSender
    <3>4. QED BY <3>2, <3>3
  <2>3. QED BY <1>4, <2>1, <2>2 DEF ReConn
<1>5. ASSUME NEW m \in NotifyMsgs, Session(i), Notify(i, m)
      PROVE  Spared
  <2>1. UNCHANGED <<patClient[j], sinceKA[j]>>
    BY <1>5 DEF Notify, KeepAlive, TypeOK, FieldTypes
  <2>2. ASSUME Session(j) PROVE SenderOf(j)' = SenderOf(j)
    <3>1. \/ senders' = senders
          \/ senders' = Suspend(senders, Kind(i), patClient[i].tMedia, FALSE)
      BY <1>5 DEF Notify, KeepAlive
    <3>2. patClient[j].tMedia # patClient[i].tMedia BY <1>2, <1>5, <2>2 DEF Session
    <3>3. QED BY <1>1, <2>1, <2>2, <3>1, <3>2 DEF SenderOf, Suspend
  <2>3. QED BY <2>1, <2>2
<1>6. ASSUME NEW m \in BareMsgs, Live(i), Release(i, m)
      PROVE  Spared
  <2>1. UNCHANGED <<patClient[j], sinceKA[j]>>
    BY <1>6 DEF Release, FreeClient, TypeOK, FieldTypes
  <2>2. ASSUME Session(j) PROVE SenderOf(j)' = SenderOf(j)
    <3>1. patClient[j].tMedia # patClient[i].tMedia BY <1>2, <1>6, <2>2
    <3>2. QED BY <1>1, <1>6, <2>1, <2>2, <3>1 DEF Release, SenderOf, DelSender
  <2>3. QED BY <2>1, <2>2
<1>7. QED BY <1>3, <1>4, <1>5, <1>6

\* A datagram touches one client: the handlers (control_plane.cpp:516-860) leave
\* every other session its slot, its age and its sender.
THEOREM RequestsTouchOneClient == Spec => RequestTouchesOneClient
<1>1. TypeOK /\ Agreement /\ [Next]_vars
        => [phase = "recv" /\ phase' = "check" =>
              \E i \in Slots : \A j \in Slots \ {i} :
                 /\ UNCHANGED <<patClient[j], sinceKA[j]>>
                 /\ Session(j) => SenderOf(j)' = SenderOf(j)]_vars
  <2> SUFFICES ASSUME TypeOK, Agreement, Handles PROVE \E i \in Slots : Spares(i)
    BY StepIs DEF TimerCheck, Spares
  <2>1. ASSUME UNCHANGED <<patClient, sinceKA, senders>> PROVE Spares(0)
    BY <2>1 DEF Spares, SenderOf
  <2>2. QED BY <2>1, HandlerSpares, ZeroIsASlot DEF Handles, Ignores, Unchanged
<1>2. QED BY <1>1, TypeCorrect, AgreementHolds, PTL DEF Spec, RequestTouchesOneClient

\* A session ends outside the tick only with a 200 to the address it came from
\* (control_plane.cpp:669-697).
THEOREM ReleasesAreAcknowledged == Spec => ReleaseIsAcknowledged
<1>1. TypeOK /\ [Next]_vars
        => [phase = "recv" =>
              \A i \in Slots : Session(i) /\ ~Live(i)' =>
                 \E u \in UUIDs : sent' = MgrReply(patClient[i].tAddrRemoteSignal, 200, u)]_vars
  <2> SUFFICES ASSUME TypeOK, [Next]_vars, phase = "recv", NEW s \in Slots, Session(s), ~Live(s)'
               PROVE  \E u \in UUIDs : sent' = MgrReply(patClient[s].tAddrRemoteSignal, 200, u)
    OBVIOUS
  <2>1. patClient'[s] # patClient[s] BY DEF Session, Live
  <2>2. Handles BY <2>1, StepIs DEF TimerCheck, vars
  <2>3. ASSUME NEW i \in Slots, NEW m \in ConnMsgs, Opens(i, m) PROVE FALSE
    BY <2>1, <2>3 DEF Opens, OpenSession, TypeOK, FieldTypes, Session
  <2>4. ASSUME NEW i \in Slots, NEW m \in ConnMsgs, ReConn(i, m) PROVE FALSE
    <3>1. UNCHANGED patClient \/ MoveMedia(i, m.media) BY <2>4 DEF ReConn
    <3>2. patClient'[s].eState = patClient[s].eState
      BY <3>1 DEF MoveMedia, TypeOK, FieldTypes, Client
    <3>3. QED BY <3>2 DEF Session, Live
  <2>5. ASSUME NEW i \in Slots, NEW m \in NotifyMsgs, Notify(i, m) PROVE FALSE
    <3>1. patClient' = [patClient EXCEPT ![i] = ActiveClient(i)] BY <2>5 DEF Notify, KeepAlive
    <3>2. ActiveClient(i).eState = IF patClient[i].eState = "INACTIVE" THEN "CONNECTED"
                                                                      ELSE patClient[i].eState
      BY DEF ActiveClient, TypeOK, FieldTypes, Client
    <3>3. QED BY <3>1, <3>2 DEF Session, Live, TypeOK, FieldTypes
  <2>6. ASSUME NEW i \in Slots, NEW m \in BareMsgs, Release(i, m)
        PROVE  \E u \in UUIDs : sent' = MgrReply(patClient[s].tAddrRemoteSignal, 200, u)
    <3>1. s = i BY <2>1, <2>6 DEF Release, FreeClient, TypeOK, FieldTypes
    <3>2. m.callid \in UUIDs BY MsgFields
    <3>3. QED BY <2>6, <3>1, <3>2 DEF Release, Answer
  <2>7. QED BY <2>1, <2>2, <2>3, <2>4, <2>5, <2>6 DEF Handles, Ignores, Unchanged
<1>2. QED BY <1>1, TypeCorrect, PTL DEF Spec, ReleaseIsAcknowledged

-----------------------------------------------------------------------------
(***************************************************************************)
(* The answer to a listener-list.                                          *)
(***************************************************************************)
\* The place of a listener in the list is within the list and the range of indexes.
LEMMA PlaceInTheList ==
    ASSUME NEW i \in LiveC
    PROVE  /\ Cardinality({j \in LiveC : j <= i}) \in 1 .. Cardinality(LiveC)
           /\ Cardinality(LiveC) \in Nat /\ Cardinality(LiveC) <= MaxClients - 1
<1> DEFINE upto == {j \in LiveC : j <= i}
<1>1. IsFiniteSet(CSlots) /\ Cardinality(CSlots) = MaxClients - 1
  BY FS_Interval, SlotsAssumption DEF CSlots
<1>2. LiveC \subseteq CSlots BY DEF LiveC
<1>3. /\ IsFiniteSet(LiveC) /\ Cardinality(LiveC) \in Nat
      /\ Cardinality(LiveC) <= MaxClients - 1
  BY <1>1, <1>2, FS_Subset, FS_CardinalityType
<1>4. IsFiniteSet(upto) /\ Cardinality(upto) \in Nat /\ Cardinality(upto) <= Cardinality(LiveC)
  <2>1. upto \subseteq LiveC OBVIOUS
  <2>2. QED BY <1>3, <2>1, FS_Subset, FS_CardinalityType
<1>5. Cardinality(upto) # 0
  <2>1. i \in upto BY <1>2 DEF CSlots
  <2>2. QED BY <1>4, <2>1, FS_EmptySet
<1>6. QED BY <1>3, <1>4, <1>5

\* Indexes 1, 2, ... up to the total show every listener (control_plane.cpp:785-830):
\* the range check leaves every place in the list as it is, in a full house too.
THEOREM ListenersAreListed == Spec => []EveryListenerIsListed
<1>1. EveryListenerIsListed
  <2> SUFFICES ASSUME NEW i \in LiveC
               PROVE  \E k \in 1 .. Cardinality(LiveC) : ListenerAt(InRange(k), i)
    BY DEF EveryListenerIsListed
  <2> DEFINE k == Cardinality({j \in LiveC : j <= i})
  <2>1. /\ k \in 1 .. Cardinality(LiveC)
        /\ Cardinality(LiveC) \in Nat /\ Cardinality(LiveC) <= MaxClients - 1
    BY PlaceInTheList
  <2>2. InRange(k) = k BY <2>1, SlotsAssumption DEF InRange
  <2>3. ListenerAt(k, i) BY DEF ListenerAt
  <2>4. QED BY <2>1, <2>2, <2>3
<1>2. QED BY <1>1, PTL
=============================================================================
