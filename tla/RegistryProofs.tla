---------------------------- MODULE RegistryProofs ----------------------------
(***************************************************************************)
(* The signalling server implements SessionRegistry, for every number of   *)
(* slots, keys, Call-IDs, names and addresses.                             *)
(*                                                                         *)
(* Shows says what the mapping makes of a state in which the planes agree: *)
(* each session is the entry of its Call-ID, and there are no others.  A   *)
(* handler then changes one entry (OneEntryChanges), and a tick those of   *)
(* the sessions that it ends or suspends.                                  *)
(***************************************************************************)
EXTENDS RegistryRefinement, ControlPlaneProofs

Entry(i) == [kind |-> Kind(i), dst |-> SenderOf(i).dst, paused |-> SenderOf(i).is_suspend]

Entries == [kind : Kinds, dst : Addr, paused : BOOLEAN]

\* What Resume and Sweep write of an entry, and what Move writes.
LEMMA PausedEntry ==
    ASSUME NEW r \in Entries, NEW b
    PROVE  [r EXCEPT !.paused = b] = [kind |-> r.kind, dst |-> r.dst, paused |-> b]
BY DEF Entries

LEMMA MovedEntry ==
    ASSUME NEW r \in Entries, NEW a, NEW b
    PROVE  [[r EXCEPT !.dst = a] EXCEPT !.paused = b]
             = [kind |-> r.kind, dst |-> a, paused |-> b]
<1> DEFINE s == [r EXCEPT !.dst = a]
<1>1. s = [kind |-> r.kind, dst |-> a, paused |-> r.paused]
  BY DEF Entries
<1> HIDE DEF s
<1>2. [s EXCEPT !.paused = b] = [kind |-> r.kind, dst |-> a, paused |-> b]
  BY <1>1
<1>3. QED BY <1>2 DEF s

Shows ==
    /\ \A i \in Slots : Session(i) =>
          /\ patClient[i].aUUID \in UUIDs
          /\ Registered[patClient[i].aUUID] = Entry(i)
          /\ Entry(i) \in Entries
    /\ \A u \in UUIDs :
          (\A i \in Slots : Session(i) => patClient[i].aUUID # u) => Registered[u] = NoAddr

\* What the registry shows of a state in which the planes agree.
LEMMA RegistryShows == TypeOK /\ Agreement => Shows
<1> SUFFICES ASSUME TypeOK, Agreement PROVE Shows OBVIOUS
<1>1. ASSUME NEW i \in Slots, Session(i)
      PROVE  /\ patClient[i].aUUID \in UUIDs
             /\ Registered[patClient[i].aUUID] = Entry(i)
             /\ Entry(i) \in Entries
  <2>1. patClient[i].aUUID \in UUIDs BY <1>1 DEF Session, TypeOK, FieldTypes, Client
  <2>2. Holder(patClient[i].aUUID) = {i}
    BY <1>1 DEF Holder, Agreement, SessionsAreDistinct
  <2>3. (CHOOSE j \in Holder(patClient[i].aUUID) : TRUE) = i BY <2>2
  <2>4. patClient[i].tMedia \in Held(senders, Kind(i))
    BY <1>1 DEF Agreement, SenderForEverySession
  <2>5. Served(i) = SenderOf(i) BY <2>4 DEF Served
  <2>6. Registered[patClient[i].aUUID] = Entry(i)
    BY <2>1, <2>2, <2>3, <2>5 DEF Registered, Entry
  <2>7. SenderOf(i) \in Sender /\ Kind(i) \in Kinds
    BY <2>4, KindType DEF SenderOf, Held, TypeOK, FieldTypes, Tables
  <2>8. Entry(i) \in Entries BY <2>7 DEF Entry, Entries, Sender
  <2>9. QED BY <2>1, <2>6, <2>8
<1>2. ASSUME NEW u \in UUIDs, \A i \in Slots : Session(i) => patClient[i].aUUID # u
      PROVE  Registered[u] = NoAddr
  BY <1>2 DEF Registered, Holder
<1>3. QED BY <1>1, <1>2 DEF Shows

\* And of the next one.
LEMMA RegistryShowsNext == TypeOK' /\ Agreement' => Shows'
BY RegistryShows, PTL

\* Two registries are the same if they show the same of every Call-ID.
LEMMA SameRegistry ==
    ASSUME NEW r, r = [u \in UUIDs |-> r[u]], \A u \in UUIDs : Registered'[u] = r[u]
    PROVE  Registered' = r
<1>1. Registered' = [u \in UUIDs |-> Registered'[u]] BY DEF Registered
<1>2. QED BY <1>1

\* The planes agree before and after a step.
Agreed == TypeOK /\ Agreement /\ Shows /\ Agreement' /\ Shows'

\* A handler of slot i changes the entry of its Call-ID, and no other.
LEMMA OneEntryChanges ==
    ASSUME Agreed, NEW i \in Slots, NEW u \in UUIDs, Spares(i),
           Session(i) => patClient[i].aUUID = u,
           Session(i)' => patClient'[i].aUUID = u,
           \A j \in Slots \ {i} : Session(j) => patClient[j].aUUID # u
    PROVE  /\ Session(i)' => Registered' = [Registered EXCEPT ![u] = Entry(i)']
           /\ ~Session(i)' => Registered' = [Registered EXCEPT ![u] = NoAddr]
<1>1. \A j \in Slots \ {i} : patClient'[j] = patClient[j] /\ (Session(j)' <=> Session(j))
  BY DEF Spares, Session, Live
<1>2. \A j \in Slots \ {i} : Session(j) => Entry(j)' = Entry(j)
  BY DEF Spares, Entry
<1>3. Registered = [w \in UUIDs |-> Registered[w]] BY DEF Registered
<1>4. ASSUME NEW w \in UUIDs \ {u} PROVE Registered'[w] = Registered[w]
  <2>1. ASSUME NEW j \in Slots, Session(j), patClient[j].aUUID = w
        PROVE  Registered'[w] = Registered[w]
    <3>1. j # i BY <2>1, <1>4
    <3>2. Session(j)' /\ patClient'[j].aUUID = w BY <1>1, <2>1, <3>1
    <3>3. Registered[w] = Entry(j) BY <2>1 DEF Agreed, Shows
    <3>4. Registered'[w] = Entry(j)' BY <3>2 DEF Agreed, Shows
    <3>5. QED BY <1>2, <2>1, <3>1, <3>3, <3>4
  <2>2. ASSUME \A j \in Slots : Session(j) => patClient[j].aUUID # w
        PROVE  Registered'[w] = Registered[w]
    <3>1. \A j \in Slots : Session(j)' => patClient'[j].aUUID # w BY <1>1, <1>4, <2>2
    <3>2. Registered[w] = NoAddr BY <2>2 DEF Agreed, Shows
    <3>3. Registered'[w] = NoAddr BY <3>1 DEF Agreed, Shows
    <3>4. QED BY <3>2, <3>3
  <2>3. QED BY <2>1, <2>2
<1>5. Session(i)' => Registered'[u] = Entry(i)' BY DEF Agreed, Shows
<1>6. ~Session(i)' => Registered'[u] = NoAddr
  <2>1. SUFFICES ASSUME ~Session(i)' PROVE Registered'[u] = NoAddr OBVIOUS
  <2>2. \A j \in Slots : Session(j)' => patClient'[j].aUUID # u BY <1>1, <2>1
  <2>3. QED BY <2>2 DEF Agreed, Shows
<1>7. ASSUME NEW v, Registered'[u] = v PROVE Registered' = [Registered EXCEPT ![u] = v]
  <2> DEFINE r == [Registered EXCEPT ![u] = v]
  <2>1. r = [w \in UUIDs |-> IF w = u THEN v ELSE Registered[w]] BY <1>3
  <2>2. \A w \in UUIDs : Registered'[w] = r[w] BY <1>4, <1>7, <2>1
  <2>3. r = [w \in UUIDs |-> r[w]] BY <2>1
  <2> HIDE DEF r
  <2>4. Registered' = r BY <2>2, <2>3, SameRegistry
  <2>5. QED BY <2>4 DEF r
<1>8. QED BY <1>5, <1>6, <1>7

\* A slot that holds no session before and after shows nothing.
LEMMA NoEntryChanges ==
    ASSUME Agreed, NEW i \in Slots, Spares(i), ~Session(i), ~Session(i)'
    PROVE  Registered' = Registered
<1>1. \A j \in Slots \ {i} : patClient'[j] = patClient[j] /\ (Session(j)' <=> Session(j))
  BY DEF Spares, Session, Live
<1>2. \A j \in Slots \ {i} : Session(j) => Entry(j)' = Entry(j)
  BY DEF Spares, Entry
<1>3. Registered = [w \in UUIDs |-> Registered[w]] BY DEF Registered
<1>4. ASSUME NEW w \in UUIDs PROVE Registered'[w] = Registered[w]
  <2>1. ASSUME NEW j \in Slots, Session(j), patClient[j].aUUID = w
        PROVE  Registered'[w] = Registered[w]
    <3>1. j # i BY <2>1
    <3>2. Session(j)' /\ patClient'[j].aUUID = w BY <1>1, <2>1, <3>1
    <3>3. Registered[w] = Entry(j) BY <2>1 DEF Agreed, Shows
    <3>4. Registered'[w] = Entry(j)' BY <3>2 DEF Agreed, Shows
    <3>5. QED BY <1>2, <2>1, <3>1, <3>3, <3>4
  <2>2. ASSUME \A j \in Slots : Session(j) => patClient[j].aUUID # w
        PROVE  Registered'[w] = Registered[w]
    <3>1. \A j \in Slots : Session(j)' => patClient'[j].aUUID # w BY <1>1, <2>2
    <3>2. Registered[w] = NoAddr BY <2>2 DEF Agreed, Shows
    <3>3. Registered'[w] = NoAddr BY <3>1 DEF Agreed, Shows
    <3>4. QED BY <3>2, <3>3
  <2>3. QED BY <2>1, <2>2
<1>5. QED BY <1>3, <1>4, SameRegistry

\* A step that leaves slots and maps alone is not seen.
LEMMA UnseenStep ==
    ASSUME UNCHANGED <<patClient, senders>> PROVE Registered' = Registered
BY DEF Registered, Holder, Session, Live, Served, SenderOf, Held

\* The module that promises and the one that keeps count alike.
LEMMA SameCardinality == \A S : Registry!Cardinality(S) = Cardinality(S)
BY Zenon DEF Registry!Cardinality, Cardinality

-----------------------------------------------------------------------------
(***************************************************************************)
(* The steps, one by one.                                                  *)
(***************************************************************************)

\* A CONN of a new client, when there is a slot: Login.
LEMMA OpensRefines ==
    ASSUME Agreed, NEW i \in Slots, NEW m \in ConnMsgs, Opens(i, m)
    PROVE  [Registry!RegNext]_Registered
<1> DEFINE u == m.callid
<1>1. /\ Spares(i) /\ u \in UUIDs /\ u # NoUUID /\ ~Session(i)
      /\ \A j \in Slots : Session(j) => patClient[j].aUUID # u
  <2>1. Spares(i) BY HandlerSpares DEF Agreed
  <2>2. u \in UUIDs BY MsgFields
  <2>3. \A j \in Slots : Live(j) => patClient[j].aUUID # u BY DEF Opens, Missed, WithUUID
  <2>4. QED BY <2>1, <2>2, <2>3, SentinelAssumption DEF Session, Opens
<1>2. CASE m.media = NoAddr
  <2>1. patClient' = [patClient EXCEPT ![i] = InitClient(m)]
    BY <1>2 DEF Opens, OpenSession
  <2>2. ~Session(i)' BY <2>1 DEF Session, Live, InitClient, Agreed, TypeOK, FieldTypes
  <2>3. Registered' = Registered BY <1>1, <2>2, NoEntryChanges
  <2>4. QED BY <2>3
<1>3. CASE m.media # NoAddr
  <2>1. PICK k \in FreshKeys(senders) :
          /\ patClient' = [patClient EXCEPT ![i] =
                [InitClient(m) EXCEPT !.eState = "CONNECTED",
                                      !.tAddrRemoteMedia = m.media,
                                      !.tMedia = k]]
          /\ senders' = AddSender(senders, Kind(i), k, m.media)
    BY <1>3 DEF Opens, OpenSession
  <2>2. k \in Keys /\ m.media \in Addr /\ Kind(i) \in Kinds
    BY <1>3, MsgFields, KindType DEF FreshKeys
  <2>3. /\ patClient'[i].eState = "CONNECTED" /\ patClient'[i].aUUID = u
        /\ patClient'[i].tMedia = k
    BY <2>1 DEF InitClient, Agreed, TypeOK, FieldTypes
  <2>4. Session(i)' BY <1>1, <2>3 DEF Session, Live
  <2>5. SenderOf(i)' = NewSender(m.media)
    BY <2>1, <2>2, <2>3 DEF SenderOf, AddSender
  <2>6. Entry(i)' = [kind |-> Kind(i), dst |-> m.media, paused |-> FALSE]
    BY <2>2, <2>5, NewSenderType DEF Entry
  <2>7. Registered' = [Registered EXCEPT ![u] = Entry(i)']
    BY <1>1, <2>3, <2>4, OneEntryChanges
  <2>8. Registered[u] = NoAddr BY <1>1 DEF Agreed, Shows
  <2>9. ~Live(i) BY DEF Opens
  <2>10. Kind(i) = "F" => Registry!Open("F") = {}
    <3> SUFFICES ASSUME i = 0, NEW w \in UUIDs, Registered[w] # NoAddr, Registered[w].kind = "F"
                 PROVE  FALSE
      BY DEF Kind, Registry!Open
    <3>1. PICK j \in Slots : Session(j) /\ patClient[j].aUUID = w BY DEF Agreed, Shows
    <3>2. Registered[w] = Entry(j) BY <3>1 DEF Agreed, Shows
    <3>3. Kind(j) = "F" BY <3>2 DEF Entry
    <3>4. j = 0 BY <3>3 DEF Kind
    <3>5. QED BY <1>1, <3>1, <3>4
  <2>11. Kind(i) = "C" => Cardinality(Registry!Open("C")) < MaxClients - 1
    <3> SUFFICES ASSUME i \in CSlots PROVE Cardinality(Registry!Open("C")) < MaxClients - 1
      BY SlotsAssumption DEF Kind, Slots, CSlots
    <3> DEFINE Os == Registry!Open("C")
               Free == CSlots \ {i}
               f == [w \in Os |-> CHOOSE j \in Free : Session(j) /\ patClient[j].aUUID = w]
    <3>1. ASSUME NEW w \in Os PROVE \E j \in Free : Session(j) /\ patClient[j].aUUID = w
      <4>1. w \in UUIDs /\ Registered[w] # NoAddr /\ Registered[w].kind = "C"
        BY DEF Registry!Open
      <4>2. PICK j \in Slots : Session(j) /\ patClient[j].aUUID = w BY <4>1 DEF Agreed, Shows
      <4>3. Registered[w] = Entry(j) BY <4>2 DEF Agreed, Shows
      <4>4. Kind(j) = "C" BY <4>1, <4>3 DEF Entry
      <4>5. j \in CSlots BY <4>4, SlotsAssumption DEF Kind, Slots, CSlots
      <4>6. QED BY <1>1, <4>2, <4>5
    <3>2. \A w \in Os : f[w] \in Free /\ patClient[f[w]].aUUID = w BY <3>1
    <3>3. f \in [Os -> Free] BY <3>2
    <3>4. \A v, w \in Os : f[v] = f[w] => v = w BY <3>2
    <3> HIDE DEF f, Os, Free
    <3>5. f \in Injection(Os, Free) BY <3>3, <3>4 DEF Injection, IsInjective
    <3>6. IsFiniteSet(CSlots) /\ Cardinality(CSlots) = MaxClients - 1
      BY FS_Interval, SlotsAssumption DEF CSlots
    <3>7. IsFiniteSet(Free) /\ Cardinality(Free) = MaxClients - 2
      BY <3>6, FS_RemoveElement, SlotsAssumption DEF Free
    <3>8. IsFiniteSet(Os) /\ Cardinality(Os) <= Cardinality(Free)
      BY <3>5, <3>7, FS_Injection
    <3>9. Cardinality(Os) \in Nat BY <3>8, FS_CardinalityType
    <3>10. QED BY <3>7, <3>8, <3>9, SlotsAssumption DEF Os
  <2>12. Registry!Login(u, Kind(i), m.media)
    BY <2>6, <2>7, <2>8, <2>10, <2>11, SameCardinality DEF Registry!Login
  <2>13. QED BY <1>1, <2>2, <2>12 DEF Registry!RegNext, Kinds
<1>4. QED BY <1>2, <1>3

\* A CONN sent again: nothing, or Move.
LEMMA ReConnRefines ==
    ASSUME Agreed, NEW i \in Slots, NEW m \in ConnMsgs, Session(i), ReConn(i, m)
    PROVE  [Registry!RegNext]_Registered
<1>1. CASE UNCHANGED <<patClient, senders>> BY <1>1, UnseenStep
<1>2. CASE m.media # NoAddr /\ MoveMedia(i, m.media)
  <2> DEFINE u == patClient[i].aUUID
             a == m.media
  <2>1. PICK k \in FreshKeys(senders) :
          /\ patClient' = [patClient EXCEPT ![i].tAddrRemoteMedia = a, ![i].tMedia = k]
          /\ senders' = AddSender(DelSender(senders, Kind(i), patClient[i].tMedia), Kind(i), k, a)
    BY <1>2 DEF MoveMedia
  <2>2. k \in Keys /\ a \in Addr /\ Kind(i) \in Kinds /\ u \in UUIDs
    BY <1>2, MsgFields, KindType DEF FreshKeys, Agreed, Shows
  <2>3. /\ patClient'[i].eState = patClient[i].eState /\ patClient'[i].aUUID = u
        /\ patClient'[i].tMedia = k
    BY <2>1 DEF Agreed, TypeOK, FieldTypes, Client
  <2>4. Session(i)' BY <2>3 DEF Session, Live
  <2>5. SenderOf(i)' = NewSender(a) BY <2>1, <2>2, <2>3 DEF SenderOf, AddSender
  <2>6. Entry(i)' = [kind |-> Kind(i), dst |-> a, paused |-> FALSE]
    BY <2>2, <2>5, NewSenderType DEF Entry
  <2>7. Spares(i) BY HandlerSpares DEF Agreed
  <2>8. \A j \in Slots \ {i} : Session(j) => patClient[j].aUUID # u
    BY DEF Agreed, Agreement, SessionsAreDistinct
  <2>9. Registered' = [Registered EXCEPT ![u] = Entry(i)']
    BY <2>2, <2>3, <2>4, <2>7, <2>8, OneEntryChanges
  <2>10. Registered[u] = Entry(i) /\ Entry(i) \in Entries BY DEF Agreed, Shows
  <2>11. Registered[u] # NoAddr BY <2>10, AbsentAssumption DEF Entries
  <2>12. Registered' = [Registered EXCEPT ![u].dst = a, ![u].paused = FALSE]
    <3>1. [[Registered[u] EXCEPT !.dst = a] EXCEPT !.paused = FALSE] = Entry(i)'
      <4>1. Registered[u] \in Entries /\ Registered[u].kind = Kind(i)
        BY <2>10 DEF Entry
      <4> HIDE DEF u, a
      <4>2. [[Registered[u] EXCEPT !.dst = a] EXCEPT !.paused = FALSE]
              = [kind |-> Registered[u].kind, dst |-> a, paused |-> FALSE]
        BY <4>1, MovedEntry
      <4>3. QED BY <2>6, <4>1, <4>2
    <3>2. Registered = [w \in UUIDs |-> Registered[w]] BY DEF Registered
    <3> HIDE DEF u, a
    <3>3. [Registered EXCEPT ![u].dst = a, ![u].paused = FALSE]
            = [Registered EXCEPT ![u] = [[Registered[u] EXCEPT !.dst = a] EXCEPT !.paused = FALSE]]
      BY <2>2, <3>2
    <3>4. QED BY <2>9, <3>1, <3>3
  <2>13. Registry!Move(u, a) BY <2>11, <2>12 DEF Registry!Move
  <2>14. QED BY <2>2, <2>13 DEF Registry!RegNext
<1>3. QED BY <1>1, <1>2 DEF ReConn

\* A NOTIFY: nothing, or Resume.
LEMMA NotifyRefines ==
    ASSUME Agreed, NEW i \in Slots, NEW m \in NotifyMsgs, Session(i), Notify(i, m)
    PROVE  [Registry!RegNext]_Registered
<1> DEFINE u == patClient[i].aUUID
           k == patClient[i].tMedia
<1>1. /\ patClient' = [patClient EXCEPT ![i] = ActiveClient(i)]
      /\ senders' = IF patClient[i].eState = "INACTIVE"
                    THEN Suspend(senders, Kind(i), k, FALSE) ELSE senders
  BY DEF Notify, KeepAlive
<1>2. /\ patClient'[i].aUUID = u /\ patClient'[i].tMedia = k
      /\ patClient'[i].eState = IF patClient[i].eState = "INACTIVE" THEN "CONNECTED"
                                                                  ELSE patClient[i].eState
  BY <1>1 DEF ActiveClient, Agreed, TypeOK, FieldTypes, Client
<1>3. Session(i)' BY <1>2 DEF Session, Live
<1>4. Spares(i) BY HandlerSpares DEF Agreed
<1>5. \A j \in Slots \ {i} : Session(j) => patClient[j].aUUID # u
  BY DEF Agreed, Agreement, SessionsAreDistinct
<1>6. u \in UUIDs /\ Registered[u] = Entry(i) /\ Entry(i) \in Entries BY DEF Agreed, Shows
<1>7. Registered' = [Registered EXCEPT ![u] = Entry(i)']
  BY <1>2, <1>3, <1>4, <1>5, <1>6, OneEntryChanges
<1>8. Registered = [w \in UUIDs |-> Registered[w]] BY DEF Registered
<1>9. k \in Keys /\ Kind(i) \in Kinds /\ senders[Kind(i)][k] # NoSender
  BY KindType DEF Agreed, Agreement, SenderForEverySession, Held
<1>10. CASE patClient[i].eState = "INACTIVE"
  <2>1. SenderOf(i)' = [dst |-> SenderOf(i).dst, is_suspend |-> FALSE]
    BY <1>1, <1>2, <1>9, <1>10 DEF SenderOf, Suspend
  <2>2. Entry(i)' = [Entry(i) EXCEPT !.paused = FALSE]
    <3>1. Kind(i)' = Kind(i) BY DEF Kind
    <3>2. Entry(i)' = [kind |-> Kind(i), dst |-> SenderOf(i).dst, paused |-> FALSE]
      BY <2>1, <3>1 DEF Entry
    <3>3. Entry(i).kind = Kind(i) /\ Entry(i).dst = SenderOf(i).dst BY DEF Entry
    <3>4. [Entry(i) EXCEPT !.paused = FALSE]
            = [kind |-> Entry(i).kind, dst |-> Entry(i).dst, paused |-> FALSE]
      BY <1>6, PausedEntry
    <3>5. QED BY <3>2, <3>3, <3>4
  <2>3. Registered' = [Registered EXCEPT ![u].paused = FALSE]
    BY <1>6, <1>7, <1>8, <2>2
  <2>4. Registered[u] # NoAddr BY <1>6, AbsentAssumption DEF Entries
  <2>5. Registry!Resume(u) BY <2>3, <2>4 DEF Registry!Resume
  <2>6. QED BY <1>6, <2>5 DEF Registry!RegNext
<1>11. CASE patClient[i].eState # "INACTIVE"
  <2>1. SenderOf(i)' = SenderOf(i) BY <1>1, <1>2, <1>11 DEF SenderOf
  <2>2. Entry(i)' = Entry(i) BY <2>1 DEF Entry
  <2>3. Registered' = Registered BY <1>6, <1>7, <1>8, <2>2
  <2>4. QED BY <2>3
<1>12. QED BY <1>10, <1>11

\* A release of a session is Logout, that of a dirty slot nothing.
LEMMA ReleaseRefines ==
    ASSUME Agreed, NEW i \in Slots, NEW m \in BareMsgs, Live(i), Release(i, m)
    PROVE  [Registry!RegNext]_Registered
<1>1. Spares(i) BY HandlerSpares DEF Agreed
<1>2. ~Session(i)' BY DEF Release, FreeClient, Session, Live, Agreed, TypeOK, FieldTypes, Client
<1>3. CASE Session(i)
  <2> DEFINE u == patClient[i].aUUID
  <2>1. u \in UUIDs /\ Registered[u] = Entry(i) /\ Entry(i) \in Entries
    BY <1>3 DEF Agreed, Shows
  <2>2. \A j \in Slots \ {i} : Session(j) => patClient[j].aUUID # u
    BY <1>3 DEF Agreed, Agreement, SessionsAreDistinct
  <2>3. Registered' = [Registered EXCEPT ![u] = NoAddr]
    BY <1>1, <1>2, <2>1, <2>2, OneEntryChanges
  <2>4. Registered[u] # NoAddr BY <2>1, AbsentAssumption DEF Entries
  <2>5. Registry!Logout(u) BY <2>3, <2>4 DEF Registry!Logout
  <2>6. QED BY <2>1, <2>5 DEF Registry!RegNext
<1>4. CASE ~Session(i) BY <1>1, <1>2, <1>4, NoEntryChanges
<1>5. QED BY <1>3, <1>4

\* A tick: Sweep.
LEMMA TickRefines ==
    ASSUME Agreed, Tick
    PROVE  Registry!RegNext
<1> DEFINE gone == {u \in UUIDs : \E i \in Slots :
                       Session(i) /\ patClient[i].aUUID = u /\ GoesOffline(i)}
           quiet == {u \in UUIDs : \E i \in Slots :
                       Session(i) /\ patClient[i].aUUID = u /\ GoesInactive(i)}
           swept == [u \in UUIDs |->
                       IF u \in gone \/ Registered[u] = NoAddr THEN NoAddr
                       ELSE IF u \in quiet THEN [Registered[u] EXCEPT !.paused = TRUE]
                       ELSE Registered[u]]
<1>1. ASSUME NEW u \in UUIDs PROVE Registered'[u] = swept[u]
  <2>1. ASSUME NEW i \in Slots, Session(i), patClient[i].aUUID = u
        PROVE  Registered'[u] = swept[u]
    <3>1. /\ Registered[u] = Entry(i) /\ Entry(i) \in Entries /\ Registered[u] # NoAddr
      BY <2>1, AbsentAssumption DEF Agreed, Shows, Entries
    <3>2. \A j \in Slots : Session(j) /\ patClient[j].aUUID = u => j = i
      BY <2>1 DEF Agreed, Agreement, SessionsAreDistinct
    <3>3. (u \in gone <=> GoesOffline(i)) /\ (u \in quiet <=> GoesInactive(i))
      BY <2>1, <3>2
    <3>4. \A j \in Slots : patClient'[j].aUUID = patClient[j].aUUID
            /\ (Session(j)' <=> Session(j) /\ ~GoesOffline(j))
      BY TickOfSlot DEF Agreed
    <3>5. CASE GoesOffline(i)
      <4>1. \A j \in Slots : Session(j)' => patClient'[j].aUUID # u
        BY <3>2, <3>4, <3>5
      <4>2. Registered'[u] = NoAddr BY <4>1 DEF Agreed, Shows
      <4>3. QED BY <3>3, <3>5, <4>2
    <3>6. CASE ~GoesOffline(i)
      <4>1. Session(i)' /\ patClient'[i].aUUID = u BY <2>1, <3>4, <3>6
      <4>2. Registered'[u] = Entry(i)' BY <4>1 DEF Agreed, Shows
      <4>3. SenderOf(i)' = IF GoesInactive(i)
                           THEN [dst |-> SenderOf(i).dst, is_suspend |-> TRUE] ELSE SenderOf(i)
        BY <4>1, TickOfSession DEF Agreed
      <4>4. Entry(i)' = IF GoesInactive(i) THEN [Entry(i) EXCEPT !.paused = TRUE] ELSE Entry(i)
        <5>1. Kind(i)' = Kind(i) BY DEF Kind
        <5>2. Entry(i).kind = Kind(i) /\ Entry(i).dst = SenderOf(i).dst BY DEF Entry
        <5>3. [Entry(i) EXCEPT !.paused = TRUE]
                = [kind |-> Entry(i).kind, dst |-> Entry(i).dst, paused |-> TRUE]
          BY <3>1, PausedEntry
        <5>4. CASE GoesInactive(i)
          <6>1. SenderOf(i)' = [dst |-> SenderOf(i).dst, is_suspend |-> TRUE] BY <4>3, <5>4
          <6>2. Entry(i)' = [kind |-> Kind(i), dst |-> SenderOf(i).dst, paused |-> TRUE]
            BY <5>1, <6>1 DEF Entry
          <6>3. QED BY <5>2, <5>3, <5>4, <6>2
        <5>5. CASE ~GoesInactive(i)
          <6>1. SenderOf(i)' = SenderOf(i) BY <4>3, <5>5
          <6>2. QED BY <5>1, <5>5, <6>1 DEF Entry
        <5>6. QED BY <5>4, <5>5
      <4>5. QED BY <3>1, <3>3, <3>6, <4>2, <4>4
    <3>7. QED BY <3>5, <3>6
  <2>2. ASSUME \A i \in Slots : Session(i) => patClient[i].aUUID # u
        PROVE  Registered'[u] = swept[u]
    <3>1. Registered[u] = NoAddr BY <2>2 DEF Agreed, Shows
    <3>2. \A j \in Slots : Session(j)' => patClient'[j].aUUID # u
      BY <2>2, TickOfSlot DEF Agreed
    <3>3. Registered'[u] = NoAddr BY <3>2 DEF Agreed, Shows
    <3>4. QED BY <3>1, <3>3
  <2>3. QED BY <2>1, <2>2
<1>2. swept = [u \in UUIDs |-> swept[u]] OBVIOUS
<1>3. gone \in SUBSET UUIDs /\ quiet \in SUBSET UUIDs OBVIOUS
<1>4. Registered' = swept
  <2> HIDE DEF swept
  <2>1. QED BY <1>1, <1>2, SameRegistry
<1>5. Registry!Sweep(gone, quiet) BY <1>4 DEF Registry!Sweep
<1>6. QED
  <2> HIDE DEF gone, quiet
  <2>1. QED BY <1>3, <1>5 DEF Registry!RegNext

LEMMA NextRefines ==
    ASSUME Agreed, [Next]_vars
    PROVE  [Registry!RegNext]_Registered
<1>1. CASE UNCHANGED <<patClient, senders>> BY <1>1, UnseenStep
<1>2. CASE TimerCheck BY <1>1, <1>2, TickRefines DEF TimerCheck
<1>3. CASE Handles
  BY <1>1, <1>3, OpensRefines, ReConnRefines, NotifyRefines, ReleaseRefines
  DEF Handles, Ignores, Unchanged
<1>4. QED BY <1>1, <1>2, <1>3, StepIs DEF vars

\* The signalling server implements the registry: all its handlers and the tick, seen
\* through the senders they leave in the data plane.
THEOREM ServerImplementsRegistry == Spec => ImplementsRegistry
<1>1. Init => Registry!RegInit
  <2>1. Init => \A i \in Slots : ~Session(i) BY DEF Init, Session, Blank
  <2>2. QED BY <2>1 DEF Registry!RegInit, Registered, Holder
<1>2. Agreed /\ [Next]_vars => [Registry!RegNext]_Registered BY NextRefines
<1>3. [](TypeOK /\ Agreement) => [](TypeOK /\ Agreement /\ Shows)
  BY RegistryShows, PTL
<1>4. TypeOK /\ Agreement /\ Shows /\ Agreement' /\ Shows' => Agreed BY DEF Agreed
<1>5. QED
  BY <1>1, <1>2, <1>3, <1>4, TypeCorrect, AgreementHolds, PTL
  DEF Spec, ImplementsRegistry, Registry!RegSpec
=============================================================================
