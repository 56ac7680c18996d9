--------------------------- MODULE DataPlaneProofs ---------------------------
(***************************************************************************)
(* Proofs about DataPlane, for any set of keys and addresses: what the     *)
(* lock is worth, and that iterators dangle only after an erasure.         *)
(*                                                                         *)
(* The invariant has two parts beside the types.  Lock adds to the two     *)
(* properties of the lock that the switch thread is in its second unlock   *)
(* without a lock only after it once read nothing.  Walks says on which    *)
(* node each worker stands while it walks.                                 *)
(***************************************************************************)
EXTENDS DataPlane, TLAPS

HintIn == pcH \in {"checkF", "checkC", "next"}
SwitchIn == pcS \in {"check", "forward", "next"}

Lock ==
    /\ lock => pcM = "in" \/ HintIn \/ SwitchIn
    /\ pcS = "idle" => idled
    /\ ~idled =>
        /\ pcM = "in" => lock /\ ~HintIn /\ ~SwitchIn
        /\ HintIn => lock /\ pcM # "in" /\ ~SwitchIn
        /\ SwitchIn => lock /\ pcM # "in" /\ ~HintIn

HintStands == pcH \in {"play", "playing", "relock", "next"}
SwitchStands == pcS \in {"read", "relock", "forward", "next", "idle"}

Walks ==
    ~erased =>
        /\ HintStands => Valid(tH, itH)
        /\ SwitchStands => Valid("F", itS)
        /\ ~wild

-----------------------------------------------------------------------------
(***************************************************************************)
(* The calls on the maps.                                                  *)
(***************************************************************************)

\* The calls on the maps keep them maps of senders.
LEMMA AddType ==
  ASSUME NEW tab \in Tables, NEW t \in Kinds, NEW k, NEW a \in Addr
  PROVE  AddSender(tab, t, k, a) \in Tables
BY DEF AddSender, NewSender, Tables, Sender, Addr

\* Erasing keeps them so.
LEMMA DelType ==
  ASSUME NEW tab \in Tables, NEW t \in Kinds, NEW k
  PROVE  DelSender(tab, t, k) \in Tables
BY DEF DelSender, Tables

\* And so does suspending or resuming.
LEMMA SuspendType ==
  ASSUME NEW tab \in Tables, NEW t \in Kinds, NEW k, NEW b \in BOOLEAN
  PROVE  Suspend(tab, t, k, b) \in Tables
BY DEF Suspend, Tables, Sender, Addr

\* The maps the data plane starts with.
LEMMA EmptyTablesType == EmptyTables \in Tables
BY DEF EmptyTables, Tables

\* Adding a sender takes none away.
LEMMA AddHolds ==
  ASSUME NEW tab \in Tables, NEW t \in Kinds, NEW k, NEW a \in Addr, NEW u \in Kinds
  PROVE  Held(tab, u) \subseteq Held(AddSender(tab, t, k, a), u)
<1>1. NewSender(a) # NoSender
  <2>1. NewSender(a) \in Sender BY DEF NewSender, Sender
  <2>2. QED BY <2>1, NoSenderAssumption DEF NewSender
<1>2. QED BY <1>1 DEF Held, AddSender

\* Suspending and resuming add and remove no sender.
LEMMA SuspendHolds ==
  ASSUME NEW tab \in Tables, NEW t \in Kinds, NEW k, NEW b \in BOOLEAN, NEW u \in Kinds
  PROVE  Held(Suspend(tab, t, k, b), u) = Held(tab, u)
<1>1. \A s \in Sender : [dst |-> s.dst, is_suspend |-> b] # NoSender
  BY NoSenderAssumption DEF Sender
<1>2. ASSUME NEW x \in Keys
      PROVE  Suspend(tab, t, k, b)[u][x] = NoSender <=> tab[u][x] = NoSender
  <2>1. tab[u][x] \in Sender \cup {NoSender} BY DEF Tables
  <2>2. Suspend(tab, t, k, b)[u][x] =
          IF u = t /\ x = k /\ tab[u][x] # NoSender
          THEN [dst |-> tab[u][x].dst, is_suspend |-> b] ELSE tab[u][x]
    BY DEF Suspend
  <2>3. QED BY <1>1, <2>1, <2>2
<1>3. QED BY <1>2 DEF Held

-----------------------------------------------------------------------------
(***************************************************************************)
(* What the lock is worth.                                                 *)
(***************************************************************************)

\* Lock says the two properties of the lock thread by thread.
LEMMA LockMeans == Lock => LockIsNotLeaked /\ OnlyIdleReadsBreakTheLock
<1>1. /\ Holds("main") <=> pcM = "in"
      /\ Holds("hint") <=> HintIn
      /\ Holds("switch") <=> SwitchIn
  BY DEF Holds, HintIn, SwitchIn
<1>2. Lock => LockIsNotLeaked BY <1>1 DEF Lock, LockIsNotLeaked, Threads
<1>3. Lock => OnlyIdleReadsBreakTheLock
  BY <1>1 DEF Lock, OnlyIdleReadsBreakTheLock, Threads
<1>4. QED BY <1>2, <1>3

LEMMA InitLock == Init => Lock
BY DEF Init, Lock, HintIn, SwitchIn

LEMMA MainKeepsLock == ASSUME Lock, Main PROVE Lock'
<1> USE DEF Lock, HintIn, SwitchIn, hintVars, switchVars, history
<1>1. ASSUME NEW cs, Begin(cs) PROVE Lock' BY <1>1 DEF Begin
<1>2. CASE MainLock BY <1>2 DEF MainLock, Acquire
<1>3. CASE MainCall BY <1>3 DEF MainCall, Unlock
<1>4. QED BY <1>1, <1>2, <1>3 DEF Main, Login, Move, Leave, Pause

LEMMA HintKeepsLock == ASSUME Lock, HintThread PROVE Lock'
<1> USE DEF Lock, HintIn, SwitchIn, Hint, mainVars, hintVars, switchVars, history
<1>1. CASE HintLock BY <1>1 DEF HintLock, Acquire
<1>2. CASE HintWalk("F", "checkF", "C") BY <1>2 DEF HintWalk, Unlock
<1>3. CASE HintWalk("C", "checkC", "F") BY <1>3 DEF HintWalk, Unlock
<1>4. CASE HintSkipF BY <1>4 DEF HintSkipF
<1>5. CASE HintSkipC BY <1>5 DEF HintSkipC, Unlock
<1>6. CASE HintSleep BY <1>6 DEF HintSleep
<1>7. CASE HintStart BY <1>7 DEF HintStart
<1>8. CASE HintPacket BY <1>8 DEF HintPacket
<1>9. CASE HintDone BY <1>9 DEF HintDone
<1>10. CASE HintRelock BY <1>10 DEF HintRelock, Acquire
<1>11. CASE HintAdvance BY <1>11 DEF HintAdvance, Unlock
<1>12. CASE HintDangling BY <1>12 DEF HintDangling, GoWild
<1>13. QED
  BY <1>1, <1>2, <1>3, <1>4, <1>5, <1>6, <1>7, <1>8, <1>9, <1>10, <1>11, <1>12 DEF HintThread

LEMMA SwitchKeepsLock == ASSUME Lock, SwitchThread PROVE Lock'
<1> USE DEF Lock, HintIn, SwitchIn, Switch, mainVars, hintVars, switchVars, history
<1>1. CASE SwitchLock BY <1>1 DEF SwitchLock, Acquire
<1>2. CASE SwitchWalk BY <1>2 DEF SwitchWalk, Unlock
<1>3. CASE SwitchSkip BY <1>3 DEF SwitchSkip, Unlock
<1>4. CASE SwitchRead BY <1>4 DEF SwitchRead
<1>5. CASE SwitchIdle BY <1>5 DEF SwitchIdle
<1>6. CASE SwitchRelock BY <1>6 DEF SwitchRelock, Acquire
<1>7. CASE SwitchForward BY <1>7 DEF SwitchForward
<1>8. CASE SwitchAdvance BY <1>8 DEF SwitchAdvance, Unlock
<1>9. CASE SwitchDangling BY <1>9 DEF SwitchDangling, GoWild
<1>10. QED
  BY <1>1, <1>2, <1>3, <1>4, <1>5, <1>6, <1>7, <1>8, <1>9 DEF SwitchThread

LEMMA NextLock == Lock /\ [Next]_vars => Lock'
<1> SUFFICES ASSUME Lock, [Next]_vars PROVE Lock' OBVIOUS
<1>1. CASE Main BY <1>1, MainKeepsLock
<1>2. CASE HintThread BY <1>2, HintKeepsLock
<1>3. CASE SwitchThread BY <1>3, SwitchKeepsLock
<1>4. CASE UNCHANGED vars
  BY <1>4 DEF Lock, HintIn, SwitchIn, vars, mainVars, hintVars, switchVars, history
<1>5. QED BY <1>1, <1>2, <1>3, <1>4 DEF Next

-----------------------------------------------------------------------------
(***************************************************************************)
(* Type correctness.                                                       *)
(***************************************************************************)

\* A key of a map is a key, and an iterator moves on to one or to the end.
LEMMA HeldAreKeys ==
  /\ \A tab, t : Held(tab, t) \subseteq Keys
  /\ \A t, k, n : IsNext(t, k, n) => n \in Held(senders, t) \cup {End}
BY DEF Held, IsNext

\* What a sender in a map is.
LEMMA HeldAreSenders ==
  ASSUME TypeOK, NEW t \in Kinds, NEW k \in Held(senders, t)
  PROVE  senders[t][k] \in Sender /\ senders[t][k].dst \in Addr
BY DEF TypeOK, Tables, Held, Sender

\* The calls of a handler, of which there is one at least.
LEMMA HeadOfCalls ==
  ASSUME TypeOK, pcM = "in"
  PROVE  /\ Head(calls) \in Calls /\ Tail(calls) \in Seq(Calls)
BY DEF TypeOK

\* What a call does to the maps.
LEMMA PerformType ==
  ASSUME TypeOK, NEW c \in Calls, Perform(c)
  PROVE  /\ senders' \in Tables /\ erased' \in BOOLEAN
         /\ erased => erased'
         /\ ~erased' => \A t \in Kinds : Held(senders, t) \subseteq Held(senders', t)
<1>1. senders \in Tables /\ erased \in BOOLEAN BY DEF TypeOK
<1>2. CASE c.op = "add"
  <2>1. c.kind \in Kinds /\ c.dst \in Addr BY <1>2 DEF Calls
  <2>2. PICK k \in NewKeys : senders' = AddSender(senders, c.kind, k, c.dst)
    BY <1>2 DEF Perform
  <2>3. UNCHANGED erased BY <1>2 DEF Perform
  <2>4. QED BY <1>1, <2>1, <2>2, <2>3, AddType, AddHolds
<1>3. CASE c.op = "del"
  <2>1. c.kind \in Kinds BY <1>3 DEF Calls
  <2>2. senders' = DelSender(senders, c.kind, c.key) /\ erased' = TRUE
    BY <1>3 DEF Perform
  <2>3. QED BY <1>1, <2>1, <2>2, DelType
<1>4. CASE c.op = "suspend"
  <2>1. c.kind \in Kinds /\ c.on \in BOOLEAN BY <1>4 DEF Calls
  <2>2. senders' = Suspend(senders, c.kind, c.key, c.on) /\ UNCHANGED erased
    BY <1>4 DEF Perform
  <2>3. QED BY <1>1, <2>1, <2>2, SuspendType, SuspendHolds
<1>5. QED BY <1>2, <1>3, <1>4 DEF Perform

LEMMA InitType == Init => TypeOK
<1> SUFFICES ASSUME Init PROVE TypeOK OBVIOUS
<1>1. senders \in Tables BY EmptyTablesType DEF Init
<1>2. calls \in Seq(Calls) BY DEF Init
<1>3. tH \in Kinds BY DEF Init, Kinds
<1>4. QED BY <1>1, <1>2, <1>3 DEF Init, TypeOK

LEMMA BeginKeepsType ==
  ASSUME TypeOK, NEW cs \in Seq(Calls), cs # <<>>, Begin(cs)
  PROVE  TypeOK'
BY DEF TypeOK, Begin, hintVars, switchVars, history

LEMMA MainKeepsType == ASSUME TypeOK, Main PROVE TypeOK'
<1>1. ASSUME NEW t \in Kinds, NEW a \in Addr, Login(t, a) PROVE TypeOK'
  <2>1. AddCall(t, a) \in Calls BY DEF AddCall, Calls
  <2>2. <<AddCall(t, a)>> \in Seq(Calls) /\ <<AddCall(t, a)>> # <<>> BY <2>1
  <2>3. QED BY <1>1, <2>2, BeginKeepsType DEF Login
<1>2. ASSUME NEW t \in Kinds, NEW k \in Held(senders, t), NEW a \in Addr, Move(t, k, a)
      PROVE  TypeOK'
  <2>1. DelCall(t, k) \in Calls /\ AddCall(t, a) \in Calls
    BY HeldAreKeys DEF AddCall, DelCall, Calls
  <2>2. /\ <<DelCall(t, k), AddCall(t, a)>> \in Seq(Calls)
        /\ <<DelCall(t, k), AddCall(t, a)>> # <<>>
    BY <2>1
  <2>3. QED BY <1>2, <2>2, BeginKeepsType DEF Move
<1>3. ASSUME NEW t \in Kinds, NEW k \in Held(senders, t), Leave(t, k) PROVE TypeOK'
  <2>1. DelCall(t, k) \in Calls BY HeldAreKeys DEF DelCall, Calls
  <2>2. <<DelCall(t, k)>> \in Seq(Calls) /\ <<DelCall(t, k)>> # <<>> BY <2>1
  <2>3. QED BY <1>3, <2>2, BeginKeepsType DEF Leave
<1>4. ASSUME NEW t \in Kinds, NEW k \in Held(senders, t), NEW b \in BOOLEAN, Pause(t, k, b)
      PROVE  TypeOK'
  <2>1. SuspendCall(t, k, b) \in Calls BY HeldAreKeys DEF SuspendCall, Calls
  <2>2. <<SuspendCall(t, k, b)>> \in Seq(Calls) /\ <<SuspendCall(t, k, b)>> # <<>> BY <2>1
  <2>3. QED BY <1>4, <2>2, BeginKeepsType DEF Pause
<1>5. CASE MainLock
  BY <1>5 DEF MainLock, Acquire, TypeOK, hintVars, switchVars, history
<1>6. CASE MainCall
  <2>1. Head(calls) \in Calls /\ calls' \in Seq(Calls) /\ Perform(Head(calls))
    BY <1>6, HeadOfCalls DEF MainCall
  <2>2. senders' \in Tables /\ erased' \in BOOLEAN BY <2>1, PerformType
  <2>3. pcM' \in {"idle", "lock", "in"} /\ (pcM' # "idle" => calls' # <<>>)
    BY <1>6 DEF MainCall
  <2>4. lock' \in BOOLEAN /\ out' = {} /\ UNCHANGED <<hintVars, switchVars, wild, idled>>
    BY <1>6 DEF MainCall, Unlock
  <2>5. QED BY <2>1, <2>2, <2>3, <2>4 DEF TypeOK, hintVars, switchVars
<1>7. QED BY <1>1, <1>2, <1>3, <1>4, <1>5, <1>6 DEF Main

LEMMA HintKeepsType == ASSUME TypeOK, HintThread PROVE TypeOK'
<1> USE DEF TypeOK, Hint, mainVars, hintVars, switchVars, history
<1>1. CASE HintLock BY <1>1 DEF HintLock, Acquire
<1>2. CASE HintWalk("F", "checkF", "C") BY <1>2 DEF HintWalk, Unlock, Kinds
<1>3. CASE HintWalk("C", "checkC", "F") BY <1>3 DEF HintWalk, Unlock, Kinds
<1>4. CASE HintSkipF BY <1>4 DEF HintSkipF
<1>5. CASE HintSkipC BY <1>5 DEF HintSkipC, Unlock
<1>6. CASE HintSleep BY <1>6 DEF HintSleep
<1>7. CASE HintStart BY <1>7 DEF HintStart
<1>8. CASE HintPacket
  <2>1. itH \in Keys /\ itH \in Held(senders, tH) BY <1>8, HeldAreKeys DEF HintPacket, Valid
  <2>2. HintDst(tH, itH) \in Addr \cup {AnyDst} BY <2>1, HeldAreSenders DEF HintDst
  <2>3. \A p \in out' : p \in [kind : Kinds, key : Keys, dst : Addr \cup {AnyDst}]
    BY <1>8, <2>1, <2>2 DEF HintPacket
  <2>4. QED BY <1>8, <2>3 DEF HintPacket
<1>9. CASE HintDone BY <1>9 DEF HintDone
<1>10. CASE HintRelock BY <1>10 DEF HintRelock, Acquire
<1>11. CASE HintAdvance BY <1>11 DEF HintAdvance, Unlock
<1>12. CASE HintDangling BY <1>12 DEF HintDangling, GoWild
<1>13. QED
  BY <1>1, <1>2, <1>3, <1>4, <1>5, <1>6, <1>7, <1>8, <1>9, <1>10, <1>11, <1>12 DEF HintThread

LEMMA SwitchKeepsType == ASSUME TypeOK, SwitchThread PROVE TypeOK'
<1> USE DEF TypeOK, Switch, mainVars, hintVars, switchVars, history
<1>1. CASE SwitchLock BY <1>1 DEF SwitchLock, Acquire
<1>2. CASE SwitchWalk BY <1>2 DEF SwitchWalk, Unlock
<1>3. CASE SwitchSkip BY <1>3 DEF SwitchSkip, Unlock
<1>4. CASE SwitchRead BY <1>4 DEF SwitchRead
<1>5. CASE SwitchIdle BY <1>5 DEF SwitchIdle
<1>6. CASE SwitchRelock BY <1>6 DEF SwitchRelock, Acquire
<1>7. CASE SwitchForward
  <2>1. \A k \in Held(senders, "C") : k \in Keys /\ senders["C"][k].dst \in Addr
    BY HeldAreKeys, HeldAreSenders DEF Kinds
  <2>2. \A p \in out' : p \in [kind : Kinds, key : Keys, dst : Addr \cup {AnyDst}]
    BY <1>7, <2>1 DEF SwitchForward, Kinds
  <2>3. QED BY <1>7, <2>2 DEF SwitchForward
<1>8. CASE SwitchAdvance BY <1>8 DEF SwitchAdvance, Unlock
<1>9. CASE SwitchDangling BY <1>9 DEF SwitchDangling, GoWild
<1>10. QED
  BY <1>1, <1>2, <1>3, <1>4, <1>5, <1>6, <1>7, <1>8, <1>9 DEF SwitchThread

LEMMA NextType == TypeOK /\ [Next]_vars => TypeOK'
<1> SUFFICES ASSUME TypeOK, [Next]_vars PROVE TypeOK' OBVIOUS
<1>1. CASE Main BY <1>1, MainKeepsType
<1>2. CASE HintThread BY <1>2, HintKeepsType
<1>3. CASE SwitchThread BY <1>3, SwitchKeepsType
<1>4. CASE UNCHANGED vars
  BY <1>4 DEF TypeOK, vars, mainVars, hintVars, switchVars, history
<1>5. QED BY <1>1, <1>2, <1>3, <1>4 DEF Next

-----------------------------------------------------------------------------
(***************************************************************************)
(* What the workers stand on.                                              *)
(***************************************************************************)
LEMMA WalksMeans == Walks => OnlyErasuresDangle
BY DEF Walks, OnlyErasuresDangle

LEMMA InitWalks == Init => Walks
BY DEF Init, Walks, HintStands, SwitchStands

LEMMA MainKeepsWalks == ASSUME TypeOK, Walks, Main PROVE Walks'
<1> USE DEF Walks, HintStands, SwitchStands, Valid, hintVars, switchVars, history
<1>1. ASSUME NEW cs, Begin(cs) PROVE Walks' BY <1>1 DEF Begin
<1>2. CASE MainLock BY <1>2 DEF MainLock
<1>3. CASE MainCall
  <2>1. Head(calls) \in Calls /\ Perform(Head(calls)) BY <1>3, HeadOfCalls DEF MainCall
  <2>2. UNCHANGED <<hintVars, switchVars, wild>> BY <1>3 DEF MainCall
  <2>3. SUFFICES ASSUME ~erased' PROVE Walks' OBVIOUS
  <2>4. ~erased /\ \A t \in Kinds : Held(senders, t) \subseteq Held(senders', t)
    BY <2>1, <2>3, PerformType
  <2>5. tH \in Kinds /\ "F" \in Kinds BY DEF TypeOK, Kinds
  <2>6. QED BY <2>2, <2>4, <2>5
<1>4. QED BY <1>1, <1>2, <1>3 DEF Main, Login, Move, Leave, Pause

LEMMA HintKeepsWalks == ASSUME Walks, HintThread PROVE Walks'
<1> USE DEF Walks, HintStands, SwitchStands, Valid, Hint, switchVars, history
<1>1. CASE HintLock BY <1>1 DEF HintLock
<1>2. CASE HintWalk("F", "checkF", "C") BY <1>2 DEF HintWalk, IsFirst
<1>3. CASE HintWalk("C", "checkC", "F") BY <1>3 DEF HintWalk, IsFirst
<1>4. CASE HintSkipF BY <1>4 DEF HintSkipF
<1>5. CASE HintSkipC BY <1>5 DEF HintSkipC
<1>6. CASE HintSleep BY <1>6 DEF HintSleep
<1>7. CASE HintStart BY <1>7 DEF HintStart
<1>8. CASE HintPacket BY <1>8 DEF HintPacket
<1>9. CASE HintDone BY <1>9 DEF HintDone
<1>10. CASE HintRelock BY <1>10 DEF HintRelock
<1>11. CASE HintAdvance BY <1>11, HeldAreKeys DEF HintAdvance
<1>12. CASE HintDangling BY <1>12 DEF HintDangling, GoWild
<1>13. QED
  BY <1>1, <1>2, <1>3, <1>4, <1>5, <1>6, <1>7, <1>8, <1>9, <1>10, <1>11, <1>12 DEF HintThread

LEMMA SwitchKeepsWalks == ASSUME Walks, SwitchThread PROVE Walks'
<1> USE DEF Walks, HintStands, SwitchStands, Valid, Switch, hintVars, history
<1>1. CASE SwitchLock BY <1>1 DEF SwitchLock
<1>2. CASE SwitchWalk BY <1>2 DEF SwitchWalk, IsFirst
<1>3. CASE SwitchSkip BY <1>3 DEF SwitchSkip
<1>4. CASE SwitchRead BY <1>4 DEF SwitchRead
<1>5. CASE SwitchIdle BY <1>5 DEF SwitchIdle
<1>6. CASE SwitchRelock BY <1>6 DEF SwitchRelock
<1>7. CASE SwitchForward BY <1>7 DEF SwitchForward
<1>8. CASE SwitchAdvance BY <1>8, HeldAreKeys DEF SwitchAdvance
<1>9. CASE SwitchDangling BY <1>9 DEF SwitchDangling, GoWild
<1>10. QED
  BY <1>1, <1>2, <1>3, <1>4, <1>5, <1>6, <1>7, <1>8, <1>9 DEF SwitchThread

LEMMA NextWalks == TypeOK /\ Walks /\ [Next]_vars => Walks'
<1> SUFFICES ASSUME TypeOK, Walks, [Next]_vars PROVE Walks' OBVIOUS
<1>1. CASE Main BY <1>1, MainKeepsWalks
<1>2. CASE HintThread BY <1>2, HintKeepsWalks
<1>3. CASE SwitchThread BY <1>3, SwitchKeepsWalks
<1>4. CASE UNCHANGED vars
  BY <1>4 DEF Walks, HintStands, SwitchStands, Valid, vars, hintVars, switchVars, history
<1>5. QED BY <1>1, <1>2, <1>3, <1>4 DEF Next

-----------------------------------------------------------------------------
(***************************************************************************)
(* The theorems.                                                           *)
(***************************************************************************)

\* The maps, the calls and the three threads stay well typed.
THEOREM DataPlaneTypeCorrect == Spec => []TypeOK
BY InitType, NextType, PTL DEF Spec

\* media_map_lock is never taken for good (data_plane.cpp:120-276): whoever clears
\* it without holding it, a taken lock has a thread that gives it back.
THEOREM TheLockComesBack == Spec => []LockIsNotLeaked
<1>1. Spec => []Lock BY InitLock, NextLock, PTL DEF Spec
<1>2. QED BY <1>1, LockMeans, PTL

\* media_map_lock excludes as long as the unlock after an empty read
\* (data_plane.cpp:247-266) has not happened.
THEOREM TheLockExcludes == Spec => []OnlyIdleReadsBreakTheLock
<1>1. Spec => []Lock BY InitLock, NextLock, PTL DEF Spec
<1>2. QED BY <1>1, LockMeans, PTL

\* A worker that walks a map with the lock open (data_plane.cpp:189-276) stands on a
\* node of that map, as long as no client moved or left.
THEOREM OnlyErasuresLeaveDanglers == Spec => []OnlyErasuresDangle
<1>1. Spec => []Walks
  BY InitType, NextType, InitWalks, NextWalks, PTL DEF Spec
<1>2. QED BY <1>1, WalksMeans, PTL
=============================================================================
