----------------------------- MODULE TimersProofs -----------------------------
(***************************************************************************)
(* Proofs about Timers, for all timers and however often the clock is set. *)
(*                                                                         *)
(* The invariant has three parts.  Book says how the readings of the code  *)
(* relate to real time.  Order says that the last message is not much      *)
(* younger than the last tick, so that an age is not below zero when the   *)
(* loop finds the next tick due; what the tick itself reads may be below   *)
(* zero only by what the clock was set back in between.  Late says how     *)
(* long a client can have been silent, at each point of the loop.          *)
(***************************************************************************)
EXTENDS Timers, TLAPS

Book ==
    /\ checkAge + back >= 0
    /\ Live => age <= silence + forward /\ silence <= age + back

\* checkAge - age is the time from the last tick to the last message.  In the
\* tick, checkAge is what has passed since the loop's reading.
Order ==
    /\ pc = "tick" => checkAge <= spent \/ ~settled
    /\ pc = "wait" => checkAge <= TickAfter + spent \/ ~settled
    /\ pc = "tick" /\ Live => age >= checkAge
    /\ Live => \/ checkAge - age <= TickAfter + LoopTime
               \/ pc = "check" /\ ~settled /\ age >= 0 /\ checkAge > TickAfter

\* By how much a client can have been silent for longer than a limit, from how
\* long the last tick is past and from where the loop stands.
LateBy(limit) ==
    /\ pc # "tick" => silence <= limit + checkAge + back + slip
    /\ silence <= limit + TickAfter + back + slip
                    + (CASE pc = "wait" -> spent
                         [] pc = "check" -> LoopTime
                         [] pc = "tick" -> LoopTime + spent)

Late ==
    /\ Live => LateBy(OfflineTimer)
    /\ state = "CONNECTED" => LateBy(InactiveAfter)

Inv == TypeOK /\ Book /\ Order /\ Late

-----------------------------------------------------------------------------
\* The loop bound and the threshold of the tick, as the steps below use them.
USE DEF TickAfter, LoopTime

\* The invariant holds at first.
LEMMA InvInit == Init => Inv
BY TimerAssumption
DEF Init, Inv, TypeOK, Book, Order, Late, LateBy, Live, InactiveAfter

\* A second passes only in an iteration that has time left for it.
LEMMA SecondKeeps == Inv /\ Second => Inv'
BY TimerAssumption
DEF Inv, TypeOK, Book, Order, Late, LateBy, Live, InactiveAfter, Second, Moves, clockVars

\* Setting the clock moves both ages and the books by the same amount.
LEMMA SetClockKeeps == ASSUME NEW d \in ClockSets, Inv, SetClock(d) PROVE Inv'
<1>1. d \in Int BY TimerAssumption
<1>2. TypeOK'
  <2>1. age' \in Int /\ checkAge' \in Int
    BY <1>1 DEF Inv, TypeOK, SetClock, Moves
  <2>2. forward' \in Nat /\ back' \in Nat
    BY <1>1 DEF Inv, TypeOK, SetClock
  <2>3. sets' \in 0 .. MaxSets
    BY TimerAssumption DEF Inv, TypeOK, SetClock
  <2>4. settled' \in BOOLEAN
    BY DEF SetClock
  <2>5. QED BY <2>1, <2>2, <2>3, <2>4 DEF Inv, TypeOK, SetClock
<1>3. Book' BY <1>1, TimerAssumption DEF Inv, TypeOK, Book, Live, SetClock, Moves
<1>4. Order' BY <1>1, TimerAssumption DEF Inv, TypeOK, Order, Live, SetClock, Moves
<1>5. Late'
  BY <1>1, TimerAssumption
  DEF Inv, TypeOK, Book, Late, LateBy, Live, InactiveAfter, SetClock, Moves
<1>6. QED BY <1>2, <1>3, <1>4, <1>5 DEF Inv

\* The loop resets the time of the last tick before the tick has run; a client's
\* last message is not after that moment.
LEMMA CheckKeeps == Inv /\ Check => Inv'
BY TimerAssumption
DEF Inv, TypeOK, Book, Order, Late, LateBy, Live, InactiveAfter, Check, Ticks

\* A tick leaves nobody whose age is past a timer, and takes nobody else but one
\* whose last message its reading of the clock lies before.
LEMMA TickMeans ==
  ASSUME Inv, Live
  PROVE  /\ Decide # "NONE" => age <= OfflineTimer
         /\ Decide = "NONE" => age > OfflineTimer \/ age < 0
         /\ Decide = "CONNECTED" => age <= InactiveAfter
         /\ Decide = "INACTIVE" => age > InactiveAfter \/ state = "INACTIVE"
<1>1. CASE age >= 0
  <2>1. Unsigned(age) = age BY <1>1 DEF Unsigned, Inv, TypeOK
  <2>2. QED BY <1>1, <2>1, TimerAssumption DEF Decide, Inv, TypeOK, Live, InactiveAfter
<1>2. CASE age < 0
  BY <1>2, TimerAssumption DEF Decide, Inv, TypeOK, Live, InactiveAfter
<1>3. QED BY <1>1, <1>2 DEF Inv, TypeOK

LEMMA TickKeeps == Inv /\ Tick => Inv'
<1> SUFFICES ASSUME Inv, Tick PROVE Inv'
  OBVIOUS
<1>1. Decide \in {"NONE", "CONNECTED", "INACTIVE"}
  BY DEF Inv, TypeOK, Decide
<1>2. Live \/ Decide = "NONE" BY DEF Decide
<1>3. /\ pc = "tick" /\ pc' = "wait" /\ state' = Decide
      /\ UNCHANGED <<checkAge, spent, sets, settled, back>>
  BY DEF Tick
<1>4. slip' \in Nat /\ checkAge + slip' >= 0
  BY DEF Tick, Inv, TypeOK
<1>5. back >= 0 BY DEF Inv, TypeOK
<1>6. CASE Decide = "NONE"
  BY <1>3, <1>4, <1>5, <1>6, TimerAssumption
  DEF Inv, TypeOK, Book, Order, Late, LateBy, Live, Tick, Fresh
<1>7. CASE Decide # "NONE"
  <2>1. Live BY <1>2, <1>7
  <2>2. UNCHANGED <<age, silence, forward>> BY <1>3, <1>7 DEF Tick
  <2>3. /\ age <= OfflineTimer
        /\ Decide = "CONNECTED" => age <= InactiveAfter
    BY <1>7, <2>1, TickMeans
  <2>4. InactiveAfter \in Int BY TimerAssumption DEF InactiveAfter
  <2>5. TypeOK' BY <1>1, <1>3, <1>4, <2>2 DEF Inv, TypeOK
  <2>6. Book' BY <1>3, <1>5, <2>1, <2>2 DEF Inv, TypeOK, Book, Live
  <2>7. Order' BY <1>3, <2>1, <2>2 DEF Inv, TypeOK, Order, Live
  <2>8. Late'
    BY <1>3, <1>4, <1>5, <2>1, <2>2, <2>3, <2>4, TimerAssumption
    DEF Inv, TypeOK, Book, Late, LateBy, Live, InactiveAfter
  <2>9. QED BY <2>5, <2>6, <2>7, <2>8 DEF Inv
<1>8. QED BY <1>6, <1>7

\* A message is younger than the last tick by what this iteration has taken, or
\* the clock leapt and the next thing to come is a tick.
LEMMA MessageKeeps == Inv /\ Message => Inv'
BY TimerAssumption
DEF Inv, TypeOK, Book, Order, Late, LateBy, Live, InactiveAfter, Message, Fresh

LEMMA NoMessageKeeps == Inv /\ NoMessage => Inv'
BY TimerAssumption
DEF Inv, TypeOK, Book, Order, Late, LateBy, Live, InactiveAfter, NoMessage, clockVars

LEMMA StutterKeeps == Inv /\ UNCHANGED vars => Inv'
BY DEF Inv, TypeOK, Book, Order, Late, LateBy, Live, InactiveAfter, vars, clockVars

\* The invariant is inductive.
THEOREM Invariance == Spec => []Inv
<1>1. Inv /\ [Next]_vars => Inv'
  BY SecondKeeps, SetClockKeeps, CheckKeeps, TickKeeps, MessageKeeps,
     NoMessageKeeps, StutterKeeps
  DEF Next
<1>2. QED BY InvInit, <1>1, PTL DEF Spec

-----------------------------------------------------------------------------
\* Every reachable state of the clock, the loop and the slot is well typed.
THEOREM TimersTypeCorrect == Spec => []TypeOK
<1>1. Inv => TypeOK BY DEF Inv
<1>2. QED BY Invariance, <1>1, PTL

\* The tick of handle_req_time_tick notices silence in bounded time, whatever the
\* timers are and however the clock is set.
THEOREM SilenceIsAlwaysNoticed == Spec => []SilenceIsNoticed
<1>1. Inv => SilenceIsNoticed
  BY TimerAssumption DEF Inv, TypeOK, Late, LateBy, SilenceIsNoticed, InactiveAfter
<1>2. QED BY Invariance, <1>1, PTL

\* Only a client that was silent is suspended or released, or one over whose last
\* message the clock leapt, or, released, one whose last message the tick's own
\* reading of the clock lies before.
THEOREM NobodyIsReleasedEarly == Spec => OnlySilenceOrALeapReleases
<1> DEFINE Step == /\ Live /\ state' = "NONE"
                        => silence + forward > OfflineTimer \/ (age < 0 /\ checkAge < 0)
                   /\ state' = "INACTIVE" /\ state # "INACTIVE"
                        => silence + forward > InactiveAfter
<1>1. ASSUME Inv, [Next]_vars PROVE [Step]_vars
  <2>1. CASE state' = state BY <2>1 DEF Live
  <2>2. CASE Message BY <2>2 DEF Message
  <2>3. CASE Tick
    <3>1. state' = Decide /\ pc = "tick" BY <2>3 DEF Tick
    <3>2. CASE Live
      <4>1. age >= checkAge /\ age <= silence + forward
        BY <1>1, <3>1, <3>2 DEF Inv, Book, Order
      <4>2. QED
        BY <1>1, <3>1, <3>2, <4>1, TickMeans, TimerAssumption
        DEF Inv, TypeOK, InactiveAfter
    <3>3. CASE ~Live BY <3>1, <3>3 DEF Decide
    <3>4. QED BY <3>2, <3>3
  <2>4. QED
    BY <1>1, <2>1, <2>2, <2>3
    DEF Next, Second, SetClock, Check, NoMessage, vars
<1>2. QED BY Invariance, <1>1, PTL DEF Spec, OnlySilenceOrALeapReleases
=============================================================================
