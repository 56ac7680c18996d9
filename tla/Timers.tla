-------------------------------- MODULE Timers --------------------------------
(***************************************************************************)
(* The keep-alive of one client in real time: the main loop that looks at  *)
(* the clock (main.cpp), the tick and the NOTIFY that it runs              *)
(* (core/control_plane.cpp), and a clock that is set forward or back, as   *)
(* time() follows the calendar.                                            *)
(*                                                                         *)
(* Module ControlPlane knows time only as ages that grow.  Here an age is  *)
(* what the code computes, a signed difference of two readings that is     *)
(* compared with an unsigned timer, and beside it stands how long the      *)
(* client has really been silent.  The loop reads the clock to see whether *)
(* a tick is due and the tick reads it again: a second may begin between   *)
(* the two, and the clock may be set.  Times are whole seconds.            *)
(***************************************************************************)
EXTENDS Integers

CONSTANTS
    KATimer,        \* m_confs.u32KATimer
    OfflineTimer,   \* m_confs.u32OfflineTimer
    ClockSets,      \* by how much the clock may be set, forward or back
    MaxSets,        \* a bound of the model: how often it is set
    WordSize        \* 2^32, the range of an unsigned comparison

ASSUME TimerAssumption ==
    /\ KATimer \in Nat /\ OfflineTimer \in Nat
    /\ ClockSets \subseteq Int /\ MaxSets \in Nat
    /\ WordSize \in Nat \ {0} /\ OfflineTimer < WordSize

VARIABLES
    state,      \* eState of the client's slot
    age,        \* time() - n32TimeGotKA
    checkAge,   \* time() - nCheckTime
    pc,         \* main: at the top of its loop, on the way into the tick, or
                \* waiting for a message
    spent,      \* the seconds that this iteration has taken
    sets,       \* how often the clock was set
    settled,    \* the clock was not set in this iteration yet
    silence,    \* history: how long the client has really been silent
    forward,    \* history: by how much the clock was set forward since then
    back,       \* history: by how much it was set back, in all
    slip        \* history: how far the last tick's reading of the clock lay
                \* before the reading that made the loop run it

clockVars == <<sets, settled, forward, back>>
vars == <<state, age, checkAge, pc, spent, silence, slip, clockVars>>

Init ==
    /\ state = "NONE" /\ age = 0 /\ checkAge = 0
    /\ pc = "check" /\ spent = 0
    /\ sets = 0 /\ settled = TRUE
    /\ silence = 0 /\ forward = 0 /\ back = 0 /\ slip = 0

InactiveAfter == 3 * KATimer

\* The tick runs when the loop finds more than this behind its last one.
TickAfter == 1

\* select waits for one second at most, and handling a message takes no time
\* that counts here.
LoopTime == 1

-----------------------------------------------------------------------------
(***************************************************************************)
(* Time.                                                                   *)
(***************************************************************************)
Live == state # "NONE"

\* The clock moves by d; of a slot that is free nobody asks the age.
Moves(d) ==
    /\ age' = IF Live THEN age + d ELSE 0
    /\ checkAge' = checkAge + d

\* Mutant: select waits for two seconds.
Second_Twice ==
    /\ pc \in {"tick", "wait"} /\ spent <= LoopTime
    /\ spent' = spent + 1
    /\ Moves(1)
    /\ silence' = IF Live THEN silence + 1 ELSE 0
    /\ UNCHANGED <<state, pc, slip, clockVars>>

Second ==
    /\ pc \in {"tick", "wait"} /\ spent < LoopTime
    /\ spent' = spent + 1
    /\ Moves(1)
    /\ silence' = IF Live THEN silence + 1 ELSE 0
    /\ UNCHANGED <<state, pc, slip, clockVars>>

\* An assumption: the clock is not set twice between two looks of the loop.
SetClock(d) ==
    /\ sets < MaxSets /\ settled
    /\ sets' = sets + 1 /\ settled' = FALSE
    /\ Moves(d)
    /\ forward' = IF Live /\ d > 0 THEN forward + d ELSE forward
    /\ back' = IF d < 0 THEN back - d ELSE back
    /\ UNCHANGED <<state, pc, spent, silence, slip>>

-----------------------------------------------------------------------------
(***************************************************************************)
(* main.                                                                   *)
(***************************************************************************)
Fresh == age' = 0 /\ silence' = 0 /\ forward' = 0

\* The conversion of an INT32.
Unsigned(n) == IF n < 0 THEN n + WordSize ELSE n

\* Mutant: what is inactive already is passed over first.
Decide_InactiveFirst ==
    IF state \in {"NONE", "INACTIVE"} THEN state
    ELSE IF Unsigned(age) > OfflineTimer THEN "NONE"
    ELSE IF age > InactiveAfter THEN "INACTIVE"
    ELSE state

\* handle_req_time_tick for the client.  An age below zero is a huge one.
Decide ==
    IF ~Live THEN "NONE"
    ELSE IF Unsigned(age) > OfflineTimer THEN "NONE"
    ELSE IF age > InactiveAfter THEN "INACTIVE"
    ELSE state

\* Mutant: any difference from the last tick makes a tick.
Ticks_WhenDifferent == checkAge # 0

Ticks == checkAge > TickAfter

\* The top of the loop: what it has read is the time of the next tick already.
Check ==
    /\ pc = "check"
    /\ IF Ticks
       THEN pc' = "tick" /\ checkAge' = 0
       ELSE pc' = "wait" /\ UNCHANGED checkAge
    /\ spent' = 0 /\ settled' = TRUE
    /\ UNCHANGED <<state, age, silence, sets, forward, back, slip>>

\* The tick asks time() once more.
Tick ==
    /\ pc = "tick" /\ pc' = "wait"
    /\ state' = Decide
    /\ IF state' = "NONE" THEN Fresh ELSE UNCHANGED <<age, silence, forward>>
    /\ slip' = IF checkAge < 0 THEN -checkAge ELSE 0
    /\ UNCHANGED <<checkAge, spent, sets, settled, back>>

\* A login, or a NOTIFY of a client that has one: time() is asked again.
Message ==
    /\ pc = "wait" /\ pc' = "check"
    /\ state' = "CONNECTED"
    /\ Fresh
    /\ UNCHANGED <<checkAge, spent, sets, settled, back, slip>>

\* select returns with nothing for this client.
NoMessage ==
    /\ pc = "wait" /\ pc' = "check"
    /\ UNCHANGED <<state, age, checkAge, spent, silence, slip, clockVars>>

Next ==
    \/ Second \/ \E d \in ClockSets : SetClock(d)
    \/ Check \/ Tick \/ Message \/ NoMessage

Spec == Init /\ [][Next]_vars

-----------------------------------------------------------------------------
(***************************************************************************)
(* Properties.                                                             *)
(***************************************************************************)
TypeOK ==
    /\ state \in {"NONE", "CONNECTED", "INACTIVE"}
    /\ age \in Int /\ checkAge \in Int
    /\ pc \in {"check", "tick", "wait"} /\ spent \in 0 .. LoopTime
    /\ sets \in 0 .. MaxSets /\ settled \in BOOLEAN
    /\ silence \in Nat /\ forward \in Nat /\ back \in Nat /\ slip \in Nat

\* Nobody is suspended or released who was heard of in time, unless the clock
\* leapt forward since, with one exception: the clock is set back after the loop
\* has found a tick due and before the tick reads it, to before the client's last
\* message.  The tick then meets an age below zero, takes it for a huge one and
\* releases a client just heard of.  At any other moment a clock set back harms
\* nobody, as no tick is due before it has passed the last one again.
OnlySilenceOrALeapReleases ==
    [][/\ Live /\ state' = "NONE"
            => silence + forward > OfflineTimer \/ (age < 0 /\ checkAge < 0)
       /\ state' = "INACTIVE" /\ state # "INACTIVE"
            => silence + forward > InactiveAfter]_vars

\* Who is silent is suspended and released in bounded time: a tick is due every two
\* or three seconds, later only by as much as the clock was set back, and reads the
\* clock in the second of the loop's look or in the next.  A tick that read an
\* earlier time than the loop is followed by a next one that much later.
SilenceIsNoticed ==
    LET Bound(limit) == limit + TickAfter + LoopTime + back + slip
                        + (IF pc = "tick" THEN spent ELSE 0)
    IN  /\ Live => silence <= Bound(OfflineTimer)
        /\ state = "CONNECTED" => silence <= Bound(InactiveAfter)
=============================================================================
