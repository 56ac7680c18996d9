------------------------------ MODULE MCTimers -------------------------------
(***************************************************************************)
(* An instance of Timers for TLC: a keep-alive of one second, offline      *)
(* after five, and a clock that is set twice, by less and by more than the *)
(* timers are long.                                                        *)
(***************************************************************************)
EXTENDS Timers

MCClockSets == {-9, -3, -1, 1, 4, 9}
=============================================================================
