---------------------------- MODULE MCTimerQueue ----------------------------
(* TimerQueue with two addresses, for TLC. *)
EXTENDS TimerQueue

CONSTANTS t1, t2

MCAddr == {t1, t2}
MCIntervals == {0, 1}
=============================================================================
