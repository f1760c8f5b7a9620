---------------------------- MODULE MCTimerQueue ----------------------------
(* Small instances of TimerQueue for TLC. *)
EXTENDS TimerQueue, TLC

\* Timer 1 repeats every two milliseconds, the others run once.
MCInterval == [t \in Timer |-> IF t = 1 THEN 2 ELSE 0]
==============================================================================
