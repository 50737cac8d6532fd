------------------------------- MODULE MCTimers -------------------------------
(* Times for TimerQueue: within a second, and too far for an int.           *)
EXTENDS TimerQueue

MCTimes == {Start + 2, Start + 80}
==============================================================================
