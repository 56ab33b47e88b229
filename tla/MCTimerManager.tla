--------------------------- MODULE MCTimerManager ---------------------------
(* The timers over a few milliseconds; one "hour" is one millisecond.      *)
EXTENDS TimerManager
=============================================================================
