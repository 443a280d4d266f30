------------------------------ MODULE MCTimers ------------------------------
(* Two timers of one session, one-shot or repeating with every step of the  *)
(* clock.                                                                   *)
EXTENDS Timers
=============================================================================
