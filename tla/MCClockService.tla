--------------------------- MODULE MCClockService ---------------------------
(* TLC wrapper of the clock example service. *)
EXTENDS ClockService
=============================================================================
