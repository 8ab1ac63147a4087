------------------------------ MODULE MCTimers ------------------------------
(***************************************************************************)
(* Instances of Timers: two timers on a clock that wraps, with two jiffies *)
(* to the second.                                                          *)
(***************************************************************************)
EXTENDS Timers
=============================================================================
