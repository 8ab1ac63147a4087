------------------------------ MODULE MCSockopt -----------------------------
(***************************************************************************)
(* Three simulators: nested forks and two forks of the same one.           *)
(***************************************************************************)
EXTENDS Sockopt
=============================================================================
