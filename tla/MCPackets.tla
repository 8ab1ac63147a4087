------------------------------ MODULE MCPackets -----------------------------
(***************************************************************************)
(* Instances of Packets: the loopback device and one other, a module hook  *)
(* at priority 2, one-shot hooks in front of it or behind it.              *)
(***************************************************************************)
EXTENDS Packets
=============================================================================
