------------------------------- MODULE MCSkb -------------------------------
(* Skb with packets of a few bytes. *)
EXTENDS Skb
=============================================================================
