------------------------------- MODULE MCWire -------------------------------
(* Numbers that wrap after a few packets, data of an odd length, a change of the length *)
(* in both directions.                                                                  *)
EXTENDS Wire

MCIsn == [e \in {"original", "reply"} |-> IF e = "original" THEN 60 ELSE 9]
MCChanges == {-1, 2}
MCMaxUses == [use \in {"gen_ip", "tcpsession", "FRAG"} |-> IF use = "gen_ip" THEN 1 ELSE 4]
=============================================================================
