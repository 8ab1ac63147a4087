----------------------------- MODULE MCRouting ------------------------------
(***************************************************************************)
(* Instances of Routing.  core_init makes lo, eth0 and eth1 with the       *)
(* addresses 1, 2 and 4; 3 is a host behind eth0, and the address a script *)
(* gives to an interface.                                                  *)
(***************************************************************************)
EXTENDS Routing

MCBoot == << [name |-> "lo", addr |-> 1, net |-> {1}],
             [name |-> "eth0", addr |-> 2, net |-> {2, 3}],
             [name |-> "eth1", addr |-> 4, net |-> {4}] >>

MCUpConf == {[addr |-> 3, net |-> {3}]}
=============================================================================
