----------------------------- MODULE MCModules ------------------------------
(* Three modules with tables in one sysctl directory: `nat' needs `track';           *)
(* `log' needs nobody and makes its /proc file by a path.                            *)
EXTENDS Modules

MCBlock == {"track1", "track2", "nat1"}
MCPriority == [b \in MCBlock |-> IF b = "nat1" THEN 1 ELSE 0]
MCBlockOf == [b \in MCBlock |-> IF b = "nat1" THEN "nat" ELSE "track"]
MCModule == {"track", "nat", "log"}
MCNeeds == [m \in MCModule |-> IF m = "nat" THEN {"track"} ELSE {}]
MCFileName == [m \in MCModule |-> m]
MCLeafName == [m \in MCModule |-> IF m = "track" THEN "max" ELSE "log"]
=============================================================================
