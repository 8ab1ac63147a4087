------------------------------- MODULE Fates --------------------------------
(***************************************************************************)
(* What a script may rely on about a packet: it enters the simulator once, *)
(* it may wait in the queue any number of times, and it comes to one end   *)
(* that is never taken back.                                               *)
(***************************************************************************)
CONSTANT Packet

VARIABLE fate

Ends == {"sent", "local", "dropped", "stolen"}

Change(p, from, to) == fate[p] \in from /\ \E f \in to : fate' = [fate EXCEPT ![p] = f]

Enter(p) == Change(p, {"unborn"}, {"path"})
Wait(p) == Change(p, {"path"}, {"queued"})
Resume(p) == Change(p, {"queued"}, {"path"})
End(p) == Change(p, {"path", "queued"}, Ends)

Init == fate = [p \in Packet |-> "unborn"]
Next == \E p \in Packet : Enter(p) \/ Wait(p) \/ Resume(p) \/ End(p)
Spec == Init /\ [][Next]_fate
=============================================================================
