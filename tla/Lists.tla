-------------------------------- MODULE Lists -------------------------------
(***************************************************************************)
(* Lists of the simulator (core/list.h) as sequences.  An entry that       *)
(* list_del takes out leaves the others in their order.                    *)
(***************************************************************************)
EXTENDS Integers, Sequences, FiniteSets

\* What is left of the list s when all but the entries at the places K were deleted:
\* its k-th entry is the one at the k-th place of K.
Kept(s, K) ==
    [k \in 1 .. Cardinality(K) |->
        s[CHOOSE i \in K : Cardinality({ j \in K : j <= i }) = k]]
=============================================================================
