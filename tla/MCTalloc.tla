------------------------------ MODULE MCTalloc ------------------------------
(* Talloc with few blocks: enough for a block with two siblings, or for a child that *)
(* is referred to from a third block.                                               *)
EXTENDS Talloc
=============================================================================
