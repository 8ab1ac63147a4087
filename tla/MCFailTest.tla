----------------------------- MODULE MCFailTest -----------------------------
(***************************************************************************)
(* Instances of FailTest.  A program of MCFailTest.cfg passes at most three*)
(* failure points and ends in any way but a barf, which a parent treats    *)
(* like a signal; it may ignore one failure instead of two, so that three  *)
(* points are enough for the warning.  With PrefixWithin for Within and two*)
(* places in one file, at lines 12 and 123, where one name begins the      *)
(* other, TLC finds a path that is not reproduced.                         *)
(***************************************************************************)
EXTENDS FailTest

CONSTANTS line12, line123, alloc_skb

\* No name is part of another one.
NoneWithin == {<<l, l>> : l \in Loc}

\* "file.c:12" is part of "file.c:123".
PrefixWithin == NoneWithin \cup {<<line12, line123>>}
=============================================================================
