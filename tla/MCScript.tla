------------------------------ MODULE MCScript ------------------------------
(***************************************************************************)
(* Instances of Script: gen_ip logs "send"; the pattern "send" matches     *)
(* that line, "any" is *.                                                  *)
(***************************************************************************)
EXTENDS Script

MCMatches == {<<"send", "send">>} \cup ({"any"} \X AnyLine)
=============================================================================
