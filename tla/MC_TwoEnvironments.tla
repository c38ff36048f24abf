------------------------- MODULE MC_TwoEnvironments -------------------------
(***************************************************************************)
(* Test cases of two environments for TLC.                                 *)
(***************************************************************************)
EXTENDS TwoEnvironments

JustProject == <<[name |-> "createProject", config |-> "valid", kind |-> ""]>>
=============================================================================
