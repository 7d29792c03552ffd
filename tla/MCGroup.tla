------------------------------ MODULE MCGroup ------------------------------
(***************************************************************************)
(* Two agents in a group without topics, and one message of a person.      *)
(***************************************************************************)
EXTENDS GroupChat

CONSTANTS a1, a2

Spec == GroupInit /\ layout = "group" /\ [][GroupNext]_groupVars
=============================================================================
