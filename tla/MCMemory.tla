------------------------------ MODULE MCMemory ------------------------------
(***************************************************************************)
(* A memory that remembers one turn and is left alone.                     *)
(***************************************************************************)
EXTENDS FactMemory, TLC

CONSTANTS e1, f1, r1, t1

\* 2^(-d / 2), in hundredths; what was used today was used some hours ago.
MCKeep == 0 :> 95 @@ 1 :> 70 @@ 2 :> 50
=============================================================================
