------------------------------ MODULE MCSession ------------------------------
(***************************************************************************)
(* One thread with three questions and a peer reaction.  The questions are *)
(* interchangeable; no action and no invariant tells them apart.           *)
(***************************************************************************)
EXTENDS AgentSession, TLC

Questions == Permutations(Turns \ Reactions)
=============================================================================
