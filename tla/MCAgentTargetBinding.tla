------------------------ MODULE MCAgentTargetBinding ------------------------
(***************************************************************************)
(* A small instance of AgentTargetBinding for TLC: calls differ in nothing *)
(* but their name.                                                         *)
(***************************************************************************)
EXTENDS AgentTargetBinding, TLC

Symmetry == Permutations(Calls)
=============================================================================
