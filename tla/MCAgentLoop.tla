----------------------------- MODULE MCAgentLoop -----------------------------
(***************************************************************************)
(* AgentLoop for model checking: the session keys are interchangeable.     *)
(***************************************************************************)
EXTENDS AgentLoop, TLC

KeySymmetry == Permutations(Keys)
=============================================================================
