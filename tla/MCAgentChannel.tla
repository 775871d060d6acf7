----------------------------- MODULE MCAgentChannel -----------------------------
(* AgentChannel for TLC: a few execs on one sandbox. *)
EXTENDS AgentChannel, TLC

ExecSymmetry == Permutations(Execs)
=============================================================================
