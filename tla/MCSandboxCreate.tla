---------------------------- MODULE MCSandboxCreate ----------------------------
(* SandboxCreate for TLC: two requests at once, one slot in the pool. *)
EXTENDS SandboxCreate, TLC

WorkerSymmetry == Permutations(Workers)
=============================================================================
