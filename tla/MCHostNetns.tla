------------------------------ MODULE MCHostNetns ------------------------------
(* HostNetns for TLC: a small pool, a few workers, one crash. *)
EXTENDS HostNetns, TLC

WorkerSymmetry == Permutations(Workers)
=============================================================================
