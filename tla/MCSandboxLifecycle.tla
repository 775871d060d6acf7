-------------------------- MODULE MCSandboxLifecycle --------------------------
(* SandboxLifecycle for TLC: a few handler goroutines on one sandbox. *)
EXTENDS SandboxLifecycle
=============================================================================
