---------------------------- MODULE MCSnapshotStream ----------------------------
(* SnapshotStream for TLC: a few execs beside one snapshot. *)
EXTENDS SnapshotStream
=============================================================================
