---------------------------- MODULE MCUserSnapshots ----------------------------
(* UserSnapshots for TLC: two requests at once, one restart. *)
EXTENDS UserSnapshots, TLC

(* Requests, sandboxes and rootfs images are interchangeable. *)
SnapshotSymmetry == Permutations(Handlers) \cup Permutations(Sandboxes) \cup Permutations(Lineages)
=============================================================================
