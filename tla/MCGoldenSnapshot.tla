---------------------------- MODULE MCGoldenSnapshot ----------------------------
(* GoldenSnapshot for TLC: two creates and two base images. *)
EXTENDS GoldenSnapshot
=============================================================================
