------------------------------ MODULE MCGuestAgent ------------------------------
(* GuestAgent for TLC: one background process, two streams. *)
EXTENDS GuestAgent
=============================================================================
