---------------------------- MODULE MCLeaderLock ----------------------------
(* LeaderLock for TLC. *)
EXTENDS LeaderLock

CONSTANTS w1, w2
=============================================================================
