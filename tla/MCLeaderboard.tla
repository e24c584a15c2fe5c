---------------------------- MODULE MCLeaderboard ----------------------------
(* Small instances of Leaderboard for TLC. *)
EXTENDS Leaderboard
=============================================================================
