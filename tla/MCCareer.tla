------------------------------- MODULE MCCareer -------------------------------
(* Small instances of Career for TLC. *)
EXTENDS Career
=============================================================================
