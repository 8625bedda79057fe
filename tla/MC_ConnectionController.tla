----------------------- MODULE MC_ConnectionController -----------------------
(* Small instances of ConnectionController for TLC. *)
EXTENDS ConnectionController, TLC

CONSTANTS s1, s2, s3
=============================================================================
