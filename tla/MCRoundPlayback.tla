-------------------------- MODULE MCRoundPlayback --------------------------
(* RoundPlayback for TLC. *)
EXTENDS RoundPlayback
=============================================================================
