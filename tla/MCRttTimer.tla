----------------------------- MODULE MCRttTimer -----------------------------
(***************************************************************************)
(* RttTimer for TLC.                                                       *)
(***************************************************************************)
EXTENDS RttTimer
=============================================================================
