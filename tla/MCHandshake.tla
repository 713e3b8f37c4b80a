---------------------------- MODULE MCHandshake ----------------------------
(***************************************************************************)
(* Handshake for TLC, with the timeouts of the code in tenths of a second. *)
(***************************************************************************)
EXTENDS Handshake
=============================================================================
