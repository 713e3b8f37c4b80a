----------------------------- MODULE MCSession -----------------------------
(***************************************************************************)
(* Session for TLC.                                                        *)
(***************************************************************************)
EXTENDS Session
=============================================================================
