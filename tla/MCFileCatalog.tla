--------------------------- MODULE MCFileCatalog ---------------------------
(***************************************************************************)
(* FileCatalog for TLC: "b" is hidden in a list that holds "ab".           *)
(***************************************************************************)
EXTENDS FileCatalog

MCSpell == [b |-> <<2>>, ab |-> <<1, 2>>]
=============================================================================
