------------------------------ MODULE MCUpload ------------------------------
(***************************************************************************)
(* Upload for TLC, with the proportions of MCDownload.                     *)
(***************************************************************************)
EXTENDS Upload
=============================================================================
