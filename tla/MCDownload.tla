----------------------------- MODULE MCDownload -----------------------------
(***************************************************************************)
(* Download for TLC.  The safety run keeps the code's proportions (N = 100 *)
(* and windows of 50: the largest the numbering allows); a file longer     *)
(* than N makes every sequence number come round again, and windows of 3   *)
(* leave a packet stored beyond a gap after a run is written.  The         *)
(* liveness run has a larger ring, so that a file of N - WS blocks, for    *)
(* which TIMEOUT is sound, still fills the window.                         *)
(***************************************************************************)
EXTENDS DownloadInv
=============================================================================
