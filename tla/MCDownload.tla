------------------------------ MODULE MCDownload ------------------------------
(***************************************************************************)
(* Download for TLC: the download starts without a file.                   *)
(***************************************************************************)
EXTENDS Download

MCInit == DownloadInit /\ disk = [i \in Piece |-> "absent"]

MCSpec == MCInit /\ [][DownloadNext]_dlVars
MCFairSpec == MCSpec /\ DownloadFairness
==============================================================================
