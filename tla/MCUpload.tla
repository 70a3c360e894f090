------------------------------- MODULE MCUpload -------------------------------
(***************************************************************************)
(* Upload for TLC: the file on disk has its full length, so that reads     *)
(* succeed, and all its pieces but the last are right.                     *)
(***************************************************************************)
EXTENDS Upload

MCInit == UploadInit /\ disk = [i \in Piece |-> IF i = LastPiece THEN "corrupt" ELSE "genuine"]

MCSpec == MCInit /\ [][UploadNext]_ulVars
MCFairSpec == MCSpec /\ UploadFairness
==============================================================================
