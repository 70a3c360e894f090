----------------------------- MODULE PieceLedger -----------------------------
(***************************************************************************)
(* What the file manager promises the rest of the client about each piece, *)
(* with the thread, the mutex, the queues and the two bitsets forgotten: a *)
(* piece is missing, then being written, then on disk for good.  A piece   *)
(* is never lost again and never becomes complete without having been      *)
(* accepted first.  FileManager implements it (FileManager!Ledger).        *)
(***************************************************************************)
CONSTANT Piece

VARIABLE status

Status == {"missing", "writing", "have"}

\* registerFiles has scanned the files found on disk.
Init == status \in [Piece -> {"missing", "have"}]

\* A downloaded piece has been accepted for writing.
Accept(i) ==
    /\ status[i] = "missing"
    /\ status' = [status EXCEPT ![i] = "writing"]

\* The accepted piece is complete.
Land(i) ==
    /\ status[i] = "writing"
    /\ status' = [status EXCEPT ![i] = "have"]

Next == \E i \in Piece : Accept(i) \/ Land(i)

Spec == Init /\ [][Next]_status
==============================================================================
