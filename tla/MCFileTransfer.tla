--------------------------- MODULE MCFileTransfer ---------------------------
(***************************************************************************)
(* The sizes of the files that TLC transfers.                              *)
(***************************************************************************)
EXTENDS FileTransfer

\* Files of two chunks and of one come in; one of one chunk goes out.
MCTotalChunks == [t \in {"t1", "t2", "m1"} |-> IF t = "t1" THEN 2 ELSE 1]

=============================================================================
