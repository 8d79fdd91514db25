------------------------------ MODULE MCIngest ------------------------------
(* A record in the window, and one that is only known from references. *)
EXTENDS Ingest
CONSTANTS new, old
MCRecords == {new, old}
MCInWindow == {new}
=============================================================================
