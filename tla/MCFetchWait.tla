----------------------------- MODULE MCFetchWait -----------------------------
(***************************************************************************)
(* An instance of FetchWait for TLC: two papers.                           *)
(***************************************************************************)
EXTENDS FetchWait

CONSTANTS p1, p2

InOrder == [p \in Hits |-> IF p = p1 THEN 1 ELSE 2]
=============================================================================
