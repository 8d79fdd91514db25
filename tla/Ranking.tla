------------------------------ MODULE Ranking ------------------------------
(***************************************************************************)
(* Sorting, as retrieval/search.py, agent/run.py and agent/digest.py do it *)
(* with sorted() and with lists that are filtered or cut.  Said by ranks,  *)
(* so that the provers can reason about it: they know nothing of SortSeq   *)
(* and SelectSeq.                                                          *)
(***************************************************************************)
EXTENDS Integers, Sequences, FiniteSets, FiniteSetsExt

\* What comes before x: a greater score, or the same one and a smaller number.
Ahead(score, x) == {y \in DOMAIN score : score[y] > score[x] \/ (score[y] = score[x] /\ y < x)}

\* The numbers that have a score, the greatest score first.
Ranked(score) ==
    [i \in 1..Cardinality(DOMAIN score) |-> CHOOSE x \in DOMAIN score : Cardinality(Ahead(score, x)) = i - 1]

Ascending(numbers) == Ranked([x \in numbers |-> 0])

\* The elements of s at some places, in their order.
At(s, places) == LET order == Ascending(places) IN [i \in DOMAIN order |-> s[order[i]]]

First(n, s) == SubSeq(s, 1, Min({n, Len(s)}))
=============================================================================
