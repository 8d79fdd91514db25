---------------------------- MODULE MCCitations ----------------------------
(***************************************************************************)
(* An instance of Citations for TLC: two citing papers; one paper that     *)
(* arXiv has, by id or title; one that the catalog has, under a similar    *)
(* title; a title nobody has.                                              *)
(***************************************************************************)
EXTENDS Citations, TLC

CONSTANTS f1, f2, c, d, tf, tc, td, te, tn

InstanceTitles == [p \in Ids |-> CASE p = c -> tc [] p = d -> td [] OTHER -> tf]
InstanceSimilar == {<<te, td>>}

ById(p)    == [id |-> p, title |-> None]
ByTitle(t) == [id |-> None, title |-> t]

InstanceLists ==
    {<<ById(c)>>, <<ByTitle(tc)>>, <<ByTitle(tn)>>, <<ById(c), ByTitle(tn)>>,
     <<ByTitle(tn), ByTitle(tc)>>, <<ByTitle(te), ByTitle(tf)>>}

Symmetry == Permutations(Citing)
=============================================================================
