------------------------------ MODULE MCFeeds ------------------------------
(***************************************************************************)
(* An instance of Feeds for TLC: two feeds, a Monday and the day after, a  *)
(* paper of the Monday before and one of the days in between.              *)
(***************************************************************************)
EXTENDS Feeds

SomeFeeds  == 1..2
SomePreprints == 1..2
Days       == [p \in SomePreprints |-> p - 1]

SomeQueries  == {"a", "b"}
Found      == {<<2, 1>>}
Matches    == {{}, Found}
Rewrites   == [p \in SomePreprints |-> p]
SomeDays   == {3}
AtFirst    == [f \in SomeFeeds |-> [text |-> "a", keywords |-> IF f = 1 THEN {} ELSE Found]]
\* Of the two texts of each paper.
Near       == [t \in SomeQueries |-> IF t = "a" THEN <<<<1, 3>>, <<2, -1>>>> ELSE <<<<1, 0>>, <<-1, 2>>>>]
Relevant   == [t \in SomeQueries |-> IF t = "a" THEN <<<<2, 1>>, <<1, 3>>>> ELSE <<<<1, 2>>, <<3, 1>>>>]
=============================================================================
