------------------------------ MODULE MCAnswer ------------------------------
(***************************************************************************)
(* An instance of Answer for TLC: four papers, of which the last is only   *)
(* reached by a citation or a pin.                                         *)
(***************************************************************************)
EXTENDS Answer

SomePapers == 1..4
ACites     == {<<1, 4>>, <<2, 4>>, <<3, 1>>}
Archives   == [c \in {"cs.LG", "cs", "math"} |-> IF c = "cs.LG" THEN "cs" ELSE c]

Paper(year, categories, landmark, name, prior) ==
    [year |-> year, categories |-> categories, landmark |-> landmark, foundational |-> FALSE,
     accepted |-> year = 3, name |-> name, prior |-> prior]

Rows == <<Paper(2, {"cs.LG"}, TRUE, "named", -1), Paper(2, {"math", "cs.LG"}, FALSE, "", 5),
          Paper(3, {"cs"}, TRUE, "other", -1), Paper(1, {"math"}, TRUE, "", -1)>>

SomeFilters == {NoFilters, [from |-> 2, to |-> 2, categories |-> {"cs"}, ids |-> {2, 3}]}

Channels(keyword, vector, near, title) ==
    [keyword |-> keyword, vector |-> vector, near |-> near, title |-> title]

SomeRankings ==
    {Channels(<<1, 2, 3>>, <<1, 2, 3>>, <<3, 1>>, <<>>), Channels(<<2>>, <<3, 1>>, <<1, 3>>, <<3>>),
     Channels(<<3, 1>>, <<2>>, <<1>>, <<>>), Channels(<<>>, <<2, 3>>, <<>>, <<3>>), Channels(<<2>>, <<>>, <<>>, <<>>)}

Scores == {[p \in SomePapers |-> 4 - p], [p \in SomePapers |-> IF p = 3 THEN 2 ELSE 0]}

Before(verdict, source) == [verdict |-> verdict, sources |-> <<source>>]
Answered == {<<>>, <<Before("unsupported_removed", <<"c", 11>>), Before("supported", <<"c", 31>>)>>}

Chunked == [p \in SomePapers |-> <<IF p = 1 THEN {11, 12} ELSE {10 * p + 1}, {10 * p + 5}>>]

\* One list has all chunks, the first first or the last first, the other at most that one.
Lists(chunks) ==
    LET s == Ascending(chunks)
    IN  {<<<<>>, s>>, <<First(1, Reverse(s)), Reverse(s)>>}

SomeTexts == {"plain", "named", "garbled"}
Names     == [t \in SomeTexts |-> IF t = "named" THEN {"n"} ELSE {}]
InTexts   == [x \in SomePapers \cup ChunkIds |-> IF x = 11 THEN {"n"} ELSE {}]
InTitles  == [p \in SomePapers |-> IF p = 3 THEN {"n"} ELSE {}]

\* All sources and one that is none, or nothing.
SomeNotes(sources) ==
    LET numbers(kind) == {s[2] : s \in {s \in sources : s[1] = kind}}
        all(kind) == LET order == Ascending(numbers(kind)) IN [i \in DOMAIN order |-> <<kind, order[i]>>]
    IN  {<<>>, <<<<"c", 99>>>> \o all("c") \o all("a")}

Sentence(t, tags) == [text |-> t, tags |-> tags]

\* A tag of a paper, or of nothing; an untagged sentence before a tagged one; two that share a
\* source, one of which has another.
SomeDrafts(sources) ==
    LET least == {x \in sources : \A y \in sources : x[2] <= y[2]}
    IN  {<<Sentence("named", {x})>> : x \in {<<"c", 3>>, <<"c", 99>>}}
        \cup {<<Sentence("plain", {}), Sentence("named", {x})>> : x \in least}
        \cup {<<Sentence("plain", {x}), Sentence("named", sources)>> : x \in {x \in least : least # sources}}
=============================================================================
