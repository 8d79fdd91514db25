----------------------------- MODULE MCFullText -----------------------------
(***************************************************************************)
(* Instances of FullText for TLC: max_tries as in WorkerSettings, and the  *)
(* faults a run allows.  And of Chunking, which chunk_embed_stage calls:   *)
(* documents of up to four sentences, one longer than a chunk, in one      *)
(* paragraph, two, or two sections.                                        *)
(***************************************************************************)
EXTENDS FullText, Chunking

CodeTries == [kind \in Kinds |-> CASE kind = "parse" -> MaxParseFailures + 1
                                   [] kind = "chunk" -> 5
                                   [] kind = "refs"  -> 3]

Once(kinds) == [f \in FaultKinds |-> IF f \in kinds THEN 1 ELSE 0]

EachFault   == Once(FaultKinds)
OneConflict == Once({"conflict"})

ASSUME TriesAreEnough == EnoughTries

Sentences == {[words |-> <<3, 2>>, tokens |-> 1], [words |-> <<4, 1, 2>>, tokens |-> 3],
              [words |-> <<9>>, tokens |-> 5], [words |-> <<5>>, tokens |-> 8],
              [words |-> <<2, 9, 1, 1, 3>>, tokens |-> 9]}

Documents ==
    LET upTo(s, k)  == SubSeq(s, 1, k)
        after(s, k) == SubSeq(s, k + 1, Len(s))
        section(n, ps) == [head |-> n, paragraphs |-> ps]
    IN  UNION {UNION {{<<section(1, <<s>>)>>, <<section(1, <<upTo(s, k), after(s, k)>>)>>,
                       <<section(1, <<upTo(s, k)>>), section(2, <<after(s, k)>>)>>} : k \in 1..Len(s) - 1}
               : s \in UNION {[1..n -> Sentences] : n \in 2..4}}

\* Every one of these documents is cut as a reader and the search need it
\* (chunk_document, _overlap and _split_long in ingest/chunking.py).
ASSUME ChunkingIsRight == \A doc \in Documents : CutsWell(doc)
=============================================================================
