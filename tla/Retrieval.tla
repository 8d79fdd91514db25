------------------------------ MODULE Retrieval ------------------------------
(***************************************************************************)
(* The search of a run (backend/retrieval/search.py): how papers are       *)
(* selected for a question, and passages from the papers.                  *)
(*                                                                         *)
(* The channels (keywords, vectors, landmark papers) and the reranker are  *)
(* inputs: rankings and scores.  Papers are numbers, in the order of their *)
(* ids, which breaks ties.  Scores are whole numbers; a reciprocal rank is *)
(* a part of RrfScale.                                                     *)
(***************************************************************************)
EXTENDS Ranking, SequencesExt

CONSTANTS
    Papers,             \* arxiv_ids of papers whose state is not "discovered"
    Row,                \* [Papers -> [year, categories, landmark, foundational, accepted, name, prior]]
    Archive,            \* [categories -> categories]: "cs.LG" is of the archive "cs"
    Terms,              \* names that the question or a query contains
    Cites,              \* citation_edges: pairs <<citing, cited>>
    RrfScale, RrfK,     \* rrf_k
    VectorK, GateK,     \* paper_vector_k, keyword_gate_k (0: no gate)
    RerankTopN,         \* rerank_top_n
    AnchorK,            \* anchor_k
    PriorBoost, NameBoost, CarryBoost,
    MinScore,           \* rerank_min_score
    MinPapersKept, PapersForAnswer,
    ChainFrom, ChainMax,
    ChunkK, PassageTopN,    \* chunk_keyword_k and chunk_vector_k, passage_rerank_top_n
    PassageMin, DetailMin, DetailMax, MaxPerPaper, PassagesForAnswer, MinPassagesKept

ASSUME RetrievalAssumption ==
    /\ Papers \subseteq Nat /\ IsFiniteSet(Papers)
    /\ \A p \in Papers : /\ Row[p].year \in Nat \ {0} /\ Row[p].prior \in Int
                         /\ Row[p].categories \subseteq DOMAIN Archive
                         /\ {Row[p].landmark, Row[p].foundational, Row[p].accepted} \subseteq BOOLEAN
    /\ Cites \subseteq Papers \X Papers
    /\ {PriorBoost, NameBoost, CarryBoost} \subseteq Int
    /\ {RrfScale, RrfK, VectorK, GateK, RerankTopN, AnchorK, MinPapersKept, PapersForAnswer} \subseteq Nat
    /\ {ChunkK, PassageTopN, ChainFrom, ChainMax, DetailMax, MaxPerPaper, PassagesForAnswer, MinPassagesKept} \subseteq Nat
    /\ \A rank \in 1..Cardinality(Papers) : RrfScale % (RrfK + rank) = 0

-----------------------------------------------------------------------------
\* What the rows say of a paper.

\* A filter that a thread does not have: 0, or the empty set.
NoFilters == [from |-> 0, to |-> 0, categories |-> {}, ids |-> {}]

\* Filters.sql, and bm25_sql in the terms of the index.
Passes(f, p) ==
    /\ f.from # 0 => Row[p].year >= f.from
    /\ f.to # 0 => Row[p].year <= f.to
    /\ f.categories # {} => \E c \in Row[p].categories : {c, Archive[c]} \cap f.categories # {}
    /\ f.ids # {} => p \in f.ids

\* ANCHOR_FILTER
Anchor(p) == Row[p].landmark \/ Row[p].foundational

\* source_status, is_preprint
IsPreprint(p) == ~Anchor(p) /\ ~Row[p].accepted

\* title_name, name_matches
NameMatches(p) == Row[p].name \in Terms

-----------------------------------------------------------------------------
\* Rankings.

Place(x, s) == CHOOSE i \in DOMAIN s : s[i] = x

\* sorted() by a field: stable, the greatest first.
BestFirst(s, field) ==
    LET order == Ranked([i \in DOMAIN s |-> s[i][field]])
    IN  [i \in DOMAIN order |-> s[order[i]]]

\* Documents by the sum of what each list gives to its own, ties by id.
BySum(gives) ==
    LET found == UNION {DOMAIN gives[i] : i \in DOMAIN gives}
        sum   == [d \in found |->
                    SumFunction([i \in DOMAIN gives |-> IF d \in DOMAIN gives[i] THEN gives[i][d] ELSE 0])]
        order == Ranked(sum)
    IN  [i \in DOMAIN order |-> [id |-> order[i], rrf |-> sum[order[i]]]]

Ids(s) == [i \in DOMAIN s |-> s[i].id]

\* rrf_fuse
RrfFuse(rankings) ==
    LET gives(s) == [d \in ToSet(s) |-> RrfScale \div (RrfK + Place(d, s))]
    IN  BySum([i \in DOMAIN rankings |-> gives(rankings[i])])

\* merge_query_lists
MergeQueryLists(fused) ==
    LET gives(s) == [d \in ToSet(Ids(s)) |-> s[Place(d, Ids(s))].rrf]
    IN  BySum([q \in DOMAIN fused |-> gives(fused[q])])

\* gate_keyword_hits
GateKeywordHits(keyword, vectorTop) == At(keyword, {i \in DOMAIN keyword : keyword[i] \in ToSet(vectorTop)})

-----------------------------------------------------------------------------
\* select_papers.  What the channels answer: for each query a keyword, a vector, and two
\* anchor rankings (the nearest landmark papers, and those whose title matches).

\* The queries' conditions keep every channel to the papers that pass.
Filtered(rankings, f) ==
    LET passing(s) == At(s, {i \in DOMAIN s : Passes(f, s[i])})
        anchors(s) == At(s, {i \in DOMAIN s : Passes(f, s[i]) /\ Anchor(s[i])})
    IN  [keyword |-> passing(rankings.keyword), vector |-> passing(rankings.vector),
         near |-> anchors(rankings.near), title |-> anchors(rankings.title)]

Fused(channels) ==
    LET vcTop == First(Max({VectorK, GateK}), channels.vector)
        kw == IF GateK = 0 THEN channels.keyword
              ELSE GateKeywordHits(channels.keyword, First(GateK, vcTop))
    IN  RrfFuse(<<kw, First(VectorK, vcTop)>>)

\* anchor_papers, merged over the queries by their rank.
Anchors(channels) ==
    LET lists == [q \in DOMAIN channels |->
                     First(AnchorK, Ids(RrfFuse(<<channels[q].near, channels[q].title>>)))]
        gives(s) == [d \in ToSet(s) |-> RrfScale \div Place(d, s)]
    IN  First(AnchorK, Ids(BySum([q \in DOMAIN lists |-> gives(lists[q])])))

NotIn(s, ids) == At(s, {i \in DOMAIN s : s[i] \notin ids})

\* The rerank's candidates: found, then landmark papers, then what the thread brings along.
Candidates(channels, carryover, pinned) ==
    LET found == First(RerankTopN, Ids(MergeQueryLists([q \in DOMAIN channels |-> Fused(channels[q])])))
        anchored == found \o (IF AnchorK = 0 THEN <<>> ELSE NotIn(Anchors(channels), ToSet(found)))
        carried == anchored \o NotIn(carryover, ToSet(anchored))
    IN  [ids |-> carried \o NotIn(pinned, ToSet(carried)), anchorOnly |-> ToSet(anchored) \ ToSet(found)]

Clamped(x) == Max({0, Min({1, x})})

FinalScore(p, rerank, carryover) ==
    rerank + PriorBoost * Clamped(Row[p].prior)
           + (IF Contains(carryover, p) THEN CarryBoost ELSE 0)
           + (IF NameMatches(p) THEN NameBoost ELSE 0)

\* apply_prior, after the boosts: sort, and drop what is below the floor but for the best.
AbovePrior(hits) ==
    LET ranked == BestFirst(hits, "final")
    IN  At(ranked, {i \in DOMAIN ranked : i <= MinPapersKept \/ ranked[i].rerank >= MinScore})

\* Mutant of KeepPinned: pinned papers only skip the floor.
KeepPinnedWithin(hits, selected, pinned) ==
    First(PapersForAnswer,
          BestFirst(selected \o At(hits, {i \in DOMAIN hits : Contains(pinned, hits[i].id)
                                                             /\ ~Contains(selected, hits[i])}),
                    "final"))

\* keep_pinned
KeepPinned(hits, selected, pinned) ==
    LET pinnedHits == At(hits, {i \in DOMAIN hits : hits[i].id \in ToSet(pinned)})
        others     == At(selected, {i \in DOMAIN selected : selected[i].id \notin ToSet(pinned)})
        room       == Max({0, PapersForAnswer - Len(pinnedHits)})
    IN  BestFirst(pinnedHits \o First(room, others), "final")

SelectPapers(c, carryover, pinned, stateOf, rerank) ==
    LET hits == [i \in DOMAIN c.ids |->
                   LET p == c.ids[i]
                   IN  [id |-> p, state |-> stateOf[p], rerank |-> rerank[p],
                        final |-> FinalScore(p, rerank[p], carryover), chained |-> FALSE]]
    IN  KeepPinned(hits, AbovePrior(hits), pinned)

\* step_chain: references of the best papers that score like the papers selected.
ChainAdded(hits, stateOf, rerank) ==
    LET top    == ToSet(First(ChainFrom, Ids(hits)))
        refs   == {e[2] : e \in {e \in Cites : e[1] \in top}} \ ToSet(Ids(hits))
        least  == Min({hits[i].rerank : i \in DOMAIN hits})
        order  == First(ChainMax, Ranked([p \in {p \in refs : rerank[p] >= least} |-> rerank[p]]))
    IN  IF hits = <<>> THEN <<>>
        ELSE [i \in DOMAIN order |-> LET p == order[i]
                                     IN  [id |-> p, state |-> stateOf[p], rerank |-> rerank[p],
                                          final |-> rerank[p], chained |-> TRUE]]

-----------------------------------------------------------------------------
\* select_passages: the chunks that the channels return (two lists for each query, the question
\* among them), fused, and then those that the thread has cited.
FusedChunks(lists, reused) ==
    LET fused == First(PassageTopN, Ids(RrfFuse([i \in DOMAIN lists |-> First(ChunkK, lists[i])])))
    IN  ToSet(fused) \cup reused

\* select_evidence: passages are [paper, chunk, score].

\* Adds the first of some passages while there is room, until there are limit of them.
Taking(ranked, chosen, limit, some) ==
    LET perPaper(c, i) == Cardinality({j \in c : ranked[j].paper = ranked[i].paper})
        take(c, i) == IF /\ Cardinality(c) < limit /\ i \in some \ c
                         /\ perPaper(c, i) < MaxPerPaper
                      THEN c \cup {i} ELSE c
        upTo[i \in 0..Len(ranked)] == IF i = 0 THEN chosen ELSE take(upTo[i - 1], i)
    IN  upTo[Len(ranked)]

\* Mutant of SelectEvidence: the detail passes fill from any paper.
SelectEvidenceAnyDetail(passages) ==
    LET ranked   == BestFirst(passages, "score")
        from(least) == {i \in DOMAIN ranked : ranked[i].score >= least}
        relevant == Taking(ranked, {}, PassagesForAnswer, from(PassageMin))
        detailed == Taking(ranked, relevant, Min({PassagesForAnswer, Cardinality(relevant) + DetailMax}),
                           from(DetailMin))
        filled   == Taking(ranked, detailed, Min({MinPassagesKept, PassagesForAnswer}), DOMAIN ranked)
    IN  At(ranked, filled)

SelectEvidence(passages) ==
    LET ranked   == BestFirst(passages, "score")
        from(least) == {i \in DOMAIN ranked : ranked[i].score >= least}
        relevant == Taking(ranked, {}, PassagesForAnswer, from(PassageMin))
        papers   == {ranked[i].paper : i \in relevant}
        detailed == Taking(ranked, relevant, Min({PassagesForAnswer, Cardinality(relevant) + DetailMax}),
                           {i \in from(DetailMin) : ranked[i].paper \in papers})
        filled   == Taking(ranked, detailed, Min({MinPassagesKept, PassagesForAnswer}), DOMAIN ranked)
    IN  At(ranked, filled)
=============================================================================
