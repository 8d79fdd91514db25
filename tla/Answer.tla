------------------------------- MODULE Answer -------------------------------
(***************************************************************************)
(* What the steps of a run compute (backend/agent/run.py, agent/text.py,   *)
(* agent/verify.py): papers, passages, a draft with source tags, verified  *)
(* sentences.  Runs has the order, the rows and the failures of the steps. *)
(*                                                                         *)
(* Meanwhile papers become ready and chunks are replaced, and a restart    *)
(* makes the run begin again with what it has saved.  The models' answers  *)
(* are inputs: any draft, any verdict on any sentence.                     *)
(***************************************************************************)
EXTENDS Retrieval

CONSTANTS
    MaxQueries,     \* max_queries
    Rankings,       \* what the channels may rank for a query: [keyword, vector, near, title]
    Rerankings,     \* scores that the reranker may give: functions on Papers
    Filters,        \* filters that the run may have
    Earlier,        \* sentences of earlier answers, in order: [verdict, sources]
    Pinnable,       \* papers that the user may pin
    ChunksOf,       \* [Papers -> [1..2 -> sets of chunk ids]]: first chunked, and chunked anew
    ChunkLists(_),  \* lists that the channels may return of chunks: two for each query
    PassageScores,  \* scores of a chunk
    Unready,        \* papers that may not have their full text yet
    ReadAnswers(_), \* notes the model may take from sources: sequences of what it says their source is
    ReadMinNotes, MaxNotes,
    Drafts(_),      \* drafts the model may write from sources: sequences of [text, tags]
    Texts,          \* what a sentence may say
    NamesIn,        \* [Texts -> sets of names]
    AltersMath,     \* texts with formulas of their own
    SaysPreprint,   \* texts that call something a preprint
    TextNames,      \* [paper or chunk id -> names in the abstract or the chunk]
    TitleNames,     \* [Papers -> names in title, authors and venue]
    MaxPins,        \* bound: papers pinned
    MaxRestarts,    \* bound: restarts while the run is under way
    MaxRechunked    \* bound: papers chunked anew meanwhile

ChunkIds == UNION {UNION {ChunksOf[p][g] : g \in 1..2} : p \in Papers}

\* source_id, and what a model may write in its place.
Sources == ({"a"} \X Papers) \cup ({"c"} \X ChunkIds)
Tags    == {"a", "c"} \X Nat

Verdicts == {"supported", "partial_rewritten", "unsupported_removed"}

ASSUME AnswerAssumption ==
    /\ {MaxQueries, MaxNotes} \subseteq Nat \ {0}
    /\ {MaxRestarts, MaxRechunked, MaxPins, ReadMinNotes} \subseteq Nat
    /\ \A r \in Rankings : {r.keyword, r.vector, r.near, r.title} \subseteq Seq(Papers)
    /\ Rerankings \subseteq [Papers -> Int] /\ PassageScores \subseteq Int
    /\ Earlier \subseteq Seq([verdict: Verdicts, sources: Seq(Sources)])
    /\ Pinnable \subseteq Papers
    /\ Unready \subseteq Papers
    /\ ChunkIds \subseteq Nat \ {0} /\ IsFiniteSet(ChunkIds) /\ ChunkIds \cap Papers = {}
    /\ \A chunks \in SUBSET ChunkIds : ChunkLists(chunks) \subseteq Seq(Seq(chunks))
    /\ \A sources \in SUBSET Sources : /\ ReadAnswers(sources) \subseteq Seq(Tags)
                                      /\ Drafts(sources) \subseteq Seq([text: Texts, tags: SUBSET Tags])
    /\ AltersMath \subseteq Texts /\ SaysPreprint \subseteq Texts

VARIABLES
    store,      \* of each paper: [ready, chunks]
    thread,     \* what the thread brings along, while it is looked at: [papers, chunks, pinned, filters]
    saved,      \* the payloads of the run's rows: [queries, papers, chain, passages, read, draft]
    pc,         \* the step whose result the run has
    search,     \* what the selection has been made from
    hits,       \* the papers selected
    scored,     \* the passages that select_evidence has chosen from
    passages,   \* the passages it has chosen
    notes,      \* the sources of the notes taken from them
    drafts,     \* the sentences of the answer: [text, tags]
    judged,     \* what the verifier has called supported: [seq, text, span]
    finals,     \* [seq, text, verdict, tags, spurious]
    restarts

ctxVars  == <<store, thread>>
workVars == <<search, hits, scored, passages, notes, drafts, judged, finals>>
vars == <<ctxVars, saved, pc, workVars, restarts>>

Recorded(row) == row # <<>>     \* a row is <<payload>> once it is recorded

Source(passage) == IF passage.chunk = 0 THEN <<"a", passage.paper>> ELSE <<"c", passage.chunk>>

SourcesOf(ps) == {Source(ps[i]) : i \in DOMAIN ps}

PaperOf(source) == IF source[1] = "a" THEN source[2]
                   ELSE CHOOSE p \in Papers : \E g \in 1..2 : source[2] \in ChunksOf[p][g]

Kept(verdict) == verdict \in {"supported", "partial_rewritten"}

\* thread_cited: papers in the order of their first citation, and chunks.
ThreadCited(sentences) ==
    LET kept  == At(sentences, {i \in DOMAIN sentences : Kept(sentences[i].verdict)})
        cited == FlattenSeq([i \in DOMAIN kept |-> kept[i].sources])
        first == At(cited, {i \in DOMAIN cited : \A k \in 1..(i - 1) : PaperOf(cited[k]) # PaperOf(cited[i])})
    IN  [papers |-> [i \in DOMAIN first |-> PaperOf(first[i])],
         chunks |-> {s[2] : s \in {s \in ToSet(cited) : s[1] = "c"}}]

Init ==
    /\ \E waiting \in SUBSET Unready :
         store = [p \in Papers |-> [ready |-> p \notin waiting,
                                    chunks |-> IF p \in waiting THEN {} ELSE ChunksOf[p][1]]]
    /\ \E sentences \in Earlier, f \in Filters :
         thread = [papers |-> ThreadCited(sentences).papers, chunks |-> ThreadCited(sentences).chunks,
                   pinned |-> <<>>, filters |-> f]
    /\ saved = [queries |-> <<>>, papers |-> <<>>, chain |-> <<>>, passages |-> <<>>, read |-> <<>>, draft |-> <<>>]
    /\ pc = "asked"
    /\ search = <<>> /\ hits = <<>> /\ scored = <<>> /\ passages = <<>> /\ notes = <<>> /\ drafts = <<>>
    /\ judged = {} /\ finals = <<>>
    /\ restarts = 0

Goes(from, to) == pc = from /\ pc' = to

StateOf == [p \in Papers |-> store[p].ready]

-----------------------------------------------------------------------------
\* The pipeline beside the run.

BecomesReady(p) ==
    /\ ~store[p].ready
    /\ pc = "found"
    /\ store' = [store EXCEPT ![p] = [ready |-> TRUE, chunks |-> ChunksOf[p][1]]]
    /\ UNCHANGED <<thread, saved, pc, workVars, restarts>>

\* A second chunk job of the paper commits: its chunks have new ids.
Rechunked(p) ==
    /\ store[p].ready /\ store[p].chunks = ChunksOf[p][1]
    /\ pc \in {"evidence", "written"}
    /\ Cardinality({q \in Papers : store[q].chunks = ChunksOf[q][2]}) < MaxRechunked
    /\ store' = [store EXCEPT ![p].chunks = ChunksOf[p][2]]
    /\ UNCHANGED <<thread, saved, pc, workVars, restarts>>

-----------------------------------------------------------------------------
\* The user beside the run: pins made after the selection change nothing.

PinPaper(p) ==
    /\ pc = "asked" /\ ~Recorded(saved.papers)
    /\ ~Contains(thread.pinned, p) /\ Len(thread.pinned) < MaxPins
    /\ thread' = [thread EXCEPT !.pinned = Append(@, p)]
    /\ UNCHANGED <<store, saved, pc, workVars, restarts>>

UnpinPaper(p) ==
    /\ pc = "asked" /\ ~Recorded(saved.papers)
    /\ Contains(thread.pinned, p)
    /\ thread' = [thread EXCEPT !.pinned = NotIn(@, {p})]
    /\ UNCHANGED <<store, saved, pc, workVars, restarts>>

-----------------------------------------------------------------------------
\* REWRITE and FIND_PAPERS

\* step_rewrite: as many of the queries as there may be, or the question itself.
Rewrite ==
    /\ Goes("asked", "rewritten")
    /\ IF Recorded(saved.queries) THEN UNCHANGED saved
       ELSE \E n \in 0..(MaxQueries + 1) :
              saved' = [saved EXCEPT !.queries = <<IF n = 0 THEN 1 ELSE Min({n, MaxQueries})>>]
    /\ UNCHANGED <<ctxVars, workVars, restarts>>

\* search, without passages.
Search(candidates, rerank) == SelectPapers(candidates, thread.papers, thread.pinned, StateOf, rerank)

FindPapers ==
    /\ Goes("rewritten", "selected")
    /\ ~Recorded(saved.papers)
    /\ \E rankings \in [1..saved.queries[1] -> Rankings], rerank \in Rerankings :
         LET channels == [q \in DOMAIN rankings |-> Filtered(rankings[q], thread.filters)]
         IN  /\ \E candidates \in {Candidates(channels, thread.papers, thread.pinned)} :
                  hits' = Search(candidates, rerank)
             /\ search' = <<[channels |-> channels, rerank |-> rerank]>>
             /\ saved' = [saved EXCEPT !.papers = <<hits'>>]
    /\ UNCHANGED <<ctxVars, scored, passages, notes, drafts, judged, finals, restarts>>

\* Of what the thread brings along, only the chunks are looked at again.
OnlyChunks == [thread EXCEPT !.papers = <<>>, !.pinned = <<>>, !.filters = NoFilters]

Selected ==
    /\ Goes("selected", "found")
    /\ search' = <<>> /\ thread' = OnlyChunks
    /\ UNCHANGED <<store, saved, hits, scored, passages, notes, drafts, judged, finals, restarts>>

\* load_hits: in the saved order, with the states the papers have now.
Loaded(hs) == [i \in DOMAIN hs |-> [hs[i] EXCEPT !.state = store[hs[i].id].ready]]

LoadSelected ==
    /\ Goes("rewritten", "found")
    /\ Recorded(saved.papers)
    /\ hits' = Loaded(saved.papers[1]) /\ thread' = OnlyChunks
    /\ UNCHANGED <<store, saved, search, scored, passages, notes, drafts, judged, finals, restarts>>

\* FETCH, then _refresh_states.
Fetched ==
    /\ Goes("found", "fetched")
    /\ hits' = Loaded(hits)
    /\ UNCHANGED <<ctxVars, saved, search, scored, passages, notes, drafts, judged, finals, restarts>>

\* CHAIN, of a deep run before its deadline.
Chain ==
    /\ Goes("fetched", "chained")
    /\ ~Recorded(saved.chain)
    /\ \E rerank \in Rerankings :
         saved' = [saved EXCEPT !.chain = <<ChainAdded(hits, StateOf, rerank)>>]
    /\ hits' = hits \o saved'.chain[1]
    /\ UNCHANGED <<ctxVars, search, scored, passages, notes, drafts, judged, finals, restarts>>

LoadChain ==
    /\ Goes("fetched", "chained")
    /\ Recorded(saved.chain)
    /\ hits' = hits \o Loaded(saved.chain[1])
    /\ UNCHANGED <<ctxVars, saved, search, scored, passages, notes, drafts, judged, finals, restarts>>

-----------------------------------------------------------------------------
\* PASSAGES: select_passages

AllChunks == UNION {store[p].chunks : p \in Papers}

\* Of the chunks of the ready papers, and of those that the thread has cited and that still exist.
FoundChunks ==
    LET ready == {hits[i].id : i \in {i \in DOMAIN hits : hits[i].state}}
    IN  {FusedChunks(lists, thread.chunks \cap AllChunks) :
           lists \in ChunkLists(UNION {store[p].chunks : p \in ready})}

ChunkPassages(score) ==
    LET order == Ascending(DOMAIN score)
    IN  [i \in DOMAIN order |->
           [paper |-> PaperOf(<<"c", order[i]>>), chunk |-> order[i], score |-> score[order[i]]]]

\* Papers without full text contribute their abstract, with the score of the paper.
Abstracts ==
    LET bare == At(hits, {i \in DOMAIN hits : ~hits[i].state})
    IN  [i \in DOMAIN bare |-> [paper |-> bare[i].id, chunk |-> 0, score |-> bare[i].rerank]]

Bare(ps) == [i \in DOMAIN ps |-> [paper |-> ps[i].paper, chunk |-> ps[i].chunk]]

SelectPassages ==
    /\ \/ pc = "fetched" /\ ~Recorded(saved.chain)
       \/ pc = "chained"
    /\ pc' = "chosen"
    /\ ~Recorded(saved.passages)
    /\ \E found \in FoundChunks : \E score \in [found -> PassageScores] :
         scored' = ChunkPassages(score) \o Abstracts
    /\ passages' = SelectEvidence(scored')
    /\ saved' = [saved EXCEPT !.passages = <<Bare(passages')>>]
    /\ UNCHANGED <<ctxVars, search, hits, notes, drafts, judged, finals, restarts>>

\* The scores are not looked at again; nor are the papers and the chunks of the thread.
Chosen ==
    /\ Goes("chosen", IF passages = <<>> THEN "nothing" ELSE "evidence")
    /\ scored' = <<>> /\ hits' = <<>> /\ thread' = [OnlyChunks EXCEPT !.chunks = {}]
    /\ passages' = Bare(passages)
    /\ saved' = [saved EXCEPT !.queries = <<1>>, !.papers = <<<<>>>>, !.chain = IF Recorded(@) THEN <<<<>>>> ELSE @]
    /\ UNCHANGED <<store, search, notes, drafts, judged, finals, restarts>>

\* load_passages: a chunk that is gone is left out, unless the abstract of its paper is there.
Reloaded(ps) ==
    LET abstracts == {ps[i].paper : i \in {i \in DOMAIN ps : ps[i].chunk = 0}}
        there(p)  == p.chunk = 0 \/ p.chunk \in AllChunks \/ p.paper \in abstracts
        kept      == At(ps, {i \in DOMAIN ps : there(ps[i])})
    IN  [i \in DOMAIN kept |-> IF kept[i].chunk \in AllChunks THEN kept[i] ELSE [kept[i] EXCEPT !.chunk = 0]]

LoadPassages ==
    /\ \/ pc = "fetched" /\ ~Recorded(saved.chain)
       \/ pc = "chained"
    /\ Recorded(saved.passages)
    /\ passages' = Reloaded(saved.passages[1])
    /\ pc' = IF passages' = <<>> THEN "nothing" ELSE "evidence"
    /\ hits' = <<>>
    /\ UNCHANGED <<ctxVars, saved, search, scored, notes, drafts, judged, finals, restarts>>

-----------------------------------------------------------------------------
\* READ: claims from the passages, each with its source.

\* Notes about what is not a source are dropped.
Valid(reply) == First(MaxNotes, At(reply, {i \in DOMAIN reply : reply[i] \in SourcesOf(passages)}))

\* step_read: too few notes are read once more, and the longer list is kept.
ReadNotes ==
    LET read == {Valid(reply) : reply \in ReadAnswers(SourcesOf(passages))}
        short(n) == Len(n) < ReadMinNotes /\ ReadMinNotes < Len(passages)
    IN  UNION {IF short(n) THEN {IF Len(again) > Len(n) THEN again ELSE n : again \in read} ELSE {n} : n \in read}

\* Past the deadline, each passage is a note.
Skimmed == [i \in DOMAIN passages |-> Source(passages[i])]

Read ==
    /\ Goes("evidence", "read")
    /\ IF Recorded(saved.read)
         THEN notes' = saved.read[1] /\ UNCHANGED saved
         ELSE notes' \in ReadNotes \cup {Skimmed} /\ saved' = [saved EXCEPT !.read = <<notes'>>]
    /\ UNCHANGED <<ctxVars, search, hits, scored, passages, drafts, judged, finals, restarts>>

-----------------------------------------------------------------------------
\* WRITE

\* repair_tag: a chunk's tag with the id of a paper means its abstract.
Repaired(tag, allowed) ==
    IF tag \in allowed THEN {tag}
    ELSE IF tag[1] = "c" /\ tag[2] \in Papers THEN {<<"a", tag[2]>>} \cap allowed
    ELSE {}

\* Mutant of ParseAnswer: what is not a source is kept as a tag.
ParseAnswerTrusting(raw, allowed) ==
    [i \in DOMAIN raw |-> [text |-> raw[i].text, tags |-> raw[i].tags]]

\* parse_answer: the tags that name a source, or can be made to.
ParseAnswer(raw, allowed) ==
    [i \in DOMAIN raw |-> [text |-> raw[i].text,
                            tags |-> UNION {Repaired(t, allowed) : t \in raw[i].tags}]]

\* mostly_untagged: fewer than half of the sentences have a source.
MostlyUntagged(raw) ==
    LET parsed == ParseAnswer(raw, SourcesOf(passages))
    IN  2 * Cardinality({i \in DOMAIN parsed : parsed[i].tags # {}}) < Max({1, Len(parsed)})

\* Such a draft is written once more.
WriteAgain ==
    /\ Goes("read", "again")
    /\ ~Recorded(saved.draft)
    /\ \E raw \in Drafts(ToSet(notes)) : MostlyUntagged(raw)
    /\ UNCHANGED <<ctxVars, saved, workVars, restarts>>

\* step_write
Write ==
    /\ pc \in {"read", "again"} /\ pc' = "written"
    /\ IF ~Recorded(saved.draft)
         THEN \E raw \in Drafts(ToSet(notes)) :
                /\ pc = "again" \/ ~MostlyUntagged(raw)
                /\ saved' = [saved EXCEPT !.draft = <<raw>>]
         ELSE UNCHANGED saved
    /\ drafts' = ParseAnswer(saved'.draft[1], SourcesOf(passages))
    /\ UNCHANGED <<ctxVars, search, hits, scored, passages, notes, judged, finals, restarts>>

-----------------------------------------------------------------------------
\* VERIFY

\* What the verifier may say of a sentence; NoReply if its answer leaves the sentence out.
NoReply == [verdict |-> "none", rewrite |-> "", span |-> <<>>]

Replies ==
    LET spans == SourcesOf(passages) \cup {<<>>}
    IN  {NoReply}
        \cup [verdict: {"unsupported", "partial"}, rewrite: {""}, span: {<<>>}]
        \cup [verdict: {"supported"}, rewrite: {""}, span: spans]
        \cup [verdict: {"partial"}, rewrite: Texts, span: spans]

\* spurious_preprint_attribution
Spurious(rewrite, d) ==
    /\ \A t \in d.tags : ~IsPreprint(PaperOf(t))
    /\ rewrite \in SaysPreprint /\ d.text \notin SaysPreprint

\* source_texts: a source comes with title, authors and venue of its paper.
Mentions(source) == TextNames[source[2]] \cup TitleNames[PaperOf(source)]

\* missing_names
MissingNames(text, tags) == NamesIn[text] \ UNION {Mentions(t) : t \in tags}

Final(i, d, text, verdict, spurious) ==
    [seq |-> i, text |-> text, verdict |-> verdict, tags |-> d.tags, spurious |-> spurious]

Removed(i, d) == Final(i, d, d.text, "unsupported_removed", FALSE)

\* _apply_verdict: a supported or rewritten sentence also needs a span of a source it cites
\* (find_span), no formula of the verifier's own (altered_math), and no name its sources lack.
ApplyVerdict(i, d, v) ==
    LET rewritten == v.verdict = "partial"
        spurious  == rewritten /\ Spurious(v.rewrite, d)
        text      == IF rewritten /\ ~spurious THEN v.rewrite ELSE d.text
    IN  IF \/ v = NoReply
           \/ v.verdict = "unsupported" \/ (rewritten /\ v.rewrite = "")
           \/ v.span \notin d.tags
           \/ rewritten /\ text # d.text /\ text \in AltersMath
           \/ MissingNames(text, d.tags) # {}
        THEN Removed(i, d)
        ELSE Final(i, d, text, IF rewritten THEN "partial_rewritten" ELSE "supported", spurious)

\* The verifier is shown the items in batches, in their order; a reply names the index of its
\* sentence in the batch.
Position(i, items) == Cardinality({j \in items : j < i})

Heard(items, said, i) == said[Position(i, DOMAIN items)]

\* One round of verify_sentences over the items, a function from their numbers to sentences.
Judge(items, said) ==
    judged' = judged \cup
        {[seq |-> i, text |-> items[i].text, span |-> Heard(items, said, i).span] :
         i \in {i \in DOMAIN items : Heard(items, said, i).verdict = "supported"}}

Check(items, said, i) == ApplyVerdict(i, items[i], Heard(items, said, i))

Said(items) == [0..(Cardinality(DOMAIN items) - 1) -> Replies]

\* Sentences without a source are removed, the others are checked.
Verify ==
    /\ Goes("written", "checked")
    /\ LET valid == {i \in DOMAIN drafts : drafts[i].tags # {}}
           items == [i \in valid |-> drafts[i]]
       IN  \E said \in Said(items) :
             /\ Judge(items, said)
             /\ finals' = [i \in DOMAIN drafts |->
                             IF i \in valid THEN Check(items, said, i) ELSE Removed(i, drafts[i])]
    /\ UNCHANGED <<ctxVars, saved, search, hits, scored, passages, notes, drafts, restarts>>

\* Mutant of Rechecked: a rewrite stays unless it is called unsupported.
RecheckedPartial(f, r) ==
    IF r.verdict = "unsupported_removed" THEN [f EXCEPT !.verdict = r.verdict]
    ELSE IF f.spurious THEN [f EXCEPT !.verdict = "supported", !.spurious = FALSE]
    ELSE f

\* A rewrite is kept only if it is now supported; one that only added an attribution has left
\* the sentence as it was.
Rechecked(f, r) ==
    IF r.verdict # "supported" THEN [f EXCEPT !.verdict = "unsupported_removed", !.spurious = FALSE]
    ELSE IF f.spurious THEN [f EXCEPT !.verdict = "supported", !.spurious = FALSE]
    ELSE f

Recheck ==
    /\ Goes("checked", "verified")
    /\ LET again == {i \in DOMAIN finals : finals[i].verdict = "partial_rewritten"}
           items == [i \in again |-> [text |-> finals[i].text, tags |-> finals[i].tags]]
       IN  \E said \in Said(items) :
             /\ Judge(items, said)
             /\ finals' = [i \in DOMAIN finals |->
                             IF i \in again THEN Rechecked(finals[i], Check(items, said, i)) ELSE finals[i]]
    /\ UNCHANGED <<ctxVars, saved, search, hits, scored, passages, notes, drafts, restarts>>

\* _store; a note about a chunk which is gone makes the transaction fail.
Store ==
    /\ pc = "verified"
    /\ LET noted == ToSet(notes) \cap SourcesOf(passages)
       IN  pc' = IF \E s \in noted : s[1] = "c" /\ s[2] \notin AllChunks THEN "failed" ELSE "stored"
    /\ UNCHANGED <<ctxVars, saved, workVars, restarts>>

-----------------------------------------------------------------------------
\* The worker restarts: what the run had in memory is gone.
Restart ==
    /\ pc \notin {"asked", "nothing", "stored", "failed"}
    /\ restarts < MaxRestarts
    /\ restarts' = restarts + 1
    /\ pc' = "asked"
    /\ search' = <<>> /\ hits' = <<>> /\ scored' = <<>> /\ passages' = <<>> /\ notes' = <<>>
    /\ drafts' = <<>> /\ judged' = {} /\ finals' = <<>>
    /\ UNCHANGED <<ctxVars, saved>>

Next ==
    \/ \E p \in Papers : BecomesReady(p) \/ Rechunked(p)
    \/ \E p \in Pinnable : PinPaper(p) \/ UnpinPaper(p)
    \/ Rewrite \/ FindPapers \/ Selected \/ LoadSelected \/ Fetched \/ Chain \/ LoadChain
    \/ SelectPassages \/ Chosen \/ LoadPassages
    \/ Read \/ WriteAgain \/ Write \/ Verify \/ Recheck \/ Store
    \/ Restart

Spec == Init /\ [][Next]_vars
-----------------------------------------------------------------------------
\* Types.
TypeOK ==
    /\ store \in [Papers -> [ready: BOOLEAN, chunks: SUBSET ChunkIds]]
    /\ pc \in {"asked", "rewritten", "selected", "read", "again", "found", "fetched", "chained", "chosen", "evidence", "nothing",
               "written", "checked", "verified", "stored", "failed"}
    /\ \A i \in DOMAIN hits : hits[i].id \in Papers /\ hits[i].state \in BOOLEAN
    /\ \A i \in DOMAIN passages : passages[i].paper \in Papers /\ passages[i].chunk \in ChunkIds \cup {0}
    /\ \A i \in DOMAIN drafts : drafts[i].text \in Texts
    /\ \A i \in DOMAIN finals : finals[i].verdict \in Verdicts
    /\ restarts \in 0..MaxRestarts

(***************************************************************************)
(* What is selected (select_papers): the pinned papers, all of them, and   *)
(* beside them as many as fit of the best that are above the floor or      *)
(* among the best few; none that the filters exclude, unless the thread    *)
(* brings it along, and none that only the keywords found, if there is a   *)
(* gate.                                                                   *)
(***************************************************************************)
Reach(c) == (IF GateK = 0 THEN ToSet(c.keyword) ELSE {}) \cup ToSet(c.vector) \cup ToSet(c.near) \cup ToSet(c.title)

Reached(channels) == UNION {Reach(channels[q]) : q \in DOMAIN channels}

Beside(h) == h.id \notin ToSet(thread.pinned)

SelectionInv ==
    pc = "selected" =>
        LET ids     == ToSet(Ids(hits))
            others  == {i \in DOMAIN hits : Beside(hits[i])}
            brought == ToSet(thread.papers) \cup ToSet(thread.pinned)
            passing == {p \in Papers : Passes(thread.filters, p)}
            score(p) == FinalScore(p, search[1].rerank[p], thread.papers)
        IN  /\ Cardinality(ids) = Len(hits)
            /\ ToSet(thread.pinned) \subseteq ids
            /\ Cardinality(others) <= Max({0, PapersForAnswer - Len(thread.pinned)})
            /\ ids \subseteq brought \cup (Reached(search[1].channels) \cap passing)
            /\ \A i, j \in DOMAIN hits : i < j => hits[i].final >= hits[j].final
            /\ \A i \in others : hits[i].rerank >= MinScore
                                   \/ Cardinality({j \in ids : score(j) > hits[i].final}) < MinPapersKept
            /\ \A p \in ToSet(thread.papers) \ ids : search[1].rerank[p] >= MinScore =>
                   /\ Cardinality(others) = Max({0, PapersForAnswer - Len(thread.pinned)})
                   /\ \A i \in others : hits[i].final >= score(p)

(***************************************************************************)
(* The evidence (the docstring of select_evidence): best first, within     *)
(* both limits; a relevant passage is left out only if better ones of its  *)
(* paper or of all took its place; a weaker one is there only as detail of *)
(* a paper that has a relevant one, so many at most, or to make up the     *)
(* minimum; and below the minimum nothing that fits is left out.           *)
(***************************************************************************)
EvidenceInv ==
    pc = "chosen" =>
        LET in      == ToSet(passages)
            out     == ToSet(scored) \ in
            of(p)   == {q \in in : q.paper = p.paper}
            rel     == {p \in in : p.score >= PassageMin}
            detail  == {p \in in \ rel : p.score >= DetailMin /\ \E q \in rel : q.paper = p.paper}
        IN  /\ in \subseteq ToSet(scored) /\ Cardinality(in) = Len(passages) /\ Len(passages) <= PassagesForAnswer
            /\ \A i, j \in DOMAIN passages : i < j => passages[i].score >= passages[j].score
            /\ \A p \in in : Cardinality(of(p)) <= MaxPerPaper
            /\ \A p \in out : p.score >= PassageMin =>
                   \/ Cardinality({q \in of(p) : q.score >= p.score}) = MaxPerPaper
                   \/ Cardinality({q \in in : q.score >= p.score}) = PassagesForAnswer
            /\ \/ in = rel \cup detail /\ Cardinality(detail) <= DetailMax
               \/ Cardinality(in) <= MinPassagesKept
            /\ Cardinality(in) < Min({MinPassagesKept, PassagesForAnswer}) =>
                   \A p \in out : Cardinality(of(p)) = MaxPerPaper

(***************************************************************************)
(* "Runs left 'running' by a restart resume" with the evidence they had:   *)
(* the passages that a run cites from are those of its recorded step, all  *)
(* of them and in order unless a paper was chunked anew meanwhile, its     *)
(* notes are about them, and its draft keeps the sources that are left     *)
(* (load_passages, parse_answer).                                          *)
(***************************************************************************)
EvidenceIsKept ==
    /\ TypeOK
    /\ pc \in {"evidence", "read", "again", "written", "checked", "verified", "stored"} =>
         /\ SourcesOf(passages) \cup ToSet(notes) \subseteq SourcesOf(saved.passages[1])
         /\ (\A p \in Papers : store[p].chunks # ChunksOf[p][2]) => passages = saved.passages[1]
         /\ \A i \in DOMAIN drafts : drafts[i].tags \subseteq SourcesOf(passages)

(***************************************************************************)
(* Each sentence of the draft ends once, in its place, and one that is     *)
(* kept cites sources of the run; the verifier has called it supported, as *)
(* it is worded, with a span of a source it cites; and each name in it is  *)
(* in those sources ("a rewrite cannot carry an unsupported detail over",  *)
(* verify_sentences), whichever replies are missing or belong to others.   *)
(***************************************************************************)
KeptIsSupported ==
    pc \in {"verified", "stored"} =>
        /\ DOMAIN finals = DOMAIN drafts
        /\ \A i \in DOMAIN finals :
             LET f == finals[i]
             IN  /\ f.seq = i
                 /\ f.verdict # "unsupported_removed" =>
                      /\ f.tags # {} /\ f.tags \subseteq SourcesOf(passages)
                      /\ \E j \in judged : /\ j.seq = i /\ j.text = f.text /\ j.span \in f.tags
                      /\ NamesIn[f.text] \subseteq UNION {Mentions(t) : t \in f.tags}
                      /\ f.verdict = "supported" => f.text = drafts[i].text
=============================================================================
