------------------------------ MODULE Chunking ------------------------------
(***************************************************************************)
(* How a parsed paper is cut into chunks (backend/ingest/chunking.py):     *)
(* whole sentences, grouped up to a size, with an overlap.  Text is only   *)
(* its length; what a sentence has in tokens is an input (the tokenizer's  *)
(* counts), and so are the lengths of its words.  A document is a sequence *)
(* of sections [head, paragraphs]; a heading is a number, as long as that. *)
(***************************************************************************)
EXTENDS Integers, Sequences, FiniteSets, FiniteSetsExt, SequencesExt

CONSTANTS TargetTokens, MaxTokens, OverlapTokens, MinTokens     \* ChunkingConfig

ASSUME ChunkingAssumption ==
    /\ {TargetTokens, OverlapTokens, MinTokens} \subseteq Nat /\ MaxTokens \in Nat \ {0}

Ceil(a, b) == (a + b - 1) \div b

Total(numbers) == FoldLeft(LAMBDA sum, n : sum + n, 0, numbers)

TextLength(words) == Total(words) + Len(words) - 1

Tokens(group) == Total([i \in DOMAIN group |-> group[i].tokens])

LastOf(n, s) == SubSeq(s, Len(s) - n + 1, Len(s))

-----------------------------------------------------------------------------
\* document_layout: where each sentence is in the text.  Sections and paragraphs are two
\* characters apart (PARAGRAPH_SEP), sentences one (SENTENCE_SEP).

AddSentence(acc, section, sentence, gap) ==
    LET start == acc.pos + gap
        end   == start + TextLength(sentence.words)
    IN  [pos |-> end,
         spans |-> Append(acc.spans, [section |-> section, start |-> start, end |-> end,
                                      words |-> sentence.words, tokens |-> sentence.tokens])]

Layout(doc) ==
    LET paragraph(n, k, acc) ==
            LET sentences == doc[n].paragraphs[k]
            IN  FoldLeft(LAMBDA a, i : AddSentence(a, doc[n].head, sentences[i], IF i > 1 THEN 1 ELSE 0),
                         [acc EXCEPT !.pos = @ + 2], [i \in DOMAIN sentences |-> i])
        section(acc, n) ==
            FoldLeft(LAMBDA a, k : paragraph(n, k, a),
                     [acc EXCEPT !.pos = @ + doc[n].head + (IF n > 1 THEN 2 ELSE 0)],
                     [k \in DOMAIN doc[n].paragraphs |-> k])
    IN  FoldLeft(section, [pos |-> 0, spans |-> <<>>], [n \in DOMAIN doc |-> n]).spans

\* _split_long: equal numbers of words, with tokens in proportion to the length, rounded up.
SplitLong(s) ==
    LET per   == Max({1, Ceil(Len(s.words), Ceil(s.tokens, MaxTokens) + 1)})
        words(i) == SubSeq(s.words, (i - 1) * per + 1, Min({i * per, Len(s.words)}))
        start(i) == IF i = 1 THEN s.start ELSE s.start + TextLength(SubSeq(s.words, 1, (i - 1) * per)) + 1
        length(i) == TextLength(words(i))
    IN  [i \in 1..Ceil(Len(s.words), per) |->
            [section |-> s.section, start |-> start(i), end |-> start(i) + length(i), words |-> words(i),
             tokens |-> Ceil(s.tokens * length(i), Max({1, s.end - s.start}))]]

\* The first loop of chunk_document.
Spans(doc) ==
    LET pieces(s) == IF s.tokens > MaxTokens THEN SplitLong(s) ELSE <<s>>
        layout    == Layout(doc)
    IN  FlattenSeq([i \in DOMAIN layout |-> pieces(layout[i])])

\* _overlap: what fits of the end of a group, never all of it.
Overlap(group) ==
    LastOf(Max({n \in 0..Len(group) - 1 : Tokens(LastOf(n, group)) <= OverlapTokens}), group)

\* One span in the second loop: the group is closed before it, or not.  fresh counts the spans
\* that were not carried over from the last group.
AddSpan(acc, span) ==
    LET tokens    == Tokens(acc.current)
        elsewhere == acc.current # <<>> /\ span.section # Last(acc.current).section
        overMax   == tokens + span.tokens > MaxTokens
        close     == /\ acc.fresh > 0
                     /\ \/ tokens + span.tokens > TargetTokens /\ tokens >= MinTokens
                        \/ overMax
                        \/ elsewhere /\ tokens >= MinTokens
        carried   == IF elsewhere THEN <<>> ELSE Overlap(acc.current)
        fits      == Tokens(carried) + span.tokens <= MaxTokens
    IN  IF close
        THEN [groups |-> Append(acc.groups, acc.current), fresh |-> 1,
              current |-> Append(IF fits THEN carried ELSE <<>>, span)]
        ELSE [acc EXCEPT !.fresh = @ + 1,
                         !.current = Append(IF acc.fresh = 0 /\ overMax THEN <<>> ELSE @, span)]

\* What is left is a group, or joins the last one if it is small and fits.
LastGroup(acc) ==
    LET new == LastOf(acc.fresh, acc.current)
    IN  IF acc.fresh = 0 THEN acc.groups
        ELSE IF /\ acc.groups # <<>> /\ Tokens(new) < MinTokens
                /\ Tokens(Last(acc.groups)) + Tokens(new) <= MaxTokens
        THEN [acc.groups EXCEPT ![Len(acc.groups)] = @ \o new]
        ELSE Append(acc.groups, acc.current)

Groups(doc) == LastGroup(FoldLeft(AddSpan, [groups |-> <<>>, current |-> <<>>, fresh |-> 0], Spans(doc)))

ChunkDocument(doc) ==
    LET groups == Groups(doc)
    IN  [i \in DOMAIN groups |->
            [section |-> groups[i][1].section, tokens |-> Tokens(groups[i]),
             start |-> groups[i][1].start, end |-> Last(groups[i]).end]]

-----------------------------------------------------------------------------
(***************************************************************************)
(* What chunks are for: a reader is shown the text from start to end, and  *)
(* the search may miss nothing.  Every sentence is in the chunks, and      *)
(* whole in one of them unless it had to be split; the chunks are in       *)
(* order and each ends later than the one before; two share at most the    *)
(* overlap, and not across sections; only a piece that cannot be split is larger than the maximum;  *)
(* a chunk is smaller than the minimum only if what follows does not fit;  *)
(* and two sections are in one chunk only if one of its sides is small.    *)
(***************************************************************************)
CutsWell(doc) ==
    LET groups == Groups(doc)
        spans  == Spans(doc)
        chunks == ChunkDocument(doc)
        parts(s)  == {p \in ToSet(spans) : s.start <= p.start /\ p.start < s.end}
        shared(i) == ToSet(groups[i]) \cap ToSet(groups[i + 1])
        next(i)   == SelectSeq(groups[i + 1], LAMBDA s : s \notin shared(i))[1]
        first(i, k) == SubSeq(groups[i], 1, k)
        rest(i, k)  == SubSeq(groups[i], k + 1, Len(groups[i]))
    IN  /\ \A i \in 1..Len(spans) - 1 : spans[i].end < spans[i + 1].start
        /\ \A s \in ToSet(Layout(doc)) :      \* nothing is lost but the spaces between parts
               MapThenSumSet(LAMBDA p : p.end - p.start, parts(s)) + Cardinality(parts(s)) - 1 = s.end - s.start
        /\ ToSet(spans) = UNION {ToSet(groups[i]) : i \in DOMAIN groups}
        /\ \A s \in ToSet(Layout(doc)) : s.tokens <= MaxTokens =>
               \E i \in DOMAIN chunks : chunks[i].start <= s.start /\ s.end <= chunks[i].end
        /\ \A s \in ToSet(spans) : \A i \in DOMAIN chunks :
               chunks[i].start <= s.start /\ s.start < chunks[i].end => s \in ToSet(groups[i])
        /\ \A i \in 1..Len(chunks) - 1 :
               /\ chunks[i].start < chunks[i + 1].start /\ chunks[i].end < chunks[i + 1].end
               /\ Tokens(SetToSeq(shared(i))) <= OverlapTokens
               /\ \A s \in shared(i) : Last(groups[i]).section = next(i).section
               /\ chunks[i].tokens < MinTokens => chunks[i].tokens + next(i).tokens > MaxTokens
        /\ \A i \in DOMAIN chunks :
               /\ chunks[i].tokens > MaxTokens => Len(groups[i]) = 1
               /\ \A k \in 1..Len(groups[i]) - 1 : groups[i][k].section # groups[i][k + 1].section =>
                      Tokens(first(i, k)) < MinTokens \/ Tokens(rest(i, k)) < MinTokens
=============================================================================
