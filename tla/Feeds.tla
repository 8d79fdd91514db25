------------------------------- MODULE Feeds -------------------------------
(***************************************************************************)
(* Feeds and their digests (backend/agent/digest.py, app/routers/feeds.py, *)
(* digest_job of workers/arq_worker.py): every Monday the worker builds a  *)
(* digest for each feed, one after the other, and the API may ask for one  *)
(* at any time and of any number of days, while feeds are changed and      *)
(* deleted, papers arrive, and the nightly passes bring new texts of       *)
(* papers, whose vectors they clear.  Nothing keeps two builds apart.      *)
(*                                                                         *)
(* A feed's query is one of Queries, its keywords are the set of texts     *)
(* that they occur in, a text is a paper with a number; scores and         *)
(* similarities are inputs.  Time is counted in ticks, WeekTicks to a      *)
(* week, and a week begins on a Monday at 03:00.                           *)
(*                                                                         *)
(* FeedsInit, FeedsNext and FeedsSpec have names of their own, so that     *)
(* SelectionProofs can extend this module beside Answer.                   *)
(***************************************************************************)
EXTENDS Ranking, SequencesExt

CONSTANTS
    Feeds,              \* numbers, in the order of created_at
    Preprints,          \* numbers, in the order of arxiv_id
    Published,          \* [Preprints -> ticks]: v1_date
    Queries,            \* what query_text may be
    KeywordSets,        \* what keywords may match: sets of texts
    Created,            \* [Feeds -> [text, keywords]]: as create_feed has inserted them
    AskedDays,          \* what the API is asked for, 0 for no number
    MaxVersion,         \* the texts that a paper may have in turn are 1..MaxVersion
    LastVersion,        \* [Preprints -> Versions]: bound, the last one
    Similarity,         \* [Queries -> [Preprints -> [texts -> Int]]]: of the query and the vector
    Relevance,          \* [Queries -> [Preprints -> [texts -> Int]]]: the reranker's scores
    VectorCandidates, RerankCandidates, TopN, DigestMinScore, KeywordBoost,
    WeekTicks, DigestTicks,     \* a week, and feeds.digest_days
    MaxTick, MaxCalls, MaxFaults,   \* bounds: time, calls of the API, faults
    MaxEvents           \* bound: calls, faults and new texts of papers together

NoText == "NULL"
FaultKinds == {"cut", "deleted", "late"}
Versions == 1..MaxVersion

ASSUME FeedsAssumption ==
    /\ Feeds \subseteq Nat /\ Preprints \subseteq Nat /\ IsFiniteSet(Feeds) /\ IsFiniteSet(Preprints)
    /\ Published \in [Preprints -> Nat] /\ NoText \notin Queries
    /\ MaxVersion \in Nat \ {0} /\ LastVersion \in [Preprints -> Versions] /\ AskedDays \subseteq Int
    /\ KeywordSets \subseteq SUBSET (Preprints \X Versions)
    /\ Created \in [Feeds -> [text: Queries, keywords: KeywordSets]]
    /\ {Similarity, Relevance} \subseteq [Queries -> [Preprints -> [Versions -> Int]]]
    /\ RerankCandidates <= VectorCandidates
    /\ {VectorCandidates, RerankCandidates, TopN, WeekTicks, DigestTicks, MaxTick} \subseteq Nat \ {0}
    /\ {DigestMinScore, KeywordBoost} \subseteq Int /\ {MaxCalls, MaxEvents} \subseteq Nat
    /\ DigestTicks >= WeekTicks

VARIABLES
    now,
    paper,      \* of each paper: version, the text it has (0: no row), and vec, the text its
                \* abstract_embedding is of (0: none)
    feed,       \* of each feed: there, text, emb (the text its query_embedding is of), keywords
    digest,     \* [feed -> [period -> <<>> or <<content>>]]
    job,        \* the worker's digest jobs: of the cron entry, and of the API
    calls,
    \* history
    monday,     \* what the last weekly job found: [period, feeds, papers], without the papers
                \* that got another text while it ran
    raced,      \* feeds whose query changed while a build was embedding it
    happened    \* faults so far

feedsVars == <<now, paper, feed, digest, job, calls, monday, raced, happened>>

Jobs == {"weekly", "asked"}
Periods == 0..(MaxTick \div WeekTicks)

Absent == [version |-> 0, vec |-> 0]
NoPapers == [p \in Preprints |-> Absent]

\* days: what the API has asked for; read: history, the table as it was searched.
Idle == [at |-> "idle", of |-> 0, todo |-> <<>>, day |-> 0, days |-> 0, read |-> NoPapers, kept |-> <<>>]
NoMonday == [period |-> 0, feeds |-> {}, papers |-> {}]

FeedsInit ==
    /\ now = 1
    /\ paper = NoPapers
    /\ feed = [f \in Feeds |-> [there |-> TRUE, text |-> Created[f].text, emb |-> NoText,
                                keywords |-> Created[f].keywords]]
    /\ digest = [f \in Feeds |-> [w \in Periods |-> <<>>]]
    /\ job = [j \in Jobs |-> Idle]
    /\ calls = 0
    /\ monday = NoMonday /\ raced = {} /\ happened = {}

Room == calls + Cardinality(happened)
          + Cardinality({v \in Preprints \X Versions : 1 < v[2] /\ v[2] <= paper[v[1]].version}) < MaxEvents

Happens(kind) ==
    /\ Room /\ kind \notin happened /\ Cardinality(happened) < MaxFaults
    /\ happened' = happened \cup {kind}

\* period_of: the ISO week.
PeriodOf(t) == t \div WeekTicks

There == {f \in Feeds : feed[f].there}

-----------------------------------------------------------------------------
\* Time, and what the metadata passes bring.

\* Time goes by; on a Monday the cron entry queues the weekly job.
Tick ==
    /\ now < MaxTick
    /\ now' = now + 1
    /\ IF job["weekly"].at = "idle" THEN UNCHANGED happened ELSE Happens("late")
    /\ IF now' % WeekTicks = 0
         THEN /\ job["weekly"].at = "idle"
              /\ job' = [job EXCEPT !["weekly"].at = "queued"]
         ELSE UNCHANGED job
    /\ UNCHANGED <<paper, feed, digest, calls, monday, raced>>

\* write_batch: a new row, or another text of a row, whose vector is cleared.
Arrives(p) ==
    /\ Published[p] <= now /\ paper[p].version = 0
    /\ paper' = [paper EXCEPT ![p].version = 1]
    /\ UNCHANGED <<now, feed, digest, job, calls, monday, raced, happened>>

Rewritten(p) ==
    /\ Room
    /\ paper[p].version \in 1..(LastVersion[p] - 1)
    /\ paper' = [paper EXCEPT ![p] = [version |-> @.version + 1, vec |-> 0]]
    /\ monday' = IF job["weekly"].at = "idle" THEN monday ELSE [monday EXCEPT !.papers = @ \ {p}]
    /\ UNCHANGED <<now, feed, digest, job, calls, raced, happened>>

\* embed_abstracts: the vector is of the text that the pass has read, an older one perhaps.
Embed(p) ==
    /\ paper[p].vec = 0
    /\ \E read \in 1..paper[p].version : paper' = [paper EXCEPT ![p].vec = read]
    /\ UNCHANGED <<now, feed, digest, job, calls, monday, raced, happened>>

-----------------------------------------------------------------------------
\* The API.

Called == Room /\ calls < MaxCalls /\ calls' = calls + 1

Builds(j, f) == \E i \in DOMAIN job[j].todo : job[j].todo[i].id = f
Embeds(j, f) == \E i \in DOMAIN job[j].todo : job[j].todo[i].id = f /\ job[j].todo[i].emb = NoText

\* Mutant of Updated: the embedding stays.
UpdatedKeeping(old, text, kws) == [old EXCEPT !.text = text, !.keywords = kws]

\* update_feed: another text clears the embedding.
Updated(old, text, kws) ==
    [old EXCEPT !.text = text, !.keywords = kws, !.emb = IF text = old.text THEN @ ELSE NoText]

UpdateFeed(f) ==
    /\ feed[f].there /\ Called
    /\ \E text \in Queries, kws \in KeywordSets :
         /\ <<text, kws>> # <<feed[f].text, feed[f].keywords>>
         /\ feed' = [feed EXCEPT ![f] = Updated(@, text, kws)]
         /\ raced' = IF text # feed[f].text /\ \E j \in Jobs : Embeds(j, f) THEN raced \cup {f} ELSE raced
    /\ UNCHANGED <<now, paper, digest, job, monday, happened>>

\* delete_feed: its digests go with it.
DeleteFeed(f) ==
    /\ feed[f].there /\ Called
    /\ feed' = [feed EXCEPT ![f].there = FALSE]
    /\ digest' = [digest EXCEPT ![f] = [w \in Periods |-> <<>>]]
    /\ IF Builds("weekly", f) THEN Happens("deleted") ELSE UNCHANGED happened
    /\ UNCHANGED <<now, paper, job, monday, raced>>

\* run_digest: no job id of its own, so the worker takes it whatever else it builds.
RunDigest(f) ==
    /\ feed[f].there /\ Called
    /\ job["asked"].at = "idle"
    /\ \E days \in AskedDays :
         job' = [job EXCEPT !["asked"] = [Idle EXCEPT !.at = "queued", !.of = f, !.days = days]]
    /\ UNCHANGED <<now, paper, feed, digest, monday, raced, happened>>

-----------------------------------------------------------------------------
\* build_digest.

RowOf(f) == [id |-> f, text |-> feed[f].text, emb |-> feed[f].emb, keywords |-> feed[f].keywords]

\* digest_job: the rows of all feeds (build_all), or of the one asked for.
JobStart(j) ==
    /\ job[j].at = "queued"
    /\ LET fs == IF j = "weekly" THEN There ELSE {job[j].of} \cap There
           order == Ascending(fs)
           rows == [i \in DOMAIN order |-> RowOf(order[i])]
       IN  /\ job' = [job EXCEPT ![j] =
                               IF fs = {} THEN Idle
                               ELSE [Idle EXCEPT !.at = "next", !.todo = rows, !.days = job[j].days]]
           /\ monday' = IF j # "weekly" THEN monday
                        ELSE [period |-> PeriodOf(now), feeds |-> fs,
                              papers |-> {p \in Preprints : paper[p].vec # 0}]
    /\ UNCHANGED <<now, paper, feed, digest, calls, raced, happened>>

\* The next feed; each build has a time of its own.
BuildStart(j) ==
    /\ job[j].at = "next"
    /\ job' = [job EXCEPT ![j].at = IF Head(job[j].todo).emb = NoText THEN "embedding" ELSE "searching",
                          ![j].day = now]
    /\ UNCHANGED <<now, paper, feed, digest, calls, monday, raced, happened>>

\* ensure_query_embedding: set by id, whatever the feed's query is now.
EmbedQuery(j) ==
    /\ job[j].at = "embedding"
    /\ LET row == Head(job[j].todo)
       IN  /\ feed' = IF feed[row.id].there THEN [feed EXCEPT ![row.id].emb = row.text] ELSE feed
           /\ job' = [job EXCEPT ![j].at = "searching", ![j].todo[1].emb = row.text]
    /\ UNCHANGED <<now, paper, digest, calls, monday, raced, happened>>

\* "days or fc.digest_days" before the build.
Since(build) == build.day - (IF build.days = 0 THEN DigestTicks ELSE build.days)

\* Mutant of Window: the first day is left out.
WindowOpen(since, table) == {p \in Preprints : table[p].version # 0 /\ Published[p] > since}

\* What the table has from then on.
Window(since, table) == {p \in Preprints : table[p].version # 0 /\ Published[p] >= since}

\* Mutant of Best: one is forgotten.
BestFewer(n, score) == First(n - 1, Ranked(score))

\* The n first of the papers that have a score, the greatest first, ties by id.
Best(n, score) == First(n, Ranked(score))

\* A paper without a vector counts as not similar.
Nearness(p, emb, table) == IF table[p].vec # 0 THEN Similarity[emb][p][table[p].vec] ELSE 0

\* rank_candidates: a keyword in the text only adds to the score.
Score(p, row, table) ==
    Relevance[row.text][p][table[p].version]
    + (IF <<p, table[p].version>> \in row.keywords THEN KeywordBoost ELSE 0)

\* The nearest papers, and those with a keyword as far as its query returns them (the two
\* queries are one step); the best by similarity are scored, and of those above the floor the
\* best are kept.
SearchPapers(j) ==
    /\ job[j].at = "searching"
    /\ LET row     == Head(job[j].todo)
           window  == Window(Since(job[j]), paper)
           near    == ToSet(Best(VectorCandidates,
                                 [p \in {p \in window : paper[p].vec # 0} |-> Nearness(p, row.emb, paper)]))
           matched == {p \in window : <<p, paper[p].version>> \in row.keywords}
       IN  \E kw \in kSubset(Min({VectorCandidates, Cardinality(matched)}), matched) :
             LET scored == ToSet(Best(RerankCandidates, [p \in near \cup kw |-> Nearness(p, row.emb, paper)]))
                 above  == {p \in scored : Score(p, row, paper) >= DigestMinScore}
             IN  job' = [job EXCEPT ![j].at = "writing", ![j].read = paper,
                                    ![j].kept = Best(TopN, [p \in above |-> Score(p, row, paper)])]
    /\ UNCHANGED <<now, paper, feed, digest, calls, monday, raced, happened>>

\* The light model has summarized what was kept, if anything; one digest per feed and week.
StoreDigest(j) ==
    /\ job[j].at = "writing"
    /\ LET row  == Head(job[j].todo)
           rest == Tail(job[j].todo)
           content == [row |-> row, by |-> j, day |-> job[j].day, days |-> job[j].days,
                       read |-> job[j].read, papers |-> job[j].kept]
       IN  IF feed[row.id].there
             THEN /\ digest' = [digest EXCEPT ![row.id][PeriodOf(job[j].day)] = <<content>>]
                  /\ job' = [job EXCEPT ![j] = IF rest = <<>> THEN Idle
                                               ELSE [Idle EXCEPT !.at = "next", !.todo = rest,
                                                                 !.days = job[j].days]]
             ELSE \* the foreign key fails, and with it the job
                  /\ job' = [job EXCEPT ![j] = Idle]
                  /\ UNCHANGED digest
    /\ UNCHANGED <<now, paper, feed, calls, monday, raced, happened>>

\* The model fails, the worker stops, or the job's time is up: its only try is used up.
JobCut(j) ==
    /\ job[j].at # "idle" /\ Happens("cut")
    /\ job' = [job EXCEPT ![j] = Idle]
    /\ UNCHANGED <<now, paper, feed, digest, calls, monday, raced>>

-----------------------------------------------------------------------------
FeedsNext ==
    \/ Tick
    \/ \E p \in Preprints : Arrives(p) \/ Rewritten(p) \/ Embed(p)
    \/ \E f \in Feeds : UpdateFeed(f) \/ DeleteFeed(f) \/ RunDigest(f)
    \/ \E j \in Jobs : \/ JobStart(j) \/ BuildStart(j) \/ EmbedQuery(j) \/ SearchPapers(j)
                       \/ StoreDigest(j) \/ JobCut(j)

FeedsSpec == FeedsInit /\ [][FeedsNext]_feedsVars

-----------------------------------------------------------------------------
\* Types: a busy job has a feed, and a feed that is gone has no digest.
FeedsTypeOK ==
    /\ now \in 0..MaxTick /\ calls \in 0..MaxCalls
    /\ paper \in [Preprints -> [version: {0} \cup Versions, vec: {0} \cup Versions]]
    /\ \A f \in Feeds : feed[f].text \in Queries /\ feed[f].emb \in Queries \cup {NoText}
    /\ \A j \in Jobs : job[j].at \in {"next", "embedding", "searching", "writing"} => job[j].todo # <<>>
    /\ \A f \in Feeds \ There, w \in Periods : digest[f][w] = <<>>

(***************************************************************************)
(* The stored embedding is that of the feed's query, so digests look for   *)
(* what the feed says ("query_embedding = CASE WHEN ... THEN NULL", feeds  *)
(* router), but for feeds changed while a build was embedding the old      *)
(* query: that build's UPDATE puts the old vector under the new text, and  *)
(* nothing ever computes it anew.                                          *)
(***************************************************************************)
EmbeddingIsOfQuery ==
    FeedsTypeOK /\ \A f \in There \ raced : feed[f].emb \in {NoText, feed[f].text}

\* The papers that a weekly digest could not leave out: found by Monday and not rewritten while
\* the job ran, of the last digest_days, above the floor, and near enough to be scored.
Expected(d) ==
    LET window == {p \in Preprints : d.read[p].version # 0 /\ Published[p] >= d.day - DigestTicks}
        near(p) == Nearness(p, d.row.emb, d.read)
    IN  {p \in monday.papers \cap window :
            /\ Score(p, d.row, d.read) >= DigestMinScore
            /\ Cardinality({q \in window : near(q) >= near(p)}) <= RerankCandidates}

(***************************************************************************)
(* "Weekly: a digest for every feed" (digest_job): when the weekly job has *)
(* ended and none of the faults happened, every feed it found, if it still *)
(* exists, has a digest of the week, and of digest_days unless the API has *)
(* asked for another number since; a paper of those days that could be     *)
(* searched when the job began, and whose text did not change while it     *)
(* ran, is in the weekly digest unless as many better ones are; and what a *)
(* digest lists is from its window, best first, and above the floor ("a    *)
(* keyword only boosts").                                                  *)
(***************************************************************************)
WeekIsServed ==
    happened = {} /\ job["weekly"].at = "idle" =>
        \A f \in monday.feeds \cap There :
            /\ digest[f][monday.period] # <<>>
            /\ LET d == digest[f][monday.period][1]
                   in == ToSet(d.papers)
                   score(p) == Score(p, d.row, d.read)
               IN  /\ Cardinality(in) = Len(d.papers) /\ Len(d.papers) <= TopN
                   /\ \A i, k \in DOMAIN d.papers : i < k => score(d.papers[i]) >= score(d.papers[k])
                   /\ \A p \in in : score(p) >= DigestMinScore /\ Published[p] >= Since(d)
                   /\ d.by = "weekly" =>
                        /\ d.days = 0
                        /\ \A p \in Expected(d) \ in : Cardinality({q \in in : score(q) >= score(p)}) = TopN
=============================================================================
