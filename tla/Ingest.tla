------------------------------- MODULE Ingest -------------------------------
(***************************************************************************)
(* How records of arXiv become rows that can be searched: the weekly pass  *)
(* over the Kaggle snapshot (ingest/weekly.py, metadata.py), the nightly   *)
(* harvest in the fetcher (nightly.py, fetcher.py; off by default), and    *)
(* post_harvest after either: foundational papers, embeddings, scores.     *)
(* A version of a record stands for its title and abstract; days are those *)
(* of arXiv's dates.  A batch of the metadata pass is one record.          *)
(***************************************************************************)
EXTENDS Integers, FiniteSets, FiniteSetsExt

CONSTANTS
    Records,      \* arXiv records
    InWindow,     \* those MetadataPass.process keeps: in the window or a landmark
    MinCites,     \* corpus.foundational_min_fulltext_citations
    FirstRunDays, \* FIRST_RUN_DAYS
    MaxDay, MaxVersion, MaxPasses,   \* bounds on what happens outside
    MaxFaults     \* how many kinds of faults may happen, once each

FaultKinds == {"weeklyCrash", "harvestFail", "postCrash", "sameDay"}

ASSUME ConstantsAssumption ==
    /\ IsFiniteSet(Records) /\ InWindow \subseteq Records
    /\ {MinCites, FirstRunDays, MaxDay, MaxVersion, MaxPasses, MaxFaults} \subseteq Nat

VARIABLES
    today,
    source,    \* arXiv: per record its version (0: none yet) and the day it changed
    zip,       \* the snapshot Kaggle offers, and the stamp of its file
    row,       \* papers: per record state, version, version of its embedding (0: NULL), flags
    marks,     \* Redis: snapshot:last_update_date, snapshot:zip_stamp, OAI_LAST_HARVEST
    weekly,    \* the weekly pass
    harvest,   \* the harvests queued (their `from` days) and the one that runs
    post,      \* post_harvest, at the end of the weekly pass and as a job of its own
    jobs,      \* post_harvest_job: the days queued, and the days whose job id is taken
    \* history
    mixed,     \* records written while a post_harvest was embedding them
    older,     \* records over whose harvested row the weekly pass wrote an older version
    happened   \* faults so far

outside == <<today, source, zip>>
history == <<mixed, older>>
vars == <<outside, row, marks, weekly, harvest, post, jobs, history, happened>>

NoDay == -1
Rank == [absent |-> 0, discovered |-> 1, metadata_done |-> 2, signals_done |-> 3, fulltext |-> 4]
Owners == {"weekly", "job"}
PostSteps == {"idle", "found", "promote", "embed", "apply", "score", "store"}

NoPost == [at |-> "idle", taken |-> [r \in {} |-> 0]]
IdlePass == [at |-> "idle", copy |-> [r \in {} |-> 0], todo |-> {}, stamp |-> 0]
NoHarvest == [on |-> FALSE, from |-> NoDay, started |-> NoDay, todo |-> {}]

Init ==
    /\ today = 0
    /\ source = [r \in Records |-> [ver |-> IF r \in InWindow THEN 0 ELSE 1, day |-> 0]]
    /\ zip = [copy |-> source, stamp |-> 0]
    /\ row = [r \in Records |->
                [state |-> "absent", ver |-> 0, emb |-> 0, cites |-> 0, found |-> FALSE]]
    /\ marks = [day |-> NoDay, stamp |-> 0, harvest |-> NoDay]
    /\ weekly = IdlePass
    /\ harvest = [queued |-> {}, run |-> NoHarvest, count |-> 0]
    /\ post = [o \in Owners |-> NoPost]
    /\ jobs = [queued |-> {}, taken |-> {}]
    /\ mixed = {} /\ older = {} /\ happened = {}

Happens(kind) ==
    /\ kind \notin happened /\ Cardinality(happened) < MaxFaults
    /\ happened' = happened \cup {kind}

-----------------------------------------------------------------------------
\* Outside: arXiv, Kaggle, reference lookups, the citation graph, full text.

NewDay ==
    /\ today < MaxDay /\ today' = today + 1
    /\ UNCHANGED <<source, zip, row, marks, weekly, harvest, post, jobs, history, happened>>

\* A record in the window is published or changed; the older ones are there.
Change(r) ==
    /\ source[r].ver < MaxVersion
    /\ source' = [source EXCEPT ![r] = [ver |-> @.ver + 1, day |-> today]]
    /\ UNCHANGED <<today, zip, row, marks, weekly, harvest, post, jobs, history, happened>>

Snapshot ==
    /\ zip.stamp + harvest.count < MaxPasses /\ zip.copy # source
    /\ zip' = [copy |-> source, stamp |-> zip.stamp + 1]
    /\ UNCHANGED <<today, source, row, marks, weekly, harvest, post, jobs, history, happened>>

Sets(r, record) ==
    /\ row' = [row EXCEPT ![r] = record]
    /\ UNCHANGED <<outside, marks, weekly, harvest, post, jobs, history, happened>>

\* A cited paper gets a row from fetch_meta; full texts that cite it are counted;
\* the pipeline gives a scored paper its full text.
Discover(r) == row[r].state = "absent" /\ source[r].ver > 0
               /\ Sets(r, [row[r] EXCEPT !.state = "discovered", !.ver = source[r].ver])
Cite(r) == row[r].state = "discovered" /\ row[r].cites < MinCites /\ Sets(r, [row[r] EXCEPT !.cites = @ + 1])
GetFullText(r) == row[r].state = "signals_done" /\ Sets(r, [row[r] EXCEPT !.state = "fulltext"])

-----------------------------------------------------------------------------
\* The metadata pass: process and write_batch.

\* Mutant of Upserted: the embedding survives a new text.
UpsertedKeeping(old, v) ==
    [old EXCEPT !.ver = v, !.state = IF @ \in {"absent", "discovered"} THEN "metadata_done" ELSE @]

\* Mutant of Upserted: an updated row starts over.
UpsertedOver(old, v) == [old EXCEPT !.ver = v, !.emb = IF v = old.ver THEN @ ELSE 0, !.state = "metadata_done"]

\* _UPSERT: a new text clears the embedding; only a new or discovered row changes state.
Upserted(old, v) ==
    [old EXCEPT !.ver = v,
                !.emb = IF v = old.ver THEN @ ELSE 0,
                !.state = IF @ \in {"absent", "discovered"} THEN "metadata_done" ELSE @]

Embedding(r) == \E o \in Owners : post[o].at = "apply" /\ r \in DOMAIN post[o].taken

Write(r, v) ==
    /\ row' = IF r \in InWindow THEN [row EXCEPT ![r] = Upserted(@, v)] ELSE row
    /\ mixed' = IF r \in InWindow /\ Embedding(r) THEN mixed \cup {r} ELSE mixed

Known(copy) == {r \in Records : copy[r].ver > 0}

\* Mutant of Since: the last day is taken for read.
SinceAfter(copy, d) == {r \in Known(copy) : copy[r].day > d}

\* Records of the snapshot that are not skipped: updated on the last day read, or later.
Since(copy, d) == {r \in Known(copy) : copy[r].day >= d}

\* Download; an unchanged file is not read again.
WeeklyStart ==
    /\ weekly.at = "idle" /\ post["weekly"].at = "idle" /\ zip.stamp > 0
    /\ marks.day = NoDay \/ marks.stamp # zip.stamp
    /\ weekly' = [at |-> "read", copy |-> zip.copy, todo |-> Since(zip.copy, marks.day), stamp |-> zip.stamp]
    /\ UNCHANGED <<outside, row, marks, harvest, post, jobs, history, happened>>

WeeklyWrite(r) ==
    /\ weekly.at = "read" /\ r \in weekly.todo
    /\ Write(r, weekly.copy[r].ver)
    /\ older' = IF weekly.copy[r].ver < row[r].ver THEN older \cup {r}
                ELSE IF weekly.copy[r].ver = source[r].ver THEN older \ {r} ELSE older
    /\ weekly' = [weekly EXCEPT !.todo = @ \ {r}]
    /\ UNCHANGED <<outside, marks, harvest, post, jobs, happened>>

\* The newest day in the file, if it has a record.
WeeklyMark ==
    /\ weekly.at = "read" /\ weekly.todo = {}
    /\ marks' = IF Known(weekly.copy) = {} THEN marks
                ELSE [marks EXCEPT !.day = Max({weekly.copy[r].day : r \in Known(weekly.copy)})]
    /\ weekly' = [weekly EXCEPT !.at = "stamp"]
    /\ UNCHANGED <<outside, row, harvest, post, jobs, history, happened>>

\* The file's stamp; then post_harvest in the same process.
WeeklyStamp ==
    /\ weekly.at = "stamp"
    /\ marks' = [marks EXCEPT !.stamp = weekly.stamp]
    /\ weekly' = IdlePass
    /\ post' = [post EXCEPT !["weekly"].at = "found"]
    /\ UNCHANGED <<outside, row, harvest, jobs, history, happened>>

\* max_tries is 1: a pass that dies waits for the next Monday.
WeeklyCrash ==
    /\ weekly.at # "idle" /\ Happens("weeklyCrash")
    /\ weekly' = IdlePass
    /\ UNCHANGED <<outside, row, marks, harvest, post, jobs, history>>

-----------------------------------------------------------------------------
\* The harvest.

\* harvest_from; our clock may be a day ahead of arXiv's.
HarvestFrom(ours) ==
    Max({0, IF marks.harvest = NoDay THEN ours - FirstRunDays ELSE marks.harvest - 1})

QueueHarvest ==
    /\ zip.stamp + harvest.count < MaxPasses
    /\ \E ours \in {today, today + 1} :
          harvest' = [harvest EXCEPT !.queued = @ \cup {HarvestFrom(ours)}, !.count = @ + 1]
    /\ UNCHANGED <<outside, row, marks, weekly, post, jobs, history, happened>>

\* The fetcher takes the job and asks the repository for its date.
HarvestStart(f) ==
    /\ ~harvest.run.on /\ f \in harvest.queued
    /\ LET from == IF f > today THEN today ELSE f
       IN harvest' = [harvest EXCEPT !.queued = @ \ {f},
              !.run = [on |-> TRUE, from |-> from, started |-> today,
                       todo |-> {r \in Known(source) : source[r].day >= from}]]
    /\ UNCHANGED <<outside, row, marks, weekly, post, jobs, history, happened>>

\* A page has the record as it is now.
HarvestPage(r) ==
    /\ harvest.run.on /\ r \in harvest.run.todo
    /\ Write(r, source[r].ver)
    /\ older' = older \ {r}
    /\ harvest' = [harvest EXCEPT !.run.todo = @ \ {r}]
    /\ UNCHANGED <<outside, marks, weekly, post, jobs, happened>>

\* A refused page, an OAI error, a fetcher that dies: no mark, the next night repeats it.
HarvestFail ==
    /\ harvest.run.on /\ Happens("harvestFail")
    /\ harvest' = [harvest EXCEPT !.run = NoHarvest]
    /\ UNCHANGED <<outside, row, marks, weekly, post, jobs, history>>

\* The day kept in OAI_LAST_HARVEST is the repository's when the harvest began.
Marked(run) == run.started

\* post_harvest_job has the day in its id: arq drops it while that id is known.
HarvestEnd ==
    /\ harvest.run.on /\ harvest.run.todo = {}
    /\ marks' = [marks EXCEPT !.harvest = Marked(harvest.run)]
    /\ harvest' = [harvest EXCEPT !.run = NoHarvest]
    /\ IF Marked(harvest.run) \in jobs.taken THEN Happens("sameDay") /\ UNCHANGED jobs
       ELSE UNCHANGED happened
            /\ jobs' = [queued |-> jobs.queued \cup {Marked(harvest.run)},
                        taken |-> jobs.taken \cup {Marked(harvest.run)}]
    /\ UNCHANGED <<outside, row, weekly, post, mixed, older>>

-----------------------------------------------------------------------------
\* post_harvest.

PostStart(d) ==
    /\ d \in jobs.queued /\ post["job"].at = "idle"
    /\ jobs' = [jobs EXCEPT !.queued = @ \ {d}]
    /\ post' = [post EXCEPT !["job"].at = "found"]
    /\ UNCHANGED <<outside, row, marks, weekly, harvest, history, happened>>

\* Papers that are cited often enough are looked at, and those with the flag.
PostFound(o) ==
    /\ post[o].at = "found"
    /\ row' = [r \in Records |-> [row[r] EXCEPT
                !.found = r \notin InWindow /\ row[r].ver > 0 /\ row[r].cites >= MinCites]]
    /\ post' = [post EXCEPT ![o].at = "promote"]
    /\ UNCHANGED <<outside, marks, weekly, harvest, jobs, history, happened>>

PostPromote(o) ==
    /\ post[o].at = "promote"
    /\ row' = [r \in Records |-> [row[r] EXCEPT
                !.state = IF row[r].found /\ @ = "discovered" THEN "metadata_done" ELSE @]]
    /\ post' = [post EXCEPT ![o].at = "embed"]
    /\ UNCHANGED <<outside, marks, weekly, harvest, jobs, history, happened>>

\* Mutant of Unembedded: only rows that have a score are read.
UnembeddedScored == {r \in Records : row[r].emb = 0 /\ Rank[row[r].state] > 2}

Unembedded == {r \in Records : row[r].emb = 0 /\ Rank[row[r].state] > 1}

\* The texts are read, embedded for minutes, and applied: one batch here.
PostEmbedRead(o) ==
    /\ post[o].at = "embed"
    /\ post' = [post EXCEPT ![o] = [at |-> "apply", taken |-> [r \in Unembedded |-> row[r].ver]]]
    /\ UNCHANGED <<outside, row, marks, weekly, harvest, jobs, history, happened>>

PostEmbedApply(o) ==
    /\ post[o].at = "apply"
    /\ row' = [r \in Records |-> IF r \in DOMAIN post[o].taken
                                 THEN [row[r] EXCEPT !.emb = post[o].taken[r]] ELSE row[r]]
    /\ post' = [post EXCEPT ![o] = [NoPost EXCEPT !.at = "score"]]
    /\ UNCHANGED <<outside, marks, weekly, harvest, jobs, history, happened>>

\* _RECOMPUTE: every metadata_done row is among the staged ones.
PostScoreRead(o) ==
    /\ post[o].at = "score"
    /\ post' = [post EXCEPT ![o] =
           [at |-> "store", taken |-> [r \in {q \in Records : row[q].state = "metadata_done"} |-> 0]]]
    /\ UNCHANGED <<outside, row, marks, weekly, harvest, jobs, history, happened>>

\* _APPLY looks at the state the row has now.
Scored(state) == IF state = "metadata_done" THEN "signals_done" ELSE state

PostScoreStore(o) ==
    /\ post[o].at = "store"
    /\ row' = [r \in Records |-> IF r \in DOMAIN post[o].taken
                                 THEN [row[r] EXCEPT !.state = Scored(@)] ELSE row[r]]
    /\ post' = [post EXCEPT ![o] = NoPost]
    /\ UNCHANGED <<outside, marks, weekly, harvest, jobs, history, happened>>

\* keep_result has passed: the id is free again.
PostForgotten(d) ==
    /\ d \in jobs.taken \ jobs.queued /\ post["job"].at = "idle"
    /\ jobs' = [jobs EXCEPT !.taken = @ \ {d}]
    /\ UNCHANGED <<outside, row, marks, weekly, harvest, post, history, happened>>

\* The process dies or a step raises; what is committed stays.
PostCrash(o) ==
    /\ post[o].at # "idle" /\ Happens("postCrash")
    /\ post' = [post EXCEPT ![o] = NoPost]
    /\ UNCHANGED <<outside, row, marks, weekly, harvest, jobs, history>>

-----------------------------------------------------------------------------
Next ==
    \/ NewDay \/ Snapshot
    \/ \E r \in Records : Discover(r) \/ GetFullText(r)
    \/ \E r \in InWindow : Change(r)
    \/ \E r \in Records \ InWindow : Cite(r)
    \/ WeeklyStart \/ WeeklyMark \/ WeeklyStamp \/ WeeklyCrash
    \/ \E r \in Records : WeeklyWrite(r) \/ HarvestPage(r)
    \/ QueueHarvest \/ HarvestEnd \/ HarvestFail
    \/ \E d \in 0..(MaxDay + 1) : HarvestStart(d) \/ PostStart(d) \/ PostForgotten(d)
    \/ \E o \in Owners : \/ PostFound(o) \/ PostPromote(o) \/ PostEmbedRead(o)
                         \/ PostEmbedApply(o) \/ PostScoreRead(o) \/ PostScoreStore(o) \/ PostCrash(o)

Spec == Init /\ [][Next]_vars

-----------------------------------------------------------------------------
\* Types: a row that is there has a text, a mark is a day that has come, the records a
\* pass still has to write are in what it reads, and an id in the queue is taken.
Texts == [ver : Nat, day : 0..today]

PostOK ==
    /\ post = [o \in Owners |-> [at |-> post[o].at, taken |-> post[o].taken]]
    /\ \A o \in Owners : /\ post[o].at \in PostSteps /\ DOMAIN post[o].taken \subseteq Records
                         /\ post[o].taken \in [DOMAIN post[o].taken -> Nat]

WeeklyOK ==
    /\ weekly.at \in {"idle", "read", "stamp"}
    /\ weekly.at # "idle" =>
          /\ weekly = [at |-> weekly.at, copy |-> weekly.copy, todo |-> weekly.todo, stamp |-> weekly.stamp]
          /\ weekly.copy \in [Records -> Texts] /\ weekly.todo \subseteq Known(weekly.copy)
          /\ weekly.stamp \in 0..zip.stamp /\ marks.stamp <= weekly.stamp
          /\ post["weekly"].at = "idle"

HarvestOK ==
    /\ harvest \in [queued : SUBSET Nat, count : Nat,
                    run : [on : BOOLEAN, from : Nat \cup {NoDay}, started : NoDay..today, todo : SUBSET Records]]
    /\ harvest.run.todo \subseteq Known(source)
    /\ harvest.run.on => harvest.run.started >= 0 /\ marks.harvest <= harvest.run.started

TypeOK ==
    /\ today \in Nat /\ source \in [Records -> Texts]
    /\ zip \in [copy : [Records -> Texts], stamp : Nat]
    /\ row \in [Records -> [state : DOMAIN Rank, ver : Nat, emb : Nat, cites : 0..MinCites, found : BOOLEAN]]
    /\ \A r \in Records : (row[r].state = "absent") = (row[r].ver = 0)
    /\ marks \in [day : NoDay..today, stamp : 0..zip.stamp, harvest : NoDay..today]
    /\ WeeklyOK /\ HarvestOK /\ PostOK
    /\ jobs \in [queued : SUBSET (0..today), taken : SUBSET (0..today)] /\ jobs.queued \subseteq jobs.taken
    /\ mixed \in SUBSET Records /\ older \in SUBSET Records /\ happened \in SUBSET FaultKinds

Behind(r) == row[r].ver < source[r].ver

\* A record whose row is behind arXiv changed on or after the day the weekly pass remembers,
\* so a later snapshot is read for it: whatever the two passes, their crashes and the day of
\* the snapshot (metadata.py skips only `ud < since`).
NothingPassedOver == \A r \in InWindow : Behind(r) => source[r].day >= marks.day

\* A snapshot whose stamp is remembered, and so is not read again, is in the rows.
StampMeansIngested ==
    marks.stamp = zip.stamp => \A r \in InWindow : row[r].ver >= zip.copy[r].ver

\* Likewise for the harvest, but for rows over which the weekly pass wrote an older
\* snapshot's text since.  (The first harvest looks FirstRunDays back, by a clock that may be
\* a day ahead; this is said of the days before that.)
HarvestsJoin ==
    marks.harvest # NoDay /\ today < FirstRunDays =>
        \A r \in InWindow \ older : Behind(r) => source[r].day >= HarvestFrom(today)

\* The three promises of the marks the passes leave in Redis, over well-typed rows.
MarksInv == TypeOK /\ NothingPassedOver /\ StampMeansIngested /\ HarvestsJoin

\* An embedding is that of the text of the row, unless the text came while the old one was
\* being embedded (abstract_embed.py applies the vectors by id only).
EmbeddingIsCurrent == \A r \in Records \ mixed : row[r].emb \in {0, row[r].ver}

Ahead(o, steps) == post[o].at \in steps
ToEmbed == {"found", "promote", "embed"}
ToScore == ToEmbed \cup {"apply", "score"}
Coming == weekly.at # "idle" \/ harvest.run.on \/ jobs.queued # {}

\* A row that waits for its embedding or its score has the end of a pass, or a post_harvest
\* that has not read it yet, ahead of it; and a foundational row that is still `discovered`
\* the statement that promotes it.  Without this a paper is invisible to search until some
\* later pass, which is what each of the faults does.
PostFollows ==
    happened = {} => \A r \in Records :
        /\ Rank[row[r].state] > 1 /\ row[r].emb = 0 =>
              \/ Coming
              \/ \E o \in Owners : Ahead(o, ToEmbed) \/ (Ahead(o, {"apply"}) /\ r \in DOMAIN post[o].taken)
        /\ row[r].state = "metadata_done" =>
              \/ Coming
              \/ \E o \in Owners : Ahead(o, ToScore) \/ (Ahead(o, {"store"}) /\ r \in DOMAIN post[o].taken)
        /\ row[r].found /\ row[r].state = "discovered" => \E o \in Owners : Ahead(o, {"promote"})

\* No pass takes a paper back: an upsert or a late _APPLY leaves the state of a row that has
\* gone on (the full text of a paper would be fetched and parsed again).
StateNeverGoesBack == [][\A r \in Records : Rank[row'[r].state] >= Rank[row[r].state]]_vars
=============================================================================
