# arXiv research engine: verification project

A search engine and question answering system over arXiv. FastAPI routers accept
searches and research questions; an arq worker runs the research pipeline (an LLM
is asked to rewrite, read, write and verify) and the full-text pipeline (GROBID,
embeddings, citations); a single fetcher process talks to arXiv; cron jobs take over
new metadata and build digests; a web client follows the runs. They share Postgres
(papers, threads, runs), Redis (lists, locks, counters, channels, arq's queue) and a
directory of PDFs. This directory holds TLA+ models of the parts whose correctness
depends on the order of steps or on rules with many cases, what TLC checks of them,
and what TLAPS proves for every instance.

    tlc -workers 2 -config FullText_faults.cfg MCFullText     # one run
    tlapm RunsProofs.tla                                      # one module of proofs

`PROJECT.json` lists components, runs, mutants, findings, hazards and theorems, and
maps every definition to the lines it models. Paths below are relative to
`backend/` unless they begin with `frontend/`.

## 1. Inventory

| component | state it keeps | operations | who touches it |
|---|---|---|---|
| Full-text queue (`core/fetchq.py`) | Redis lists `fetch:urgent`, `fetch:bulk`; `papers.state` | `enqueue_fulltext`, `demote_fulltext`, `enqueue_meta` | API, research runs, CLI, nightly job |
| Fetcher (`workers/fetcher.py`) | the job in hand, `papers.fail_count`, `pdf_tmp/` | `recover`, `run`, `fetch_pdf`, `fetch_meta`, `harvest` | one process |
| Paper pipeline (`ingest/pipeline.py`, `workers/arq_worker.py`) | `papers.state`, `chunks`, `references_raw`, `refs:pending`, arq jobs | `parse_stage`, `chunk_embed_stage`, `finalize`, `resolve_references`, `recover` | arq worker |
| Chunking (`ingest/chunking.py`) | none | `document_layout`, `chunk_document` | pipeline, reader |
| PDF janitor (`ingest/janitor.py`) | `pdf_tmp/` | `run_janitor` | cron job of the worker |
| Citation graph (`ingest/references.py`) | `references_raw`, `citation_edges`, `stub_papers`, in-degrees; an advisory lock | `store_references`, `resolve_for_paper`, `resolve_new_papers`, `refresh_counts`, "resolve all" | worker, fetcher, CLI |
| Metadata (`ingest/weekly.py`, `nightly.py`, `metadata.py`, `abstract_embed.py`, `scores.py`) | `papers`, the marks in Redis | the weekly pass, the harvest, `post_harvest` | cron jobs, fetcher |
| Research runs (`agent/run.py`, `app/routers/threads.py`) | `research_runs.status`, `run_steps`, the answer's rows, the lock and the cancel flag of a run | `create_thread`, `follow_up`, `cancel_run`, `execute_run`, `recover` | API, arq worker |
| Fetch wait (`agent/run.py`: `FetchPlan`, `step_fetch`) | candidates, ready, goal, pending, failed; a Redis subscription | `next_batch`, `finish`, `aim_for_all`, the wait loop | a research run |
| Retrieval (`retrieval/search.py`) | none | `select_papers`, `select_passages`, `select_evidence` | runs, search pages |
| Answer (`agent/run.py`, `agent/text.py`, `agent/verify.py`) | the payloads of the run's rows, `answer_sentences` | the steps from REWRITE to VERIFY, loading them again, `_store` | a run |
| Conversation (`agent/threads.py`, `_store`, `update_summary`) | `thread_citations`, `threads.summary`, pins | numbering, folding, context of a follow-up | runs, API |
| LLM client, rate limiter (`core/llm.py`, `core/ratelimit.py`) | counters, windows and answers in Redis; a semaphore | `generate`, `_call`, `acquire` | runs, summaries, titles |
| Event streams, run page (`run_events`, `get_run`, `frontend/src/components/run-view.tsx`) | a subscription and an open page per viewer | follow a run to its end | API, browser |
| Feeds and digests (`agent/digest.py`, `app/routers/feeds.py`) | `feeds`, `digests` | `update_feed`, `delete_feed`, `run_digest`, `digest_job` | API, cron job |
| arXiv client, parsing, embeddings, indexes, collections, summaries, admin, evaluation | tables they read or upsert row by row | | |

How they meet. A caller of the queue writes `queued_fulltext` into the table and
pushes a job; the fetcher pops it, writes the PDF, then the row, then enqueues a
parse job; the worker parses, chunks and resolves references, each as a job whose
id is taken while it exists; the end of a paper is committed and then published; a
run that waits in FETCH hears of it by message or by looking into the table. A
resolution may ask the fetcher for papers that are only cited. A run is a row, an arq
job and a lock; every completed step is a row of `run_steps`, and a run that was cut
off is begun again and takes those rows for granted. What a run publishes makes open
pages load it again.

What makes this hard: nothing spans Postgres, Redis and the disk, so every
operation is a chain of separate commits that other processes, crashes and
restarts cut between; popped jobs and published messages are gone; statuses, texts
and references are read long before they are acted on; arq counts tries across
crashes and ignores an id that is taken; two rounds of the pipeline can overlap on a
paper, two builds on a feed, two passes on a record.

## 2. Modules

| module | models |
|---|---|
| `PaperLifecycle` | what the pipeline promises about a paper (abstract) |
| `FullText` | queue, fetcher, pipeline, janitor, arq worker; implements `PaperLifecycle` |
| `Chunking` | operators: where sentences are, how they are grouped into chunks |
| `Citations` | references, edges, stubs, in-degrees, metadata jobs |
| `Ingest` | weekly pass, nightly harvest, `post_harvest` |
| `Runs` | the life of a run: API, job, lock, steps, restarts |
| `FetchWait` | one run in FETCH, with the pipeline as its environment |
| `Ranking` | operators: sorting, said by ranks |
| `Retrieval` | operators: how papers and passages are selected; uses `Ranking` |
| `Answer` | what the steps of a run compute, save and load again; uses `Retrieval` |
| `Conversation` | what a thread remembers |
| `Quota` | what the daily counter promises (abstract) |
| `LLM` | calls through cache, semaphore and limiter; implements `Quota` |
| `RunView` | worker, stream, `get_run` and page |
| `Feeds` | feeds and digests, beside the arrival of papers; uses `Ranking` |
| `MC...` | values of the constants for TLC |
| `FullTextProofs` | proofs: types; no paper and no work lost; stages and the refinement |
| `RunsProofs` | proofs: types, mutual exclusion, steps and answers, threads, restarts |
| `FetchWaitProofs` | proofs: types; the plan, the minimum, the urgent queue |
| `LLMProofs` | proofs: types; cache, semaphore, requests; the refinement of `Quota` |
| `ThreadProofs` | proofs about `Conversation` and `RunView`: types; numbers; what a run is told; the end a page shows is whole |
| `CitationsProofs` | proofs: types; edges, counts, stubs; what is asked for |
| `IngestProofs` | proofs: types; states, marks, embeddings, what follows a pass |
| `SelectionProofs` | proofs about `Answer` and `Feeds`: sorting, selection, evidence; restarts; kept sentences; digests |

`RunView` and `Feeds` are extended by a module of proofs beside another component, so
names that would clash carry `View` and `Feeds` or the component's own word
(`ViewSpec`, `FeedsSpec`, `ViewTypeOK`, `SearchPapers`, ...).

In all of them a statement, a Redis command or a file operation is a step; two are
merged only where nothing that the model contains can come between, and a
transaction is one step where its locks make it one. What another component does is
an action of the environment with the guards its own model gives it.

### FullText

Rows of `papers` are `state`, `failCount`, `chunks` (rows in `chunks` or not) and
`refs` (none, stored, resolved); `document` says of the TEI file in `parsed/` whether it
has a sentence. A parse may write any, a document without a sentence is embedded and
becomes ready without chunks, and what is embedded is cut from the file as `ChunkRead`
found it. `discovered` and `metadata_done` behave as
`signals_done`. A Redis list is a set of [paper, place]; the places give the order,
`demote_fulltext` removes by paper. `fetcher` is the local state of the one fetcher
process, `client[c]` of a caller of `fetchq`, `janitor` of `run_janitor`;
`job[kind][p]` is where the arq job `kind:p` is, and "none" means that its id is
free, so `Enqueued` does nothing to a job that exists.

| code | actions |
|---|---|
| `enqueue_fulltext`: SELECT, UPDATE, RPUSH | `Request`, `RequestUpdate`, `RequestPush` |
| `demote_fulltext`: LREM, RPUSH | `Demote`, `DemotePush` |
| `Fetcher.run`, `fetch_pdf` | `Pop`, `ReadRow`, `WritePdf`, `StoreFetched`, `EnqueueParse`, `FetchGivesUp`, `FetchFails`, `FetchRequeue`, `FetchRepush` |
| `Fetcher.recover` | `RecoverUrgent`, `RecoverBulk`, `RecoverSelect`, `RecoverPush` |
| `parse_paper`, `parse_stage` | `ParseStart`, `ParseMissing`, `ParseWrites` (the file), `ParseSucceeds` (the row), `EnqueueChunk`, `ParseFails`, `ParseGivesUp`, `ParseAbstractOnly` |
| `chunk_paper`, `chunk_embed_stage`, `finalize`, `resolve_references` | `ChunkStart`, `ChunkRead`, `ChunkCommit`, `ChunkUnlink`, `FinalizePending`, `FinalizeReady`, `Resolve`, `ResolveDone` |
| `resolve_refs_job` | `RefsStart`, `Resolve`, `ResolveDone` |
| `TRANSIENT_DB_ERRORS` and Retry; other exceptions; a job past its tries | `Conflict`, `JobError`, `Exhausted` |
| worker: crash or shutdown; `startup` and `recover` | `WorkerCrash`, `WorkerRecover` |
| `run_janitor` | `JanitorChoose`, `JanitorUnlink`, `JanitorMark`, `JanitorOrphan` |

### Chunking

A sentence is its number of tokens and the lengths of its words, a heading its
length. `Layout` is `document_layout`, `SplitLong` `_split_long`, `AddSpan` the body of
the loop of `chunk_document`, `LastGroup` what follows it. What the operators should
return is `CutsWell`.

### Citations

The tables are `papers`, `citations` (their in-degrees), `refs`, `edges`, `stubs`;
`pending` stands for `refs:pending` and for the job that will add to it. `tx` is the
transaction that holds the advisory lock: it has read, and commits as one step. `tail`
is what the worker still does after a commit, `cli` is "resolve all". How a title
matches, exactly or by trigrams, is given by the constants.

| code | actions |
|---|---|
| `store_references` | `Store` |
| `resolve_for_paper` (`_match_*`, `_resolve_stubs`, `rebuild_edges`, `refresh_counts`) | `WorkerLook`, `WorkerCommit` |
| `resolve_references` after it: SREM, `enqueue_meta` | `Srem`, `WorkerAsk` |
| "resolve all" (`fulltext_cli.py`) | `CliStart`, `CliLook`, `CliCommit`, `CliClean` |
| `fetch_meta`, `resolve_new_papers` | `MetaPop`, `MetaFail`, `MetaAnswer`, `MetaCommit` |
| the metadata pass | `Insert` |
| processes that die | `WorkerCrash`, `FetcherCrash`, `CliCrash` |

### Ingest

`source` is arXiv, per record a version (which stands for title and abstract) and the
day of the change; `zip` is the snapshot Kaggle offers. `row` is the table, `marks` are
the keys that a pass leaves for the next one. A record is a batch. Of the pipeline,
the citation graph and `fetch_meta` it has what moves a row (`GetFullText`, `Cite`,
`Discover`).

| code | actions |
|---|---|
| `weekly.py`: `download`, `metadata_pass`, the marks | `WeeklyStart`, `WeeklyWrite`, `WeeklyMark`, `WeeklyStamp`, `WeeklyCrash` |
| the nightly job, `harvest` | `QueueHarvest`, `HarvestStart`, `HarvestPage`, `HarvestEnd`, `HarvestFail` |
| `post_harvest` and its job id of the day | `PostStart`, `PostForgotten`, `PostFound`, `PostPromote`, `PostCrash` |
| `embed_abstracts`: read, apply; `scores` | `PostEmbedRead`, `PostEmbedApply`, `PostScoreRead`, `PostScoreStore` |

### Runs

`status`, `rows` (how many rows of each type in `run_steps`) and `answered` are in
the database; `lock` and `cancelKey` in Redis; `enqueuing`, `cancelling` and
`flagging` are API requests between two of their statements. `pc[r][j]` is where
job `j` of run `r` is: job 0 has the id `run:<id>`, job n the id that the n-th
restart gives to a resume job. `at`, `done` and `late` are the locals of
`execute_run` (the step, `RunState.done`, `RunState.timed_out`).

| code | actions |
|---|---|
| `create_thread`, `follow_up`, `_enqueue` | `Ask`, `Enqueue` |
| `cancel_run` | `CancelRead`, `CancelQueued`, `CancelFlag` |
| `execute_run`: status, lock, running | `SelectRun`, `Acquire`, `MarkRunning` |
| `load_progress` | `LoadProgress` |
| steps of `_run` | `PlainStep`, `FetchCancelled`, `ChainStep`, `PassagesStep`, `EndEmpty`, `ReadStep`, `CheckCancel` |
| VERIFY and CONSENSUS under `gather` | `Gather`, `GatherStep` |
| `_store`, `_finish`, the except and finally clauses | `Store`, `Finish`, `StepFails`, `RecordError`, `Release` |
| job timeout, SIGTERM, SIGKILL | `JobError`, `Shutdown`, `Crash` |
| `arq_worker.recover`, the only try of a job, expiring keys | `Recover`, `DropSpent`, `LockExpires`, `CancelExpires` |

The lock lives 880 s, a job 900 s: `LockExpires` may come under a job in its body (the
fault "overrun"), and then a second job can enter. Of the passages a run has recorded some
or none may be left when it is resumed (`PassagesStep`): with none it ends as done, without
an answer and without a row `no_passages`, but with the error row of WRITE.

A deadline is a choice that, once passed, stays passed within one execution
(`Deadline`); a resumed run gets a grace, so `late` starts FALSE again.

### FetchWait

`candidates`, `ready`, `goal`, `queued`, `pending` and `failed` are the fields of
`FetchPlan`. `seen` is what `enqueue_fulltext` has read of the papers of a batch:
it is classified before the UPDATE and the RPUSH and used after them. `clock` has
the three values the code tells apart: before `budget_stop`, before
`mandatory_stop`, after it. `mail` is what the subscription has received.
`Environment` moves papers as `FullText` allows, publishes late or never. An ended paper
stays ended: that an eviction may set a ready one back (`ingest/janitor.py:62`) is not in
this model, and a run that counted it has one paper less to search than its plan says.

| code | actions |
|---|---|
| the hits and `FetchPlan.__init__`, the early return | `Select`, `Start`, `Subscribe` |
| `update_goal` (`aim_for_all`) | `Aim` |
| `enqueue`: `next_batch`, `enqueue_fulltext`, `finish` | `Ask`, `Update`, `Push` |
| the loop condition (`fetch_stop_at`) | `Decide` |
| `get_message`; the look into the table every five seconds | `Receive`, `Poll`, `NotYetDue` |
| `check_cancel`, `demote_fulltext` at the end | `CheckCancel`, `Demote` |

### Retrieval and Answer

`Retrieval` has the pure part of the search: `Passes` (`Filters.sql`), `RrfFuse`,
`MergeQueryLists`, `Anchors`, `Candidates`, `AbovePrior`, `KeepPinned`, `SelectPapers`,
`ChainAdded`, `FusedChunks`, `SelectEvidence`. What the channels rank and the reranker
scores are inputs; scores are whole numbers. The lists that the code sorts, filters and cuts
are built with `Ranking`: `Ranked` puts at place i the element that i - 1 others come
before, `At` takes the elements at a set of places. That is what `sorted()` with these keys
yields, and the provers can follow it where they cannot follow `SortSeq` and `SelectSeq`.

`Answer` is one run from REWRITE to `_store`, over a table of papers and chunks that
changes under it and a thread whose pins change until the run has looked at them.
`saved` are the payloads of its rows; `Restart` throws everything else away, and the
actions `Load...` take what is saved, as `load_hits` and `load_passages` do, with chunks
that are gone left out. Notes, drafts and verdicts are any of small sets, wrong sources
and missing replies among them. The model ends with the sentences as they were verified:
`drop_status_labels`, by which `_store` takes labels out of the prose, is not in it.

| code | actions |
|---|---|
| `pin_paper`, `unpin_paper` | `PinPaper`, `UnpinPaper` |
| `step_rewrite`; FIND_PAPERS (`search`, `_save_selected`) or `load_hits` | `Rewrite`, `FindPapers`, `Selected`, `LoadSelected` |
| FETCH (`_refresh_states`), `step_chain` | `Fetched`, `Chain`, `LoadChain` |
| PASSAGES (`search_passages`) or `load_passages` | `SelectPassages`, `Chosen`, `LoadPassages` |
| `step_read`, `step_write` (`parse_answer`, a second try if mostly untagged) | `Read`, `WriteAgain`, `Write` |
| `verify_sentences`, `_apply_verdict`, the check of rewritten sentences | `Verify`, `Recheck` |
| `_store` | `Store` |
| the pipeline; the restart | `BecomesReady`, `Rechunked`, `Restart` |

### Conversation

`status`, `answer`, `numbers` and `summary` are rows: a turn's run (`done` stands for
`timed_out` too, `failed` for `cancelled`), the papers its stored answer cites,
`thread_citations`, `threads.summary`. The summary is the sequence of turns folded
into it: what the light model is given is `fold[t].previous` and one turn, and what
it returns replaces the column. `told`, `draft`, `existing` and `fold` are locals of
the run of a turn.

| code | actions |
|---|---|
| `follow_up` (and `create_thread` for turn 1) | `FollowUp` |
| `conversation_context` | `ReadSummary`, `ReadTurns` |
| `_run` up to VERIFY; no passages; failed or cancelled | `Answer`, `AnswerNothing`, `Fails` |
| `_store`: `citation_numbers`; `number_citations` and the INSERT | `ReadNumbers`, `Store` |
| `_finish`, `update_summary` | `Finish`, `FoldSelect`, `FoldPrevious`, `FoldWrite`, `FoldLost` |
| a restart of the worker, the run resumed | `CutOff` |

### LLM

`call[c]` is where a call of `generate` is, with its attempt, its count of overloads
and the model it is at. `line` is the limiter's lock of a process (a FIFO), `slots` the
requests in the window of a model, `used` the day's counter. An answer is who gave it and
whether it parses.

| code | actions |
|---|---|
| `generate`: the cache | `Start` |
| `acquire`: INCR, DECR when over the cap, the window | `Count`, `Uncount`, `TakeSlot` |
| `_call`: the semaphore, the request and what comes of it | `Send`, `Good`, `Rejected`, `Error`, `Retry` |
| the answer is parsed and cached | `Finish` |
| a slot leaves the window; the call is cancelled | `Expire`, `Cut` |

### RunView

Four parties: the worker that writes and publishes, the stream, `get_run`, and the
page's `useRun`. `channel` is what Redis has for the subscriber, `wire` what is on its
way to the page, `loads` the page's requests, each between its queries. A run has one
job here; the race of `cancel_run` with the start of a queued run is in `Runs`.

| code | actions |
|---|---|
| `execute_run`, `step`, `_finish` with what they publish; `cancel_run` of a queued run | `Start`, `Record`, `Announce`, `Store`, `Fails`, `Finish`, `AnnounceEnd`, `CancelQueued`, `Resumed` |
| `run_events` | `Subscribe`, `FirstStatus`, `Forward`, `Heartbeat`, `Disconnected` |
| `get_run` | `GetRun`, `Arrive`, `LoadFails` |
| `useRun`: `onmessage`, `onerror`, the poll, the unmount | `OnMessage`, `OnError`, `Poll`, `Leave`; `Dropped` |

### Feeds

`feed[f].emb` is the text that the stored vector is of. The worker has two jobs, the
cron entry and the one the API enqueues; each takes the rows it has read one by one:
embed the query if the row had no vector, search, store. Feeds exist from the start.
`paper[p]` is the text that a paper has, by number, and the one its vector is of: a
metadata pass may bring another text, which clears the vector, at any point of a build, and
an embedding pass may store the vector of a text that it read before. `days` is what the
API asked for; `read` keeps, for the properties, the table as a build has searched it.

| code | actions |
|---|---|
| `update_feed`, `delete_feed`, `run_digest` | `UpdateFeed`, `DeleteFeed`, `RunDigest` |
| `digest_job`, `build_all` | `JobStart`, `BuildStart` |
| `ensure_query_embedding`; the candidates and `rank_candidates`; the upsert | `EmbedQuery`, `SearchPapers`, `StoreDigest` |
| `write_batch`: a new row, a changed one; `embed_abstracts` | `Arrives`, `Rewritten`, `Embed` |
| arq's timeout; time | `JobCut`, `Tick` |

## 3. What the runs check

| run | instance | shows |
|---|---|---|
| `fulltext_faults` | one paper, two callers, two pushes, any one of seven faults, fair | `QueuedIsCarried`, `WorkHasJob`, `RefsAccounted`, `ReadyHasChunks`; `LifecycleSpec`; `QueuedIsServed`, `RefsEventuallyResolved` |
| `runs_restarts` | one deep run, any two of an orderly restart, a crash, a lock that expires under its job, fair | `ExecutedOnce`, `DoneHasAnswer`, `RunningHasJob`; `EveryRunEnds` |
| `runs_thread` | two runs of one thread, a crash of the API, a job that dies, a cancellation | `OneRunPerThread`, `FinalStays` |
| `runs_crash` | one crash of the worker | violates `RestartsResumeRuns` |
| `fetchwait` | two papers in any states, minimum one, one spare, one restart, fair | `PlanAddsUp`, `MinimumIsMandatory`, `NothingLeftUrgent`; `SettledEnds`, `StopsInTime` |
| `conversation` | four turns, two papers, a window of one turn, any two of four faults and overlaps | `NumbersInOrder`, `TurnsAreToldOnce`; `NumbersStay` |
| `citations` | two citing and two cited papers, six reference lists, any one of five faults and overlaps | `GraphInv`, `StubsInv`, `MissingIsAsked` |
| `ingest` | a record in the window and one that is only cited, three days, two versions, two passes, one fault | `MarksInv`, `EmbeddingIsCurrent`, `PostFollows`; `StateNeverGoesBack` |
| `llm` | a call with a schema of the main model, one without of the light one, two retries, a cancellation, fair | `CallsInv`; `QuotaSpec`; `EveryCallEnds` |
| `runview` | one run, one page, two requests at a time, one fault, fair | `ViewInv`; `EndIsSeen`, `StreamEnds` |
| `answer` | four papers, five rankings, two filters, three pins, drafts of up to two sentences, a restart, a paper chunked anew | `SelectionInv`, `EvidenceInv`, `EvidenceIsKept`, `KeptIsSupported` |
| `feeds` | two feeds, two papers, a Monday and the day after, any two of: calls of the API, one fault, a changed text | `EmbeddingIsOfQuery`, `WeekIsServed` |

`CHECK_DEADLOCK FALSE` is set because all of these systems may stop for good: when
requests and faults are used up and every paper, run or step has ended, nothing is
left to happen.

What each one says:

- `fulltext_faults`: as long as the fetcher runs, a queued paper is in a list, in hand,
  or about to be pushed; a half-processed one has a job; a ready one has chunks
  if its document has a sentence, and no others, and its references are resolved or recorded as pending. Every step is one that
  `PaperLifecycle` allows. A queued paper ends, and references are resolved in the end.
  `MCFullText` also evaluates `ChunkingIsRight`: every document of two to four sentences,
  of five kinds (one longer than a chunk and of several words, one longer and of one
  word), in one paragraph, two, or two sections, is cut as `CutsWell` says.
- `runs_*`: unless a lock expires under its job, a run is executed by one job at a time and
  records no step twice; done means answered, or a row that says why not; a running run has
  a job, and ends; one run of a thread at a time; what has ended stays.
- `fetchwait`: the plan says of each paper, once, what the table says; the step ends
  below its minimum only at the safety stop or with nothing left to fetch, ends when all
  has ended, ends in time, and leaves nothing in the urgent queue.
- `conversation`: a paper keeps its number in a thread, numbers follow the order of first
  citation, and a run is told of every earlier turn once, by summary or verbatim.
- `citations`: edges are those of the resolved references, counts those of the edges,
  under any interleaving of worker, fetcher, CLI and metadata pass; a title that enough
  papers cite in vain has one stub and every reference to it points there; an id that is
  cited and missing has been asked for.
- `ingest`: the marks pass over no changed record; a stamp is kept only of a file that
  has been taken in; two harvests leave no gap between them; a vector belongs to its
  text; what was taken in is followed by embeddings and scores; no paper goes back.
- `llm`: the cache holds under a key only what the model asked for has answered, parsed
  where a schema wants it; a call sends a bounded number of requests; the counter
  grants and refuses as one atomic counter would (`Quota`); every call ends.
- `runview`: a page that shows the end of a run shows all of it; a page that stays open
  sees the end, whatever message or stream is lost; no stream outlives its run or page.
- `answer`: pins, filters, limits and floors hold together; the evidence is the best
  there is within both limits; a resumed run cites from what it had chosen; a sentence
  that is kept was called supported as it is worded, by sources that it cites.
- `feeds`: the stored vector is that of the feed's query; after the weekly job every feed
  has its digest; what any digest lists is from its window, best first, above the floor; the
  weekly one leaves out no paper that could be searched before, during and after.

The type invariants of `Answer` and `Feeds` are conjuncts of `EvidenceIsKept` and
`EmbeddingIsOfQuery`. All type invariants are proved (section 4), and all but
that of `FullText` are conjuncts of an invariant of their runs as well.

### Why the bounds are enough

In the pipeline papers only meet in the order of the lists and in the lock of the
citation graph, and no property of it relates two papers, so one paper with several
jobs, in both lists at once, is where the hard interleavings are; the proofs cover any
number, and any combination of faults. Failure limits are 2: the last failure allowed,
one that is not the last, and the shared counter all occur; `max_tries` is the code's.
Two pushes let a second request overlap a demotion or a retry. In `Runs` two restarts
give a run three jobs, enough for one that was cut off, one that resumes it and one that
finds the lock (or finds it gone); every place to cut is explored. In `FetchWait` two papers are a goal and
a spare, and one that fails makes room for the other. In `Conversation` four turns with a
window of one let two be folded, one after the other, before a question is asked.

In `Citations` two citing papers are the least that make a stub (`StubMin` is 2) and the
least whose resolutions can touch each other's references; the lists name a paper by id,
by title, by a similar title, one that nobody has, the citing paper itself, and pairs. In
`Ingest` a record is changed on the day it is read, before and after; two passes are two
of one kind or one of each. In `LLM` caps of 3 and 4 are reached by one call with its
retries, rates of 1 make calls wait, and a light model that rejects the thinking config
is fallen back to. In `RunView` one row is enough for a load that has it and one that has
not, and two loads to arrive in the wrong order. In `Answer` every limit is 1 or 2 and
every kind of paper is there more often than it fits: found, landmark, carried, named,
pinned, filtered out, without full text. In `Feeds` a week is two ticks, so that a Monday
and the day after, a paper in the window, one at its edge and one that comes late occur;
one similarity is negative, since a paper without a vector counts 0 and may go down when it
gets one. Calls, faults and new texts are two in all: each property needs one to be in danger
(a change of a feed, of a text, a build beside the weekly one) and has an exception for one
more. The API asks for three days where the weekly job has two. The proofs about both cover any number of papers, feeds, restarts and faults.

### Claims with a condition

`Spared(kinds)` holds until a fault of these kinds has happened. Where a property
carries it, the code does not keep the property after such a fault, and the hazard in
`PROJECT.json` says why.

- `QueuedIsCarried`: a caller that dies between its UPDATE and its RPUSH leaves a paper to
  the fetcher's next start. `WorkHasJob`: a fetcher that dies between the row and the parse
  job leaves it to the worker's. `RefsAccounted`, `ReadyHasChunks`, `LifecycleSpec`: an
  eviction can set a paper back. `RefsEventuallyResolved`: a conflict loses the retry.
- `ExecutedOnce`, `DoneHasAnswer`: a lock that expires under its job lets a second one
  in. `RunningHasJob`, `EveryRunEnds`: a lock that outlives a crash makes the resume job give
  up; a job that times out leaves none. `OneRunPerThread`, `FinalStays`: cancelling a
  queued run races with its start.
- `NothingLeftUrgent`: cancelled and restarted runs. `NumbersInOrder`, `TurnsAreToldOnce`:
  two runs of a thread at once, a question asked before the summary is written, a summary
  that is lost.
- `GraphInv` excepts the counts of rows that came after an edge to them. `MissingIsAsked`:
  a process that dies with the ids. `HarvestsJoin` excepts rows that a snapshot set back,
  and the days after the window of the first harvest. `EmbeddingIsCurrent` excepts rows
  written while they were embedded; `PostFollows`: a pass that dies at its end, a second harvest of a day.
- `EvidenceIsKept` is about the chunks that still exist. `EndIsSeen` says seen, not still
  shown. `EmbeddingIsOfQuery` excepts feeds changed while their old query was embedded;
  `WeekIsServed` is about weekly jobs that are not cut off, nor overtaken by the next, nor
  stopped by a feed that is deleted under them, and lets them leave out a paper that got
  another text, and so lost its vector, while they ran (the run is violated without
  this).

### Fairness

- Fetcher, worker jobs, `Recover` and `WorkerRecover`: weak. The processes are event
  loops that poll, and `docker-compose.yml` restarts them (`restart:
  unless-stopped`); every await of a job has a timeout.
- API and client steps between two of their statements: weak, a request ends.
- `Poll` in `FetchWait`: strong, because a message may come every second, while the
  loop looks into the table every five seconds whatever messages arrive.
- The steps of an LLM call: weak, requests have a timeout, waits are sleeps, and a slot
  leaves the window with time (`Expire`). The limiter's lock is a FIFO, as asyncio's is.
- `RunView`: weak for the stream's loop, its queries and the page's callbacks and timer.
  None for the worker: the run may take for ever.
- None for the janitor, for requests, cancellations, faults, time, expiring keys, or for a paper of
  `FetchWait` to get anywhere. A choice that depends on the outcome of a download or
  a parse is left open, with a bound on failures because the code has one.

## 4. What is proved

All theorems hold for every value of the constants: any papers, callers, runs, threads,
calls, records, feeds, limits and numbers of faults. They rest on the assumption of the
module (limits are naturals, `None` is no paper, no title and no stub, a run belongs to a
thread, calls of one key ask the same model, records and citing papers are finitely many,
the hits are finitely many and ranked without ties; scores are whole numbers, papers, chunks
and feeds are finitely many and no id is both a paper's and a chunk's, a model's answer is a
sequence of tags or of tagged texts, `rerank_candidates` is at most `vector_candidates`, and
a digest looks back a week at least), which TLC evaluates in every run.
`NoWorkForgotten` also assumes `EnoughTries`: arq drops a job that was started
`max_tries` times, so these must leave room for the crashes that happen on top of the
failures they are meant for. `MCFullText` has TLC evaluate it for the code's numbers.

| theorem | property | argument |
|---|---|---|
| `FullTextProofs!Typing` | types | inductive; one lemma per process, one step per action |
| `FullTextProofs!NoPaperLost` | `QueuedIsCarried` | `QInv` |
| `FullTextProofs!ReferencesAccounted` | `RefsAccounted` | `StageInv` |
| `FullTextProofs!ReadyIsSearchable` | `ReadyHasChunks` | `TextStage` of `StageInv` |
| `FullTextProofs!ImplementsLifecycle` | `LifecycleSpec` | `StageInv`, each action maps to `Move`, `Embed`, `Resolve` or a stutter |
| `FullTextProofs!NoWorkForgotten` | `WorkHasJob` | `WorkInv`, with `EnoughTries` |
| `RunsProofs!Typing` | types | inductive |
| `RunsProofs!MutualExclusion` | first half of `ExecutedOnce` | inductive with the types, until a lock expires under its job |
| `RunsProofs!StepsOnce`, `RunsAsByOneJob` | `ExecutedOnce` | `Unrecorded` |
| `RunsProofs!DoneIsAnswered` | `DoneHasAnswer` | `EndsAnswered`, `Answered` |
| `RunsProofs!QuestionsInTurn`, `EndsForGood` | `OneRunPerThread`, `FinalStays` | `ThreadInv` |
| `RunsProofs!RunsAreCarriedOn` | `RunningHasJob` | `CarriedInv` |
| `FetchWaitProofs!Typing` | types | inductive |
| `FetchWaitProofs!PapersCountOnce`, `PlanAgrees`, `PlanAlwaysAddsUp` | `PlanAddsUp` | `PlanInv` |
| `FetchWaitProofs!MinimumHolds` | `MinimumIsMandatory` | `EndInv` with `PlanInv` |
| `FetchWaitProofs!UrgentIsCleared` | `NothingLeftUrgent` | `UrgentInv` |
| `LLMProofs!Typing`, `CallsAreRight` | `CallsInv` | `Inv`: types, `FlightInv`, `CacheIsRight`, `SendsInv` |
| `LLMProofs!ImplementsQuota` | `QuotaSpec` | `QuotaInv`; each action maps to `Grant`, `Refuse` or a stutter of `Quota` |
| `ThreadProofs!Typing` | types | inductive, with `AskedInTurn` |
| `ThreadProofs!NumbersAreKept` | `NumbersStay` | `NumbersApart` |
| `ThreadProofs!NumbersFollowTheThread` | `NumbersInOrder` | `NumbersInv` |
| `ThreadProofs!TurnsAreTold` | `TurnsAreToldOnce` | `OlderInv`, `ContextInv` |
| `CitationsProofs!GraphIsRight`, `StubsAreRight` | `GraphInv`, `StubsInv` | `GraphIInv` |
| `CitationsProofs!UnknownIsAskedFor` | `MissingIsAsked` | `AskedIInv` |
| `IngestProofs!Typing`, `PapersGoOn` | types, `StateNeverGoesBack` | inductive; each write of a row is a move |
| `IngestProofs!MarksAreRight` | `MarksInv` | `SnapshotInv`, `HarvestInv` |
| `IngestProofs!EmbeddingsAreCurrent` | `EmbeddingIsCurrent` | `TakenAreTexts` |
| `IngestProofs!PostHarvestFollows` | `PostFollows` | itself, with `FoundIsThere` |
| `ThreadProofs!EndIsWhole` | `ViewInv` | `WholeInv` |
| `SelectionProofs!AnswerIsInductive` | types and more | `AnswerInv`; one lemma per action |
| `SelectionProofs!SelectionIsSound` | `SelectionInv` | what `SelectPapers` returns, `SelectedIs`, at the two steps that select |
| `SelectionProofs!EvidenceIsSound` | `EvidenceInv` | what `SelectEvidence` returns, `EvidenceIs`, at the step that chooses |
| `SelectionProofs!EvidenceSurvivesRestarts` | `EvidenceIsKept` | `RecordedFacts`, `EvidenceFacts` of `AnswerInv` |
| `SelectionProofs!KeptSentencesAreSupported` | `KeptIsSupported` | `FinalFacts` of `AnswerInv` |
| `SelectionProofs!FeedsAreInductive` | types and more | `FeedsInv`, `WeekInv`; one lemma per action |
| `SelectionProofs!EmbeddingsAreOfTheirQuery` | `EmbeddingIsOfQuery` | `QueryFacts` of `FeedsInv` |
| `SelectionProofs!EveryFeedIsServed` | `WeekIsServed` | `SoundFacts`, `ServedFacts`, `CompleteFacts` of `WeekInv` |

The pipeline:

- `QueuedIsCarried` says nothing while the fetcher recovers, which is when papers
  are in no list. `RecoverInv` says what recovery knows: what it has found in the
  lists is still carried, and once it has read the table, each waiting paper is
  carried or in the set it will push. With it `QInv` is inductive. The budget only
  falls, so the condition on faults never comes back.
- A state of the row alone does not tell which process may write it next.
  `StageInv` says for each place of the fetcher and of each job which states the
  row can be in, and that a ready paper without edges is in `refs:pending` or has a
  job about to resolve it. Without evictions the states only move forward, and each
  write is one that `PaperLifecycle` allows: the refinement holds until the first
  eviction. `TextStage` in it ties the chunks to the file: what a job has cut is of the
  document in `parsed/`, which nobody writes while the row is past `parsed`, and an embedded
  paper has the chunks of that document, or none if it has none.
- `WorkHasJob` is not inductive, because a job may be dropped for its tries and because
  not any chunk job comes to the pending references. `WorkInv` counts the tries of a job
  against what starts it again (crashes, conflicts, `fail_count`), and says which places of
  a job lead to the references.

Runs:

- That one job executes a run needs that a job in its body holds the lock: then
  `SET NX` lets no second one in. The code gives the lock 20 s less than the job, so this
  holds only until a lock expires under its job, which is the condition of the theorems.
- That no step is recorded twice follows from what a job may still record, `MayRecord`:
  the steps from its place on that it has not found in the table, and what is redone. The
  invariant is that none of this is recorded. `Acquire` and `load_progress` are where
  it begins; mutual exclusion keeps another job from recording in between.
- `DoneHasAnswer` follows from `EndsAnswered`: a job about to set `done` or
  `timed_out` has stored the answer, or, for `done`, has recorded an error row that says
  why there is none; neither is ever undone (`Answered` for the row itself), but that a
  job past `MarkRunning` works alone is needed, or it would begin anew what another ended.
- A second run of a thread, or a status that changes after the end, needs a job that acts
  on a status it read before. `ThreadInv` says that without a race a run has one job, and
  one that is past its SELECT is alone with a run that is still active.
- A running run has a job as long as locks are held by jobs only (`CarriedInv`): then a
  resume job finds the lock free, and a job that lets go of it has ended its run.
- `PlanAddsUp` needs that what the run has been told and not taken
  in yet, a message in its mail or a state read before the UPDATE, is still so: the
  end of a paper is final. Then `finish` moves papers out of pending for good, and
  the sets it counts are disjoint (`PlanInv`).
- `MinimumIsMandatory` follows from the goal, which is never below the minimum, and
  from the reason for leaving the loop, which stays one (`EndInv`). What is in the
  urgent queue is pending, or left to demote, or has ended (`UrgentInv`).

Conversation, LLM, viewer:

- Numbers never collide whatever overlaps, because a row whose paper or number is taken is
  not inserted (ON CONFLICT DO NOTHING over two unique keys); that they follow the thread needs that a transaction has
  read the numbers as they still are, and that numbers are those of stored answers
  (`NumbersInv`).
- That no turn is told twice holds even when summaries are late, lost or overwritten: what
  a summary has, wherever it is held, is older than the window (`OlderInv`). That none is
  missing needs that the summary is one turn behind at most, while its fold is under way
  and nobody reads (`ContextInv`).
- The counter counts first and takes back later. `QuotaInv`: what it stands at beyond what
  it granted is at least the calls that are yet to take it back, and it is beyond only
  once the cap is granted. Hence every grant is below the cap, and every refusal at it. The
  bound on requests charges each one to the attempt, the retry, the fallback, or a model
  that the process has learnt to reject the thinking config (`SendsInv`).
- A page's request makes three queries. `WholeInv`: the status is the last that a worker
  writes, so a request that reads it final reads rows and answer as they stay.

Citations and ingest:

- Edges and counts of a paper are wrong while it waits to be resolved, and a transaction
  commits what it read. `GraphIInv` adds what a commit relies on: what was read is stored, or
  the paper is resolved again; a reference to a stub is to the stub of its title, which is
  there; where no stub is, too few resolved papers ask for one; no edge leads to a stub to
  come.
- An id that was asked for passes from transaction to worker (or CLI), to the queue, to
  the fetcher, to arXiv's answer; `AskedIInv` has one conjunct for each hand-over.
- `SnapshotInv`: the copies of arXiv that are about (that of the pass, Kaggle's, arXiv) are
  each the past of the next, so a record that differs changed no earlier than the newest
  day of the older copy, which is what the mark remembers. `HarvestInv`: no queued harvest
  begins after the day up to which harvests have been joined, and what the running one has
  not read was changed after it began.
- What a `post_harvest` has read and not applied are the texts of the rows, or these
  were written since (`TakenAreTexts`).

Selection, evidence, answers:

- A rank is a cardinality, so that `Ranked` is a rearrangement in order is a fact about
  finite sets: each element has as many before it as its place says (`RankedIs`), no two
  the same, and none is missing. From it follow `Ascending`, `At` (a filter keeps order),
  `First`, and `BestIs`: what is cut off is no better than what is kept.
- `SelectEvidence` takes passages one by one under a limit for all and one for each paper.
  `Taking` is a recursive function on numbers. That it exists is `RecursionExists`, from the
  least counterexample and not from an induction theorem (these take an operator); that
  after k passages each one left out had no room is `Passed`, carried from k to k + 1
  (`TakingIs`). `EvidenceIs` combines its three rounds.
- `SelectedIs` counts: pinned papers first, then as many as the room that is left, so a paper
  that is not there has at least that many ahead of it. `FusedIs` and `CandidatesIs` bring
  the papers back to channels and filters.
- `AnswerInv`: what a restart leaves is the payloads of the rows, so `PaperFacts` and
  `RecordedFacts` say what they have to do with each other (the chain is apart from the
  papers, the notes read are of the passages, each passage is there unless a paper was
  chunked anew) whether or not the run has them in hand, and `EvidenceFacts` that what it has
  in hand is of them. `NoneRechunked` in it is the condition of the property itself.
- `FinalFacts` follows a sentence from the draft through the two checks. A rewritten one
  is supported only after the second, so it says less of a run between them
  (pc "checked") than of one past them.

Feeds:

- `QueryFacts`: a row without a vector in the hands of a job, of a feed that is still there
  and not in `raced`, has the text of the feed. An UPDATE by id then puts the vector
  under its own text; `update_feed` either finds no such row or makes the feed raced.
- `WeekInv` has `SoundFacts` for every digest and every result about to be stored, whatever
  has happened. What it says of the Monday holds until a fault: the job keeps to its day and
  its feeds exist (`MondayFacts`), each feed it found is still to be built or has its digest
  (`ServedFacts`), a weekly digest is complete (`CompleteFacts`). That a digest stays complete
  while papers arrive and texts change is why a digest remembers the table it was searched
  in (`read`): what may not be left out is said of that table, and of Monday's papers, of
  which there are only fewer as the job goes on (`CompleteStays`). Each paper of
  Monday's still has its vector while the job runs, because one whose text changes leaves
  them (`MondayFacts`). Digests of earlier
  weeks are not spoken of; the week of the next Monday has none of the weekly job yet.

Three attempts failed for a reason and changed a model. `Expected` of `Feeds` was first
stated of the table as it is; a paper without a vector counts as similarity 0, so one with
a negative similarity goes down when its vector comes, and a digest that was right
would have become incomplete. It is stated of the table that was searched. In `Ingest`, with three versions of a record, a harvested row
can be overwritten by a snapshot that is older and again by one that is newer but not
current; `older` now keeps the record until a snapshot has arXiv's version (TLC's instance,
with two versions and two passes, is too small for that). And the first harvest looks
`FirstRunDays` back by a clock that may be a day ahead, so `HarvestsJoin` is about the days
before that.

Only model-checked, and why:

- Liveness: `EveryRunEnds`, `QueuedIsServed`, `RefsEventuallyResolved`, `SettledEnds`,
  `StopsInTime`, `EveryCallEnds`, `EndIsSeen`, `StreamEnds`. Fairness and ENABLED are out of
  the prover's reach.
- `ChunkingIsRight`, what the operators of `Chunking` return: they are folds over sequences,
  and what a fold yields for every input needs induction over data. (Where a proof needs
  the least element of a set of numbers, it takes it from the well-foundedness of `<` on
  `Nat`; the recursion of `Taking` and the sum of `SumIs` are reduced to that.)
- The order in which `RrfFuse` and `MergeQueryLists` put papers: no property speaks of it. It
  is proved which papers they bring, and that their scores are numbers.
- `RestartsResumeRuns`, which the code does not keep (section 5).

## 5. Findings

`runs_crash`: the lock of a crashed run outlives the resume job, and the run stays
`running` with nobody to carry it on. TLC ends this run with a trace, and `PROJECT.json`
quotes the line it contradicts.

More was met while modelling. Where a configuration is named, TLC shows the trace with it;
these are not among the runs.

| configuration, property | what happens |
|---|---|
| `FullText_conflict.cfg`, `ConflictsAreRetried` | a conflict in `resolve_references` retries `chunk_paper`, which finds the paper `ready` and ends; the references wait for a restart |
| `Runs_overrun.cfg`, `DuplicatesAreHarmless` | `workers/arq_worker.py:184` calls a duplicate job harmless, `agent/run.py:670` says that the lock outlives the longest run; after 880 s of the 900 s of a job it is gone, and a second resume job executes the run beside the first |
| `Runs_cancel.cfg`, `CancelledStays` | a queued run that is cancelled while `execute_run` is between its two statements is executed to its end |
| `FetchWait_cancel.cfg`, `NothingLeftUrgentEver` | a run that is cancelled in FETCH leaves its papers in front of the next run's |
| `Citations_counts.cfg`, `CountsAreInDegrees` | a row that comes after an edge to it has a count of 0 until an edge to it is built again |
| `RunView_stale.cfg`, `EndIsShown` | a response read before the end arrives after the one that saw the end, and is what the page shows from then on |
| `LLM_thinking.cfg`, `RejectionDropsConfig` | of two calls under way when a model rejects the thinking config, the second fails |

Without a configuration:

- Downloads that fail count towards `MAX_PARSE_FAILURES` (`papers.fail_count` is shared
  and never reset), so a PDF can be deleted after its first failed parse although
  `ingest/pipeline.py:7-8` keeps it for a retry.
- A question asked as soon as the status is `done` is answered without the turn that has
  just left the window, although `agent/threads.py:56` promises the summary for older
  turns (`haste` in `Conversation`).
- `run_digest` gives its job no id, so enqueuing never fails and its 409 ("already being
  built") is never answered; two builds of a feed can run at once and the older one may
  write last. A build in mid-week replaces Monday's digest by one of a moved window.
- The cron entry of `digest_job` has no timeout of its own: arq's default of 300 s holds
  for all feeds together (`cut` in `Feeds`).
- A text embedded while the metadata pass, or a query while `update_feed`, writes a new
  one gets the vector of the old one, and nothing repairs it (`mixed` in `Ingest`, `raced`
  in `Feeds`).

## 6. Not modelled

- Content: what papers say, what an LLM answers, layout, costs. Outcomes that change the
  control (no passage found, a deadline, an error) are choices; scores are inputs.
- On characters: extraction by GROBID and PyMuPDF (`tei.py`, `pdftext.py`), splitting an
  answer into sentences, `find_span`, `altered_math`, `names_in`, how titles match, the
  venue and code patterns of `signals.py`, ids. Models take what they return.
- The arXiv client: one process, one lock, a pause between requests and a bounded number
  of attempts; `FullText`, `Citations` and `Ingest` take its outcomes.
- SQL of the channels (full text, vectors, BM25), embeddings, the catalog and the building
  of indexes: rows by themselves, or rankings.
- Routers that only read (search, health, admin, papers, the graphs of
  `retrieval/graph.py`), and those with one statement (collections, BibTeX). Summaries of
  papers are one upsert each; one made from an abstract is made again when asked for once
  the paper is ready.
- In `Runs`: pins, and the row that one half of `gather` may still write after the other
  has failed the run (nothing reads it). In `FetchWait`: the urgent copies of other runs,
  and a second message for a paper that ended twice. In `Feeds`: `create_feed`, which
  inserts a row, and listing. In `Answer`: CONSENSUS, whose result nothing reads.
- Configuration, logging, pools, migrations as they run, the other pages of the web
  client, evaluation and demo scripts.

## 7. Plan

Done, in this order: the queue and the pipeline (papers must not be lost), runs and
restarts (questions must end, once), the wait that joins them, what a thread remembers;
then the citation graph, the metadata passes, the LLM client, the viewer, what the steps
of a run compute, feeds; chunking.

Then the proofs: the pipeline, runs and the wait, and after them `LLM`, `Conversation`,
`Citations`, `Ingest`, `RunView` and what was left of `FullText` and `Runs`; last `Answer`
and `Feeds` with the operators they select by. Every safety property that a run checks and
the code keeps is a theorem now.

Next: `timed_out` of a run that skipped READ and is resumed; the arXiv client's pause; the
routers that only read.

The number of runs is kept small: operators are checked as invariants or assumptions of
a run that exists, and a run is merged with another before one is added.
