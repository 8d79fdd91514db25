------------------------------ MODULE FullText ------------------------------
(***************************************************************************)
(* The full-text pipeline: how a paper goes from a request for its full    *)
(* text to searchable chunks (backend/core/fetchq.py, workers/fetcher.py,  *)
(* workers/arq_worker.py, ingest/pipeline.py, ingest/janitor.py).          *)
(*                                                                         *)
(* Four kinds of processes share the papers table, the Redis lists and the *)
(* PDF directory: clients (API requests, research runs, the CLI) that      *)
(* queue and demote papers, the single arXiv fetcher, the arq worker with  *)
(* its parse, chunk and refs jobs, and the janitor that runs in it.  Every *)
(* SQL statement, Redis command and file operation is a step of its own,   *)
(* so that the processes interleave where the code awaits.                 *)
(***************************************************************************)
EXTENDS Naturals, FiniteSets

CONSTANTS
    Papers,            \* arXiv ids with a row in the papers table
    Clients,           \* concurrent callers of fetchq
    None,              \* no paper
    MaxFetchFailures,  \* MAX_FETCH_FAILURES
    MaxParseFailures,  \* MAX_PARSE_FAILURES
    MaxTries,          \* arq's max_tries of each kind of job
    MaxPushes,         \* bound: clients start no request after this many pushes
    Faults,            \* bound: how often each kind of fault may happen
    MaxFaultKinds      \* bound: how many kinds of them in one behaviour

Kinds      == {"parse", "chunk", "refs"}
FaultKinds == {"fetcherCrash", "workerCrash", "clientCrash",
               "handlerError", "jobError", "conflict", "evict"}

ASSUME ConstantsAssumption ==
    /\ None \notin Papers
    /\ MaxFetchFailures \in Nat \ {0}
    /\ MaxParseFailures \in Nat \ {0}
    /\ MaxTries \in [Kinds -> Nat]
    /\ MaxPushes \in Nat
    /\ Faults \in [FaultKinds -> Nat]
    /\ MaxFaultKinds \in Nat

\* fetchq.ENQUEUEABLE (discovered and metadata_done behave as signals_done)
Enqueueable == {"signals_done", "failed"}
States == Enqueueable \cup {"queued_fulltext", "pdf_fetched", "parsed",
                            "embedded", "ready", "abstract_only"}

VARIABLES
    state,         \* papers.state
    failCount,     \* papers.fail_count, shared by fetching and parsing
    document,      \* its TEI file in parsed/ has a sentence (FALSE: none, or no file yet)
    chunks,        \* the paper has chunks in the chunks table
    refs,          \* its references: none, stored, or resolved into edges
    pdf,           \* pdf_tmp/<id>.pdf exists
    urgent, bulk,  \* Redis lists: sets of [paper, place], popped by least place
    pushed,        \* RPUSHes so far: the place the next one gets is one more
    fetcher,       \* [pc, paper, fails, found]
    client,        \* [pc, paper, urgent] of each client
    job,           \* where the arq job of a kind for a paper is ("none": no such job)
    tries,         \* job_try of that job
    seenFails,     \* fail_count as the parse job of the paper read it
    refsPending,   \* the Redis set refs:pending
    janitor,       \* [pc, paper]
    workerUp,      \* the arq worker runs (its startup recovery is done)
    budget         \* faults that may still happen

rowVars   == <<state, failCount, document, chunks, refs>>
listVars  == <<urgent, bulk, pushed>>
jobVars   == <<job, tries, seenFails>>
procVars  == <<fetcher, client, janitor, workerUp>>
vars == <<rowVars, pdf, listVars, jobVars, procVars, refsPending, budget>>

HandlerPcs == {"popped", "fetching", "written", "stored", "failed", "requeued"}
FetcherPcs == HandlerPcs \cup {"down", "scanned", "listed", "recovering", "idle"}
ClientPcs  == {"idle", "selected", "updated", "demoting"}
ParsePcs   == {"parsing", "missing", "giveup", "written", "parsed"}
ChunkPcs   == {"chunking", "cut", "blank", "committed", "finalizing", "pending"}
RefsPcs    == {"resolving", "resolved"}
AllPcs     == {"none", "queued"} \cup ParsePcs \cup ChunkPcs \cup RefsPcs
JobPcs(kind) ==
    CASE kind = "parse" -> {"none", "queued"} \cup ParsePcs
      [] kind = "chunk" -> {"none", "queued"} \cup ChunkPcs \cup RefsPcs
      [] kind = "refs"  -> {"none", "queued"} \cup RefsPcs

Jobs == [paper: Papers, place: Nat]

IdleFetcher == [pc |-> "idle", paper |-> None, fails |-> 0, found |-> {}]
IdleClient  == [pc |-> "idle", paper |-> None, urgent |-> FALSE]
IdleJanitor == [pc |-> "idle", paper |-> None]

RowsOK ==
    /\ state \in [Papers -> States]
    /\ failCount \in [Papers -> Nat]
    /\ document \in [Papers -> BOOLEAN]
    /\ chunks \in [Papers -> BOOLEAN]
    /\ refs \in [Papers -> {"none", "stored", "resolved"}]

ListsOK ==
    /\ urgent \in SUBSET Jobs
    /\ bulk \in SUBSET Jobs
    /\ pushed \in Nat

JobsOK ==
    /\ job \in [Kinds -> [Papers -> AllPcs]]
    /\ \A kind \in Kinds, p \in Papers : job[kind][p] \in JobPcs(kind)
    /\ tries \in [Kinds -> [Papers -> Nat]]
    /\ seenFails \in [Papers -> Nat]

\* A process that is busy is at work on a paper.
FetcherOK ==
    /\ fetcher \in [pc: FetcherPcs, paper: Papers \cup {None}, fails: Nat,
                    found: SUBSET Papers]
    /\ fetcher.pc \in HandlerPcs => fetcher.paper \in Papers

ClientsOK ==
    /\ client \in [Clients -> [pc: ClientPcs, paper: Papers \cup {None}, urgent: BOOLEAN]]
    /\ \A c \in Clients : client[c].pc # "idle" => client[c].paper \in Papers

JanitorOK ==
    /\ janitor \in [pc: {"idle", "chosen", "unlinked"}, paper: Papers \cup {None}]
    /\ janitor.pc # "idle" => janitor.paper \in Papers

TypeOK ==
    /\ RowsOK /\ ListsOK /\ JobsOK /\ FetcherOK /\ ClientsOK /\ JanitorOK
    /\ pdf \in [Papers -> BOOLEAN]
    /\ refsPending \in SUBSET Papers
    /\ workerUp \in BOOLEAN
    /\ budget \in [FaultKinds -> Nat]

Init ==
    /\ state = [p \in Papers |-> "signals_done"]
    /\ failCount = [p \in Papers |-> 0]
    /\ document = [p \in Papers |-> FALSE]
    /\ chunks = [p \in Papers |-> FALSE]
    /\ refs = [p \in Papers |-> "none"]
    /\ pdf = [p \in Papers |-> FALSE]
    /\ urgent = {} /\ bulk = {} /\ pushed = 0
    /\ fetcher = IdleFetcher
    /\ client = [c \in Clients |-> IdleClient]
    /\ job = [kind \in Kinds |-> [p \in Papers |-> "none"]]
    /\ tries = [kind \in Kinds |-> [p \in Papers |-> 0]]
    /\ seenFails = [p \in Papers |-> 0]
    /\ refsPending = {}
    /\ janitor = IdleJanitor
    /\ workerUp = TRUE
    /\ budget = Faults

-----------------------------------------------------------------------------
\* Redis lists and papers rows.

\* RPUSH of a job for each paper of S, in whatever order.
Push(list, S) == list \cup {[paper |-> p, place |-> pushed + 1] : p \in S}

PushBulk(S) ==
    /\ bulk' = Push(bulk, S)
    /\ pushed' = pushed + 1
    /\ UNCHANGED urgent

IsHead(j, list) == j \in list /\ \A k \in list : j.place <= k.place

Queued(list) == {j.paper : j \in list}

\* enqueue_job with _job_id "kind:paper" does nothing while that job exists.
Enqueued(kind, S) ==
    [job EXCEPT ![kind] =
        [p \in Papers |-> IF p \in S /\ @[p] = "none" THEN "queued" ELSE @[p]]]

SetState(p, s) ==
    /\ state' = [state EXCEPT ![p] = s]
    /\ UNCHANGED <<failCount, document, chunks, refs>>

SetFailure(p, s, n) ==
    /\ state' = [state EXCEPT ![p] = s]
    /\ failCount' = [failCount EXCEPT ![p] = n]
    /\ UNCHANGED <<document, chunks, refs>>

Fault(kind) ==
    /\ budget[kind] > 0
    /\ Cardinality({f \in FaultKinds \ {kind} : budget[f] < Faults[f]}) < MaxFaultKinds
    /\ budget' = [budget EXCEPT ![kind] = @ - 1]

-----------------------------------------------------------------------------
(***************************************************************************)
(* fetchq.enqueue_fulltext: SELECT, UPDATE ... WHERE state = ANY           *)
(* (ENQUEUEABLE), RPUSH.  A call treats each id of its list alike, so one  *)
(* id stands for a call; calls that queue nothing change nothing.          *)
(***************************************************************************)
Request(c, p, u) ==
    /\ client[c].pc = "idle"
    /\ pushed < MaxPushes
    /\ state[p] \in Enqueueable \/ (u /\ state[p] = "queued_fulltext")
    /\ client' = [client EXCEPT ![c] = [pc |-> "selected", paper |-> p, urgent |-> u]]
    /\ UNCHANGED <<rowVars, listVars>>

RequestUpdate(c) ==
    /\ client[c].pc = "selected"
    /\ IF state[client[c].paper] \in Enqueueable
         THEN SetState(client[c].paper, "queued_fulltext")
         ELSE UNCHANGED rowVars
    /\ client' = [client EXCEPT ![c].pc = "updated"]
    /\ UNCHANGED listVars

RequestPush(c) ==
    /\ client[c].pc = "updated"
    /\ IF client[c].urgent
         THEN /\ urgent' = Push(urgent, {client[c].paper})
              /\ pushed' = pushed + 1
              /\ UNCHANGED bulk
         ELSE PushBulk({client[c].paper})
    /\ client' = [client EXCEPT ![c] = IdleClient]
    /\ UNCHANGED rowVars

\* fetchq.demote_fulltext: LREM of every urgent copy, then RPUSH to bulk.
Demote(c, p) ==
    /\ client[c].pc = "idle"
    /\ p \in Queued(urgent)
    /\ urgent' = {j \in urgent : j.paper # p}
    /\ client' = [client EXCEPT ![c] = [pc |-> "demoting", paper |-> p, urgent |-> FALSE]]
    /\ UNCHANGED <<rowVars, bulk, pushed>>

DemotePush(c) ==
    /\ client[c].pc = "demoting"
    /\ PushBulk({client[c].paper})
    /\ client' = [client EXCEPT ![c] = IdleClient]
    /\ UNCHANGED rowVars

ClientFrame == UNCHANGED <<pdf, jobVars, fetcher, janitor, workerUp, refsPending>>

ClientStep(c) ==
    /\ RequestUpdate(c) \/ RequestPush(c) \/ DemotePush(c)
    /\ ClientFrame /\ UNCHANGED budget

ClientCall(c) ==
    /\ \E p \in Papers : Demote(c, p) \/ \E u \in BOOLEAN : Request(c, p, u)
    /\ ClientFrame /\ UNCHANGED budget

\* The process dies inside a call.
ClientCrash(c) ==
    /\ client[c].pc # "idle"
    /\ Fault("clientCrash")
    /\ client' = [client EXCEPT ![c] = IdleClient]
    /\ UNCHANGED <<rowVars, listVars>>
    /\ ClientFrame

-----------------------------------------------------------------------------
\* The fetcher: BLPOP fetch:urgent fetch:bulk, then fetch_pdf.

FetcherAt(from) == fetcher.pc = from
FetcherGoes(to) == fetcher' = [fetcher EXCEPT !.pc = to]
FetcherDone     == fetcher' = IdleFetcher

Pop ==
    /\ FetcherAt("idle")
    /\ \E j \in urgent \cup bulk :
        /\ IsHead(j, IF urgent # {} THEN urgent ELSE bulk)
        /\ IF urgent # {} THEN urgent' = urgent \ {j} /\ UNCHANGED bulk
                          ELSE bulk' = bulk \ {j} /\ UNCHANGED urgent
        /\ fetcher' = [fetcher EXCEPT !.pc = "popped", !.paper = j.paper]
    /\ UNCHANGED <<rowVars, pdf, pushed, jobVars>>

ReadRowAnyState ==                        \* mutant of ReadRow: fetches duplicates too
    /\ FetcherAt("popped")
    /\ fetcher' = [fetcher EXCEPT !.pc = "fetching", !.fails = failCount[fetcher.paper]]
    /\ UNCHANGED <<rowVars, pdf, listVars, jobVars>>

\* Duplicate jobs, and papers already handled, are skipped by their state.
ReadRow ==
    /\ FetcherAt("popped")
    /\ IF state[fetcher.paper] = "queued_fulltext"
         THEN fetcher' = [fetcher EXCEPT !.pc = "fetching",
                                         !.fails = failCount[fetcher.paper]]
         ELSE FetcherDone
    /\ UNCHANGED <<rowVars, pdf, listVars, jobVars>>

\* The download succeeds: .part and rename, state, parse job.
WritePdf ==
    /\ FetcherAt("fetching") /\ FetcherGoes("written")
    /\ pdf' = [pdf EXCEPT ![fetcher.paper] = TRUE]
    /\ UNCHANGED <<rowVars, listVars, jobVars>>

StoreFetched ==
    /\ FetcherAt("written") /\ FetcherGoes("stored")
    /\ SetState(fetcher.paper, "pdf_fetched")
    /\ UNCHANGED <<pdf, listVars, jobVars>>

EnqueueParse ==
    /\ FetcherAt("stored") /\ FetcherDone
    /\ job' = Enqueued("parse", {fetcher.paper})
    /\ UNCHANGED <<rowVars, pdf, listVars, tries, seenFails>>

\* The download fails: for good (a permanent error, or the last one allowed), or
\* to be retried (state failed, state queued_fulltext, RPUSH to bulk).
FetchGivesUp ==
    /\ FetcherAt("fetching") /\ FetcherDone
    /\ SetFailure(fetcher.paper, "abstract_only", fetcher.fails + 1)
    /\ UNCHANGED <<pdf, listVars, jobVars>>

FetchFails ==
    /\ FetcherAt("fetching") /\ FetcherGoes("failed")
    /\ fetcher.fails + 1 < MaxFetchFailures
    /\ SetFailure(fetcher.paper, "failed", fetcher.fails + 1)
    /\ UNCHANGED <<pdf, listVars, jobVars>>

FetchRequeueStateKept ==                  \* mutant of FetchRequeue: the paper stays failed
    /\ FetcherAt("failed") /\ FetcherGoes("requeued")
    /\ UNCHANGED <<rowVars, pdf, listVars, jobVars>>

FetchRequeue ==
    /\ FetcherAt("failed") /\ FetcherGoes("requeued")
    /\ SetState(fetcher.paper, "queued_fulltext")
    /\ UNCHANGED <<pdf, listVars, jobVars>>

FetchRepush ==
    /\ FetcherAt("requeued") /\ FetcherDone
    /\ PushBulk({fetcher.paper})
    /\ UNCHANGED <<rowVars, pdf, jobVars>>

\* Fetcher.recover at start: LRANGE both lists, SELECT, RPUSH what is in neither.
RecoverUrgent ==
    /\ FetcherAt("down")
    /\ fetcher' = [fetcher EXCEPT !.pc = "scanned", !.found = Queued(urgent)]
    /\ UNCHANGED <<rowVars, pdf, listVars, jobVars>>

RecoverBulk ==
    /\ FetcherAt("scanned")
    /\ fetcher' = [fetcher EXCEPT !.pc = "listed", !.found = @ \cup Queued(bulk)]
    /\ UNCHANGED <<rowVars, pdf, listVars, jobVars>>

RecoverSelectInLists ==                   \* mutant of RecoverSelect: the wrong difference
    /\ FetcherAt("listed")
    /\ fetcher' = [fetcher EXCEPT !.pc = "recovering",
                                  !.found = {p \in @ : state[p] = "queued_fulltext"}]
    /\ UNCHANGED <<rowVars, pdf, listVars, jobVars>>

RecoverSelect ==
    /\ FetcherAt("listed")
    /\ fetcher' = [fetcher EXCEPT
           !.pc = "recovering",
           !.found = {p \in Papers : state[p] = "queued_fulltext"} \ @]
    /\ UNCHANGED <<rowVars, pdf, listVars, jobVars>>

RecoverPush ==
    /\ FetcherAt("recovering") /\ FetcherDone
    /\ IF fetcher.found = {} THEN UNCHANGED listVars ELSE PushBulk(fetcher.found)
    /\ UNCHANGED <<rowVars, pdf, jobVars>>

FetcherFrame == UNCHANGED <<client, janitor, workerUp, refsPending>>

FetcherStep ==
    /\ \/ Pop \/ ReadRow \/ WritePdf \/ StoreFetched \/ EnqueueParse
       \/ FetchGivesUp \/ FetchFails \/ FetchRequeue \/ FetchRepush
       \/ RecoverUrgent \/ RecoverBulk \/ RecoverSelect \/ RecoverPush
    /\ FetcherFrame /\ UNCHANGED budget

\* Any other exception in the handler is logged and the popped job is dropped.
HandlerError ==
    /\ fetcher.pc \in HandlerPcs
    /\ Fault("handlerError")
    /\ FetcherDone
    /\ UNCHANGED <<rowVars, pdf, listVars, jobVars>>
    /\ FetcherFrame

FetcherCrash ==
    /\ fetcher.pc # "down"
    /\ Fault("fetcherCrash")
    /\ fetcher' = [IdleFetcher EXCEPT !.pc = "down"]
    /\ UNCHANGED <<rowVars, pdf, listVars, jobVars>>
    /\ FetcherFrame

-----------------------------------------------------------------------------
\* The arq worker.

JobAt(kind, p, from) == workerUp /\ job[kind][p] = from

JobGoes(kind, p, to) ==
    /\ job' = [job EXCEPT ![kind][p] = to]
    /\ UNCHANGED <<tries, seenFails>>

\* keep_result = 0: the id of a finished job is free at once.
JobEnds(kind, p) ==
    /\ job' = [job EXCEPT ![kind][p] = "none"]
    /\ tries' = [tries EXCEPT ![kind][p] = 0]
    /\ UNCHANGED seenFails

\* arq counts job_try before it runs the job, and drops a job past its max_tries.
CanStart(kind, p) == JobAt(kind, p, "queued") /\ tries[kind][p] < MaxTries[kind]

JobStarts(kind, p, to) ==
    /\ job' = [job EXCEPT ![kind][p] = to]
    /\ tries' = [tries EXCEPT ![kind][p] = @ + 1]

Exhausted(kind, p) ==
    /\ JobAt(kind, p, "queued") /\ JobEnds(kind, p)
    /\ tries[kind][p] >= MaxTries[kind]
    /\ UNCHANGED <<rowVars, pdf, refsPending>>

\* pipeline.parse_stage, from its SELECT to reading the file.
ParseStart(p) ==
    /\ CanStart("parse", p)
    /\ IF state[p] # "pdf_fetched"
         THEN JobEnds("parse", p)
         ELSE /\ JobStarts("parse", p, IF pdf[p] THEN "parsing" ELSE "missing")
              /\ seenFails' = [seenFails EXCEPT ![p] = failCount[p]]
    /\ UNCHANGED <<rowVars, pdf, refsPending>>

ParseMissing(p) ==
    /\ JobAt("parse", p, "missing") /\ JobEnds("parse", p)
    /\ SetState(p, "failed")
    /\ UNCHANGED <<pdf, refsPending>>

\* GROBID or PyMuPDF reads it, and what they read may hold no sentence: the TEI
\* file is replaced, then come the state and the chunk job.
ParseWrites(p) ==
    /\ JobAt("parse", p, "parsing") /\ JobGoes("parse", p, "written")
    /\ \E text \in BOOLEAN : document' = [document EXCEPT ![p] = text]
    /\ UNCHANGED <<state, failCount, chunks, refs, pdf, refsPending>>

ParseSucceeds(p) ==
    /\ JobAt("parse", p, "written") /\ JobGoes("parse", p, "parsed")
    /\ SetState(p, "parsed")
    /\ UNCHANGED <<pdf, refsPending>>

EnqueueChunk(p) ==
    /\ JobAt("parse", p, "parsed")
    /\ job' = [Enqueued("chunk", {p}) EXCEPT !["parse"][p] = "none"]
    /\ tries' = [tries EXCEPT !["parse"][p] = 0]
    /\ UNCHANGED <<rowVars, pdf, refsPending, seenFails>>

ParseFailsNoRetry(p) ==                   \* mutant of ParseFails: no Retry is raised
    /\ JobAt("parse", p, "parsing") /\ JobEnds("parse", p)
    /\ seenFails[p] + 1 < MaxParseFailures
    /\ SetFailure(p, "pdf_fetched", seenFails[p] + 1)
    /\ UNCHANGED <<pdf, refsPending>>

\* Both parsers fail: the PDF is kept and arq retries the job, or, the last time,
\* the PDF is deleted and the paper becomes abstract_only.
ParseFails(p) ==
    /\ JobAt("parse", p, "parsing") /\ JobGoes("parse", p, "queued")
    /\ seenFails[p] + 1 < MaxParseFailures
    /\ SetFailure(p, "pdf_fetched", seenFails[p] + 1)
    /\ UNCHANGED <<pdf, refsPending>>

ParseGivesUp(p) ==
    /\ JobAt("parse", p, "parsing") /\ JobGoes("parse", p, "giveup")
    /\ seenFails[p] + 1 >= MaxParseFailures
    /\ pdf' = [pdf EXCEPT ![p] = FALSE]
    /\ UNCHANGED <<rowVars, refsPending>>

ParseAbstractOnly(p) ==
    /\ JobAt("parse", p, "giveup") /\ JobEnds("parse", p)
    /\ SetFailure(p, "abstract_only", seenFails[p] + 1)
    /\ UNCHANGED <<pdf, refsPending>>

\* pipeline.chunk_embed_stage: what the job does depends on the state it reads.
ChunkStart(p) ==
    /\ CanStart("chunk", p)
    /\ IF state[p] \notin {"parsed", "embedded"}
         THEN JobEnds("chunk", p)
         ELSE /\ JobStarts("chunk", p, IF state[p] = "parsed" THEN "chunking" ELSE "finalizing")
              /\ UNCHANGED seenFails
    /\ UNCHANGED <<rowVars, pdf, refsPending>>

\* _parse_and_chunk: a document without a sentence has no chunks.
ChunkRead(p) ==
    /\ JobAt("chunk", p, "chunking")
    /\ JobGoes("chunk", p, IF document[p] THEN "cut" ELSE "blank")
    /\ UNCHANGED <<rowVars, pdf, refsPending>>

Cut(p) == workerUp /\ job["chunk"][p] \in {"cut", "blank"}

ChunkCommitStateOnly(p) ==                \* mutant of ChunkCommit: chunks not in the transaction
    /\ Cut(p) /\ JobGoes("chunk", p, "committed")
    /\ SetState(p, "embedded")
    /\ UNCHANGED <<pdf, refsPending>>

\* One transaction: the old chunks go and the new ones come, references, state.
ChunkCommit(p) ==
    /\ Cut(p) /\ JobGoes("chunk", p, "committed")
    /\ state' = [state EXCEPT ![p] = "embedded"]
    /\ chunks' = [chunks EXCEPT ![p] = job["chunk"][p] = "cut"]
    /\ refs' = [refs EXCEPT ![p] = "stored"]
    /\ UNCHANGED <<failCount, document, pdf, refsPending>>

ChunkUnlink(p) ==
    /\ JobAt("chunk", p, "committed") /\ JobGoes("chunk", p, "finalizing")
    /\ pdf' = [pdf EXCEPT ![p] = FALSE]
    /\ UNCHANGED <<rowVars, refsPending>>

FinalizeNotPending(p) ==                  \* mutant of FinalizePending: no SADD before ready
    /\ JobAt("chunk", p, "finalizing") /\ JobGoes("chunk", p, "pending")
    /\ UNCHANGED <<rowVars, pdf, refsPending>>

\* pipeline.finalize: SADD refs:pending, then ready (and published).
FinalizePending(p) ==
    /\ JobAt("chunk", p, "finalizing") /\ JobGoes("chunk", p, "pending")
    /\ refsPending' = refsPending \cup {p}
    /\ UNCHANGED <<rowVars, pdf>>

FinalizeReady(p) ==
    /\ JobAt("chunk", p, "pending") /\ JobGoes("chunk", p, "resolving")
    /\ SetState(p, "ready")
    /\ UNCHANGED <<pdf, refsPending>>

\* resolve_refs_job: references of a ready paper that a restart left unresolved.
RefsStart(p) ==
    /\ CanStart("refs", p) /\ JobStarts("refs", p, "resolving")
    /\ UNCHANGED <<rowVars, pdf, refsPending, seenFails>>

\* pipeline.resolve_references: one transaction under the lock, then SREM.
Resolve(kind, p) ==
    /\ JobAt(kind, p, "resolving") /\ JobGoes(kind, p, "resolved")
    /\ refs' = [refs EXCEPT ![p] = "resolved"]
    /\ UNCHANGED <<state, failCount, document, chunks, pdf, refsPending>>

ResolveDone(kind, p) ==
    /\ JobAt(kind, p, "resolved") /\ JobEnds(kind, p)
    /\ refsPending' = refsPending \ {p}
    /\ UNCHANGED <<rowVars, pdf>>

\* A deadlock or serialization error in a transaction: chunk_paper raises Retry
\* for it, resolve_refs_job fails.
Conflict(kind, p) ==
    /\ workerUp
    /\ <<kind, job[kind][p]>> \in {"chunk"} \X {"cut", "blank", "pending", "resolving"}
                                   \cup {<<"refs", "resolving">>}
    /\ Fault("conflict")
    /\ IF kind = "chunk" THEN JobGoes(kind, p, "queued") ELSE JobEnds(kind, p)
    /\ UNCHANGED <<rowVars, pdf, refsPending>>

\* A timeout, or an error the job does not turn into Retry: arq drops the job.
JobError(kind, p) ==
    /\ workerUp /\ job[kind][p] \notin {"none", "queued"}
    /\ Fault("jobError")
    /\ JobEnds(kind, p)
    /\ UNCHANGED <<rowVars, pdf, refsPending>>

WorkerFrame == UNCHANGED <<listVars, fetcher, client>>

JobStep(kind, p) ==
    /\ \/ kind = "parse" /\ \/ ParseStart(p) \/ ParseMissing(p) \/ ParseWrites(p)
                            \/ ParseSucceeds(p) \/ EnqueueChunk(p) \/ ParseFails(p) \/ ParseGivesUp(p)
                            \/ ParseAbstractOnly(p)
       \/ kind = "chunk" /\ \/ ChunkStart(p) \/ ChunkRead(p) \/ ChunkCommit(p)
                            \/ ChunkUnlink(p) \/ FinalizePending(p) \/ FinalizeReady(p)
       \/ kind = "refs" /\ RefsStart(p)
       \/ Resolve(kind, p) \/ ResolveDone(kind, p) \/ Exhausted(kind, p)
    /\ WorkerFrame /\ UNCHANGED <<janitor, workerUp, budget>>

JobFault(kind, p) ==
    /\ Conflict(kind, p) \/ JobError(kind, p)
    /\ WorkerFrame /\ UNCHANGED <<janitor, workerUp>>

\* Crash or shutdown: arq keeps the jobs and runs the interrupted ones again.
WorkerCrash ==
    /\ workerUp
    /\ Fault("workerCrash")
    /\ workerUp' = FALSE
    /\ job' = [kind \in Kinds |->
                [p \in Papers |-> IF job[kind][p] = "none" THEN "none" ELSE "queued"]]
    /\ janitor' = IdleJanitor
    /\ UNCHANGED <<rowVars, pdf, tries, seenFails, refsPending>>
    /\ WorkerFrame

UnfinishedParsed(kind) ==                 \* mutant of Unfinished: embedded and refs forgotten
    {p \in Papers : CASE kind = "parse" -> state[p] = "pdf_fetched" /\ pdf[p]
                      [] kind = "chunk" -> state[p] = "parsed"
                      [] OTHER -> FALSE}

\* arq_worker.recover.  Its SELECT and its enqueues are one step: only the
\* worker's own jobs move these papers on, and none runs before it ends.
Unfinished(kind) ==
    CASE kind = "parse" -> {p \in Papers : state[p] = "pdf_fetched" /\ pdf[p]}
      [] kind = "chunk" -> {p \in Papers : state[p] \in {"parsed", "embedded"}}
      [] kind = "refs"  -> refsPending

WorkerRecover ==
    /\ ~workerUp
    /\ workerUp' = TRUE
    /\ job' = [kind \in Kinds |-> Enqueued(kind, Unfinished(kind))[kind]]
    /\ UNCHANGED <<rowVars, pdf, tries, seenFails, refsPending, janitor, budget>>
    /\ WorkerFrame

-----------------------------------------------------------------------------
\* janitor.run_janitor: over the cap, a waiting PDF goes; a day-old orphan (so
\* not the file the fetcher has just written) goes in any case.

JanitorChoose(p) ==
    /\ janitor.pc = "idle"
    /\ state[p] = "pdf_fetched" /\ pdf[p]
    /\ Fault("evict")
    /\ janitor' = [pc |-> "chosen", paper |-> p]
    /\ UNCHANGED <<rowVars, pdf>>

JanitorUnlink ==
    /\ janitor.pc = "chosen"
    /\ pdf' = [pdf EXCEPT ![janitor.paper] = FALSE]
    /\ janitor' = [janitor EXCEPT !.pc = "unlinked"]
    /\ UNCHANGED <<rowVars, budget>>

JanitorMark ==
    /\ janitor.pc = "unlinked"
    /\ IF state[janitor.paper] = "pdf_fetched" THEN SetState(janitor.paper, "signals_done")
                                               ELSE UNCHANGED rowVars
    /\ janitor' = IdleJanitor
    /\ UNCHANGED <<pdf, budget>>

JanitorOrphan(p) ==
    /\ janitor.pc = "idle"
    /\ pdf[p] /\ state[p] # "pdf_fetched"
    /\ ~(fetcher.pc = "written" /\ fetcher.paper = p)
    /\ pdf' = [pdf EXCEPT ![p] = FALSE]
    /\ UNCHANGED <<rowVars, janitor, budget>>

JanitorFrame == UNCHANGED <<listVars, jobVars, fetcher, client, workerUp, refsPending>>

JanitorStep ==
    /\ workerUp /\ (JanitorUnlink \/ JanitorMark)
    /\ JanitorFrame

JanitorRun(p) ==
    /\ workerUp /\ (JanitorChoose(p) \/ JanitorOrphan(p))
    /\ JanitorFrame

-----------------------------------------------------------------------------
Next ==
    \/ \E c \in Clients : ClientStep(c) \/ ClientCall(c) \/ ClientCrash(c)
    \/ FetcherStep \/ HandlerError \/ FetcherCrash
    \/ \E kind \in Kinds, p \in Papers : JobStep(kind, p) \/ JobFault(kind, p)
    \/ WorkerCrash \/ WorkerRecover
    \/ JanitorStep \/ \E p \in Papers : JanitorRun(p)

Spec == Init /\ [][Next]_vars

(***************************************************************************)
(* The fetcher's loop and the worker's jobs keep running, Docker restarts  *)
(* both (restart: unless-stopped), and a call in progress ends.  Requests, *)
(* demotions, cleaning and faults never have to happen.                    *)
(***************************************************************************)
Fairness ==
    /\ WF_vars(FetcherStep)
    /\ WF_vars(WorkerRecover)
    /\ \A kind \in Kinds, p \in Papers : WF_vars(JobStep(kind, p))
    /\ \A c \in Clients : WF_vars(ClientStep(c))

FairSpec == Spec /\ Fairness
-----------------------------------------------------------------------------
\* Properties.  Some hold as long as faults of the given kinds have not happened.

Spared(kinds) == \A f \in kinds : budget[f] = Faults[f]

InHand(p) == fetcher.paper = p /\ fetcher.pc \in HandlerPcs \ {"stored"}
InCall(p) == \E c \in Clients : client[c].paper = p /\ client[c].pc \in {"updated", "demoting"}
Carried(p) == p \in Queued(urgent) \cup Queued(bulk) \/ InHand(p) \/ InCall(p)

(***************************************************************************)
(* While the fetcher runs, a paper waiting for its PDF is in a list, in    *)
(* the fetcher's hands, or about to be pushed: no interleaving of requests,*)
(* demotions, retries, evictions and fetcher crashes loses it ("re-queue   *)
(* papers left in queued_fulltext whose job was lost", workers/fetcher.py).*)
(***************************************************************************)
QueuedIsCarried ==
    Spared({"clientCrash", "handlerError"}) /\ fetcher.pc \in HandlerPcs \cup {"idle"} =>
        \A p \in Papers : state[p] = "queued_fulltext" => Carried(p)

(***************************************************************************)
(* "Restarts never lose ... work" (workers/arq_worker.py): while the worker*)
(* runs, a paper between its PDF and its chunks has a job to move it on.   *)
(***************************************************************************)
PipelineHasJob ==
    Spared({"fetcherCrash", "handlerError", "jobError", "evict"}) /\ workerUp =>
        \A p \in Papers :
            /\ state[p] = "pdf_fetched" =>
                  job["parse"][p] # "none" \/ (fetcher.pc = "stored" /\ fetcher.paper = p)
            /\ state[p] = "parsed" => job["chunk"][p] # "none" \/ job["parse"][p] = "parsed"
            /\ state[p] = "embedded" => job["chunk"][p] # "none"

(***************************************************************************)
(* A paper that is embedded or ready has chunks exactly if the document    *)
(* now in parsed/ has a sentence: a parse or chunk job that dies between   *)
(* its file and its row, is retried or runs again never announces a paper  *)
(* whose text is missing, nor keeps chunks of an older parse               *)
(* (chunk_embed_stage, parse_stage).  A paper may be ready with none       *)
(* (chunk_document of a document without sentences, test_empty_doc).  An   *)
(* eviction can make two rounds of the pipeline overlap; it is spared.     *)
(***************************************************************************)
ReadyHasChunks ==
    Spared({"evict"}) =>
        \A p \in Papers : state[p] \in {"embedded", "ready"} => chunks[p] = document[p]

(***************************************************************************)
(* A ready paper's references are resolved or remembered in refs:pending,  *)
(* whatever dies when ("added before 'ready', so a crash in between is     *)
(* recovered", ingest/pipeline.py).                                        *)
(***************************************************************************)
RefsAccounted ==
    Spared({"evict"}) =>
        \A p \in Papers : state[p] = "ready" => refs[p] = "resolved" \/ p \in refsPending

(***************************************************************************)
(* While the worker runs, a paper in refs:pending has a job that will      *)
(* resolve it, as long as no transaction conflicts and no job dies.        *)
(***************************************************************************)
PendingHasJob ==
    Spared({"conflict", "jobError", "evict"}) /\ workerUp =>
        \A p \in refsPending : job["chunk"][p] # "none" \/ job["refs"][p] # "none"

(***************************************************************************)
(* No stage is forgotten: what a paper's state or refs:pending still asks  *)
(* for has a job (the two parts spare the faults that lose a job).         *)
(***************************************************************************)
WorkHasJob == PipelineHasJob /\ PendingHasJob

\* It takes max_tries that leave room for the crashes (and, for chunk jobs, the
\* conflicts) that happen, on top of the parsers' failures: arq drops a job past them.
EnoughTries ==
    /\ MaxTries["parse"] >= MaxParseFailures + Faults["workerCrash"]
    /\ MaxTries["chunk"] > Faults["workerCrash"] + Faults["conflict"]
    /\ MaxTries["refs"] > Faults["workerCrash"]

(***************************************************************************)
(* The pipeline implements PaperLifecycle, until a PDF is evicted: the row *)
(* of a paper is that specification's state, its jobs and lists are not    *)
(* seen, and whatever fails or restarts, every step is a step of it.       *)
(***************************************************************************)
Lifecycle ==
    INSTANCE PaperLifecycle WITH Papers <- Papers, state <- state, document <- document,
                                 chunks <- chunks, refs <- refs

LifecycleSpec ==
    /\ Lifecycle!Init
    /\ [][Spared({"evict"})' => [Lifecycle!Next]_(Lifecycle!vars)]_vars

(***************************************************************************)
(* Every paper waiting for its full text gets it or is given up, whatever  *)
(* the outcomes of its downloads and of its parsing; if the worker dies    *)
(* while it gives a paper up, the paper may end failed, for a new request. *)
(* A worker that dies and restarts delays nothing for ever; the faults     *)
(* after which only a new request or a restart helps are spared.           *)
(***************************************************************************)
LosesWork == {"clientCrash", "handlerError", "jobError", "evict", "fetcherCrash", "conflict"}

QueuedIsServed ==
    \A p \in Papers :
        state[p] = "queued_fulltext" ~>
            \/ state[p] \in {"ready", "abstract_only"}
            \/ state[p] = "failed" /\ ~Spared({"workerCrash"})
            \/ ~Spared(LosesWork)

(***************************************************************************)
(* The references of every ready paper eventually become edges.            *)
(***************************************************************************)
RefsEventuallyResolved ==
    \A p \in Papers : state[p] = "ready" ~> refs[p] = "resolved" \/ ~Spared(LosesWork)

(***************************************************************************)
(* "Transient conflicts between concurrent transactions: retry instead of  *)
(* failing the job" (workers/arq_worker.py:63): a job retried after a      *)
(* conflict still has its work before it, so refs:pending empties.         *)
(***************************************************************************)
ConflictsAreRetried ==
    workerUp => \A p \in refsPending : job["chunk"][p] # "none" \/ job["refs"][p] # "none"
=============================================================================
