--------------------------- MODULE FullTextProofs ---------------------------
(***************************************************************************)
(* Proofs about FullText, for every set of papers and clients and every    *)
(* budget of faults: its types, that no paper waiting for its PDF is lost, *)
(* that the processes agree with the papers table, that no stage of the    *)
(* pipeline is forgotten, and that FullText implements PaperLifecycle.     *)
(***************************************************************************)
EXTENDS FullText, TLAPS

-----------------------------------------------------------------------------
\* What the helpers the actions are built from preserve.

\* Writing a state of the table keeps the rows well-typed.
LEMMA SetStateOK ==
  ASSUME RowsOK, NEW p \in Papers, NEW s \in States, SetState(p, s)
  PROVE  RowsOK'
BY DEF RowsOK, SetState

\* So does writing a state with a failure count.
LEMMA SetFailureOK ==
  ASSUME RowsOK, NEW p \in Papers, NEW s \in States, NEW n \in Nat, SetFailure(p, s, n)
  PROVE  RowsOK'
BY DEF RowsOK, SetFailure

\* RPUSH to bulk keeps the lists well-typed.
LEMMA PushBulkOK ==
  ASSUME ListsOK, NEW S \in SUBSET Papers, PushBulk(S)
  PROVE  ListsOK'
BY DEF ListsOK, PushBulk, Push, Jobs

\* Moving a job to a step of its kind, starting it, or ending it keeps the jobs well-typed.
LEMMA JobGoesOK ==
  ASSUME JobsOK, NEW kind \in Kinds, NEW p \in Papers, NEW to \in JobPcs(kind) \cap AllPcs,
         JobGoes(kind, p, to)
  PROVE  JobsOK'
BY DEF JobsOK, JobGoes

LEMMA JobStartsOK ==
  ASSUME JobsOK, NEW kind \in Kinds, NEW p \in Papers, NEW to \in JobPcs(kind) \cap AllPcs,
         JobStarts(kind, p, to), seenFails' \in [Papers -> Nat]
  PROVE  JobsOK'
BY DEF JobsOK, JobStarts

LEMMA JobEndsOK ==
  ASSUME JobsOK, NEW kind \in Kinds, NEW p \in Papers, JobEnds(kind, p)
  PROVE  JobsOK'
BY DEF JobsOK, JobEnds, JobPcs, AllPcs, ParsePcs, ChunkPcs, RefsPcs, Kinds

\* enqueue_job adds jobs that are queued.
LEMMA EnqueuedOK ==
  ASSUME JobsOK, NEW kind \in Kinds, NEW S
  PROVE  /\ Enqueued(kind, S) \in [Kinds -> [Papers -> AllPcs]]
         /\ \A k \in Kinds, p \in Papers : Enqueued(kind, S)[k][p] \in JobPcs(k)
BY DEF JobsOK, Enqueued, JobPcs, AllPcs, ParsePcs, ChunkPcs, RefsPcs, Kinds

\* What the job helpers do to each job: the one they name gets its new place.
LEMMA JobAtAfter ==
  ASSUME JobsOK, NEW kind \in Kinds, NEW p \in Papers, NEW to,
         JobGoes(kind, p, to) \/ JobStarts(kind, p, to) \/ (JobEnds(kind, p) /\ to = "none")
  PROVE  \A k \in Kinds, q \in Papers :
            job'[k][q] = IF k = kind /\ q = p THEN to ELSE job[k][q]
BY DEF JobsOK, JobGoes, JobStarts, JobEnds

LEMMA EnqueuedAt ==
  ASSUME JobsOK, NEW kind \in Kinds, NEW S
  PROVE  \A k \in Kinds, q \in Papers :
            Enqueued(kind, S)[k][q] = IF k = kind /\ q \in S /\ job[k][q] = "none"
                                        THEN "queued" ELSE job[k][q]
BY DEF JobsOK, Enqueued

\* What the row helpers do to each row.
LEMMA StateAfter ==
  ASSUME RowsOK, NEW p \in Papers, NEW s,
         SetState(p, s) \/ \E n \in Nat : SetFailure(p, s, n)
  PROVE  /\ state' = [state EXCEPT ![p] = s]
         /\ \A q \in Papers : state'[q] = IF q = p THEN s ELSE state[q]
         /\ UNCHANGED <<document, chunks, refs>>
BY DEF RowsOK, SetState, SetFailure

\* The fetcher moving on in its handler, or ending it, stays well-typed.
LEMMA FetcherGoesOK ==
  ASSUME FetcherOK, NEW to \in FetcherPcs, FetcherGoes(to), fetcher.pc \in HandlerPcs
  PROVE  FetcherOK'
BY DEF FetcherOK, FetcherGoes

LEMMA FetcherDoneOK ==
  ASSUME FetcherDone
  PROVE  FetcherOK'
BY DEF FetcherOK, FetcherDone, IdleFetcher, FetcherPcs, HandlerPcs

\* A fault is one less that may still happen.
LEMMA FaultOK ==
  ASSUME budget \in [FaultKinds -> Nat], NEW f \in FaultKinds, Fault(f)
  PROVE  /\ budget' \in [FaultKinds -> Nat]
         /\ budget[f] > 0 /\ budget'[f] = budget[f] - 1
         /\ \A g \in FaultKinds : budget'[g] <= budget[g]
BY DEF Fault

\* What a step leaves alone keeps its type.
LEMMA FramesOK ==
  ASSUME TypeOK
  PROVE  /\ UNCHANGED rowVars => RowsOK'
         /\ UNCHANGED listVars => ListsOK'
         /\ UNCHANGED jobVars => JobsOK'
         /\ UNCHANGED fetcher => FetcherOK'
         /\ UNCHANGED client => ClientsOK'
         /\ UNCHANGED janitor => JanitorOK'
BY DEF TypeOK, RowsOK, ListsOK, JobsOK, FetcherOK, ClientsOK, JanitorOK,
       rowVars, listVars, jobVars

-----------------------------------------------------------------------------
\* One lemma per process: its steps keep TypeOK.

LEMMA ClientTyping ==
  ASSUME TypeOK, NEW c \in Clients, ClientStep(c) \/ ClientCall(c) \/ ClientCrash(c)
  PROVE  TypeOK'
<1>0. UNCHANGED <<pdf, jobVars, fetcher, janitor, workerUp, refsPending>>
  BY DEF ClientStep, ClientCall, ClientCrash, ClientFrame
<1>1. RowsOK' /\ ListsOK' /\ ClientsOK' => TypeOK'
  <2>1. budget' \in [FaultKinds -> Nat]
    BY FaultOK DEF ClientStep, ClientCall, ClientCrash, TypeOK, FaultKinds
  <2> QED
    BY <1>0, <2>1, FramesOK DEF TypeOK
<1>2. CASE RequestUpdate(c)
  <2>1. RowsOK' /\ ListsOK'
    BY <1>2, FramesOK, SetStateOK DEF RequestUpdate, States, TypeOK, ClientsOK
  <2>2. ClientsOK'
    BY <1>2 DEF RequestUpdate, ClientsOK, TypeOK, ClientPcs
  <2> QED
    BY <1>1, <2>1, <2>2
<1>3. CASE RequestPush(c)
  <2>1. RowsOK' /\ ClientsOK'
    BY <1>3, FramesOK DEF RequestPush, ClientsOK, TypeOK, ClientPcs, IdleClient
  <2>2. ListsOK'
    BY <1>3, PushBulkOK DEF RequestPush, TypeOK, ClientsOK, ListsOK, Push, Jobs
  <2> QED
    BY <1>1, <2>1, <2>2
<1>4. CASE DemotePush(c)
  <2>1. RowsOK' /\ ClientsOK'
    BY <1>4, FramesOK DEF DemotePush, ClientsOK, TypeOK, ClientPcs, IdleClient
  <2>2. ListsOK'
    BY <1>4, PushBulkOK DEF DemotePush, TypeOK, ClientsOK
  <2> QED
    BY <1>1, <2>1, <2>2
<1>5. ASSUME NEW p \in Papers, NEW u \in BOOLEAN, Request(c, p, u) PROVE TypeOK'
  <2>1. RowsOK' /\ ListsOK'
    BY <1>5, FramesOK DEF Request
  <2>2. ClientsOK'
    BY <1>5 DEF Request, ClientsOK, TypeOK, ClientPcs
  <2> QED
    BY <1>1, <2>1, <2>2
<1>6. ASSUME NEW p \in Papers, Demote(c, p) PROVE TypeOK'
  <2>1. RowsOK' /\ ListsOK'
    BY <1>6, FramesOK DEF Demote, TypeOK, ListsOK
  <2>2. ClientsOK'
    BY <1>6 DEF Demote, ClientsOK, TypeOK, ClientPcs
  <2> QED
    BY <1>1, <2>1, <2>2
<1>7. CASE ClientCrash(c)
  BY <1>1, <1>7, FramesOK DEF ClientCrash, ClientsOK, TypeOK, ClientPcs, IdleClient
<1> QED
  BY <1>2, <1>3, <1>4, <1>5, <1>6, <1>7 DEF ClientStep, ClientCall

\* The steps of the fetcher in its handler.
LEMMA HandlerTyping ==
  ASSUME TypeOK,
         WritePdf \/ StoreFetched \/ EnqueueParse
            \/ FetchGivesUp \/ FetchFails \/ FetchRequeue \/ FetchRepush
  PROVE  /\ RowsOK' /\ ListsOK' /\ JobsOK' /\ FetcherOK'
         /\ pdf' \in [Papers -> BOOLEAN]
<1> USE DEF FetcherAt, HandlerPcs
<1>1. fetcher.paper \in Papers /\ fetcher.fails + 1 \in Nat /\ fetcher.pc \in HandlerPcs
  BY DEF TypeOK, FetcherOK, WritePdf, StoreFetched, EnqueueParse, FetchGivesUp, FetchFails,
         FetchRequeue, FetchRepush
<1>2. FetcherOK'
  <2>1. CASE FetcherDone
    BY <2>1, FetcherDoneOK
  <2>2. CASE \E to \in FetcherPcs : FetcherGoes(to)
    BY <1>1, <2>2, FetcherGoesOK DEF TypeOK
  <2> QED
    BY <2>1, <2>2 DEF FetcherPcs, WritePdf, StoreFetched, EnqueueParse, FetchGivesUp,
                      FetchFails, FetchRequeue, FetchRepush
<1>3. RowsOK'
  <2>1. CASE UNCHANGED rowVars
    BY <2>1, FramesOK
  <2>2. CASE \E s \in States : SetState(fetcher.paper, s)
    BY <1>1, <2>2, SetStateOK DEF TypeOK
  <2>3. CASE \E s \in States : SetFailure(fetcher.paper, s, fetcher.fails + 1)
    BY <1>1, <2>3, SetFailureOK DEF TypeOK
  <2> QED
    BY <2>1, <2>2, <2>3 DEF States, Enqueueable, WritePdf, StoreFetched, EnqueueParse,
       FetchGivesUp, FetchFails, FetchRequeue, FetchRepush
<1>4. ListsOK'
  <2>1. CASE FetchRepush
    BY <1>1, <2>1, PushBulkOK DEF FetchRepush, TypeOK
  <2> QED
    BY <2>1, FramesOK DEF WritePdf, StoreFetched, EnqueueParse, FetchGivesUp,
       FetchFails, FetchRequeue
<1>5. JobsOK'
  <2>1. CASE EnqueueParse
    <3>1. job' = Enqueued("parse", {fetcher.paper}) /\ "parse" \in Kinds /\ JobsOK
      BY <2>1 DEF EnqueueParse, Kinds, TypeOK
    <3> QED
      BY <2>1, <3>1, EnqueuedOK DEF EnqueueParse, JobsOK
  <2> QED
    BY <2>1, FramesOK DEF WritePdf, StoreFetched, FetchGivesUp, FetchFails, FetchRequeue,
       FetchRepush
<1>6. pdf' \in [Papers -> BOOLEAN]
  BY DEF TypeOK, WritePdf, StoreFetched, EnqueueParse, FetchGivesUp, FetchFails, FetchRequeue,
         FetchRepush
<1> QED
  BY <1>2, <1>3, <1>4, <1>5, <1>6

\* The papers of the lists are papers.
LEMMA QueuedPapers ==
  ASSUME ListsOK
  PROVE  Queued(urgent) \in SUBSET Papers /\ Queued(bulk) \in SUBSET Papers
BY DEF ListsOK, Queued, Jobs

\* Its other steps: popping a job, reading the row, recovering after a start.
LEMMA RecoverTyping ==
  ASSUME TypeOK,
         Pop \/ ReadRow \/ RecoverUrgent \/ RecoverBulk \/ RecoverSelect \/ RecoverPush
  PROVE  ListsOK' /\ FetcherOK' /\ UNCHANGED <<rowVars, pdf, jobVars>>
<1> USE DEF TypeOK
<1>1. CASE Pop
  BY <1>1 DEF Pop, ListsOK, FetcherOK, FetcherPcs, HandlerPcs, Jobs
<1>2. CASE ReadRow
  <2>1. CASE FetcherDone
    BY <1>2, <2>1, FetcherDoneOK, FramesOK DEF ReadRow
  <2>2. CASE fetcher' = [fetcher EXCEPT !.pc = "fetching", !.fails = failCount[fetcher.paper]]
    <3>1. fetcher.paper \in Papers /\ failCount[fetcher.paper] \in Nat
      BY <1>2 DEF ReadRow, FetcherAt, FetcherOK, HandlerPcs, RowsOK
    <3>2. FetcherOK'
      BY <2>2, <3>1 DEF FetcherOK, FetcherPcs, HandlerPcs
    <3> QED
      BY <1>2, <3>2, FramesOK DEF ReadRow
  <2> QED
    BY <1>2, <2>1, <2>2 DEF ReadRow
<1>3. CASE RecoverUrgent
  <2>1. FetcherOK'
    BY <1>3, QueuedPapers DEF RecoverUrgent, FetcherOK, FetcherPcs, HandlerPcs
  <2> QED
    BY <1>3, <2>1, FramesOK DEF RecoverUrgent
<1>4. CASE RecoverBulk
  <2>1. fetcher.found \cup Queued(bulk) \in SUBSET Papers
    BY QueuedPapers DEF FetcherOK
  <2>2. FetcherOK'
    BY <1>4, <2>1 DEF RecoverBulk, FetcherOK, FetcherPcs, HandlerPcs
  <2> QED
    BY <1>4, <2>2, FramesOK DEF RecoverBulk
<1>5. CASE RecoverSelect
  BY <1>5, FramesOK DEF RecoverSelect, FetcherOK, FetcherPcs, HandlerPcs
<1>6. CASE RecoverPush
  <2>1. ListsOK'
    BY <1>6, PushBulkOK, FramesOK DEF RecoverPush, FetcherOK
  <2> QED
    BY <1>6, <2>1, FetcherDoneOK DEF RecoverPush
<1> QED
  BY <1>1, <1>2, <1>3, <1>4, <1>5, <1>6

LEMMA FetcherTyping ==
  ASSUME TypeOK, FetcherStep \/ HandlerError \/ FetcherCrash
  PROVE  TypeOK'
<1>1. UNCHANGED <<client, janitor, workerUp, refsPending>>
  BY DEF FetcherStep, HandlerError, FetcherCrash, FetcherFrame
<1>2. ClientsOK' /\ JanitorOK' /\ budget' \in [FaultKinds -> Nat]
  BY <1>1, FramesOK, FaultOK DEF FetcherStep, HandlerError, FetcherCrash, TypeOK, FaultKinds
<1>3. CASE FetcherStep
  BY <1>1, <1>2, <1>3, HandlerTyping, RecoverTyping, FramesOK DEF FetcherStep, TypeOK
<1>4. CASE HandlerError
  BY <1>1, <1>2, <1>4, FetcherDoneOK, FramesOK DEF HandlerError, TypeOK
<1>5. CASE FetcherCrash
  BY <1>1, <1>2, <1>5, FramesOK
     DEF FetcherCrash, TypeOK, FetcherOK, IdleFetcher, FetcherPcs, HandlerPcs
<1> QED
  BY <1>3, <1>4, <1>5

\* The steps of a job, and its faults.
LEMMA JobTyping ==
  ASSUME TypeOK, NEW kind \in Kinds, NEW p \in Papers, JobStep(kind, p) \/ JobFault(kind, p)
  PROVE  TypeOK'
<1> USE DEF TypeOK
<1> DEFINE To == JobPcs(kind) \cap AllPcs
<1>1. UNCHANGED <<listVars, fetcher, client, janitor, workerUp>>
  BY DEF JobStep, JobFault, WorkerFrame
<1>2. budget' \in [FaultKinds -> Nat]
  BY FaultOK DEF JobStep, JobFault, Conflict, JobError, FaultKinds
<1>3. seenFails[p] + 1 \in Nat
  BY DEF JobsOK
<1>4. ASSUME kind = "parse",
             \/ ParseStart(p) \/ ParseMissing(p) \/ ParseWrites(p) \/ ParseSucceeds(p) \/ EnqueueChunk(p)
             \/ ParseFails(p) \/ ParseGivesUp(p) \/ ParseAbstractOnly(p)
      PROVE  RowsOK' /\ JobsOK' /\ pdf' \in [Papers -> BOOLEAN] /\ refsPending' \subseteq Papers
  <2>1. RowsOK'
    <3>1. CASE ParseWrites(p)
      BY <3>1 DEF ParseWrites, RowsOK
    <3> QED
      BY <1>3, <1>4, <3>1, FramesOK, SetStateOK, SetFailureOK
       DEF ParseStart, ParseMissing, ParseSucceeds, EnqueueChunk, ParseFails, ParseGivesUp,
           ParseAbstractOnly, States, Enqueueable
  <2>2. pdf' \in [Papers -> BOOLEAN] /\ refsPending' \subseteq Papers
    BY <1>4 DEF ParseStart, ParseMissing, ParseWrites, ParseSucceeds, EnqueueChunk, ParseFails, ParseGivesUp,
                ParseAbstractOnly
  <2>3. CASE ParseStart(p)
    <3>1. CASE JobEnds(kind, p)
      BY <2>1, <2>2, <3>1, JobEndsOK
    <3>2. CASE /\ seenFails' = [seenFails EXCEPT ![p] = failCount[p]]
               /\ \E to \in To : JobStarts(kind, p, to)
      <4>1. seenFails' \in [Papers -> Nat]
        BY <3>2 DEF JobsOK, RowsOK
      <4>2. JobsOK'
        BY <3>2, <4>1, JobStartsOK
      <4> QED
        BY <2>1, <2>2, <4>2
    <3> QED
      BY <1>4, <2>1, <2>2, <2>3, <3>1, <3>2 DEF ParseStart, JobPcs, AllPcs, ParsePcs, ChunkPcs, RefsPcs
  <2>4. CASE EnqueueChunk(p)
    BY <1>4, <2>1, <2>2, <2>4, EnqueuedOK
      DEF EnqueueChunk, JobsOK, Kinds, JobPcs, AllPcs, ParsePcs, ChunkPcs, RefsPcs
  <2>5. CASE JobEnds(kind, p)
    BY <2>1, <2>2, <2>5, JobEndsOK
  <2>6. CASE \E to \in To : JobGoes(kind, p, to)
    BY <2>1, <2>2, <2>6, JobGoesOK
  <2> QED
    BY <1>4, <2>3, <2>4, <2>5, <2>6 DEF ParseMissing, ParseWrites, ParseSucceeds, ParseFails, ParseGivesUp,
       ParseAbstractOnly, JobPcs, AllPcs, ParsePcs, ChunkPcs, RefsPcs
<1>5. ASSUME kind = "chunk",
             \/ ChunkStart(p) \/ ChunkRead(p) \/ ChunkCommit(p) \/ ChunkUnlink(p) \/ FinalizePending(p)
             \/ FinalizeReady(p)
      PROVE  RowsOK' /\ JobsOK' /\ pdf' \in [Papers -> BOOLEAN] /\ refsPending' \subseteq Papers
  <2>1. RowsOK'
    <3>1. CASE ChunkCommit(p)
      BY <3>1 DEF ChunkCommit, RowsOK, States
    <3> QED
      BY <1>5, <3>1, FramesOK, SetStateOK
         DEF ChunkStart, ChunkRead, ChunkUnlink, FinalizePending, FinalizeReady, States
  <2>2. pdf' \in [Papers -> BOOLEAN] /\ refsPending' \subseteq Papers
    BY <1>5 DEF ChunkStart, ChunkRead, ChunkCommit, ChunkUnlink, FinalizePending, FinalizeReady
  <2>3. CASE JobEnds(kind, p)
    BY <2>1, <2>2, <2>3, JobEndsOK
  <2>4. CASE UNCHANGED seenFails /\ \E to \in To : JobStarts(kind, p, to)
    BY <2>1, <2>2, <2>4, JobStartsOK DEF JobsOK
  <2>5. CASE \E to \in To : JobGoes(kind, p, to)
    BY <2>1, <2>2, <2>5, JobGoesOK
  <2> QED
    BY <1>5, <2>3, <2>4, <2>5 DEF ChunkStart, ChunkRead, ChunkCommit, ChunkUnlink, FinalizePending,
       FinalizeReady, JobPcs, AllPcs, ParsePcs, ChunkPcs, RefsPcs
<1>6. ASSUME \/ kind = "refs" /\ RefsStart(p)
             \/ Resolve(kind, p) \/ ResolveDone(kind, p) \/ Exhausted(kind, p)
             \/ Conflict(kind, p) \/ JobError(kind, p)
      PROVE  RowsOK' /\ JobsOK' /\ pdf' \in [Papers -> BOOLEAN] /\ refsPending' \subseteq Papers
  <2>1. RowsOK'
    <3>1. CASE Resolve(kind, p)
      BY <3>1 DEF Resolve, RowsOK
    <3> QED
      BY <1>6, <3>1, FramesOK DEF RefsStart, ResolveDone, Exhausted, Conflict, JobError
  <2>2. pdf' \in [Papers -> BOOLEAN] /\ refsPending' \subseteq Papers
    BY <1>6 DEF RefsStart, Resolve, ResolveDone, Exhausted, Conflict, JobError
  <2>3. CASE JobEnds(kind, p)
    BY <2>1, <2>2, <2>3, JobEndsOK
  <2>4. CASE kind = "refs" /\ RefsStart(p)
    <3>1. seenFails' \in [Papers -> Nat] /\ "refs" \in Kinds
          /\ "resolving" \in JobPcs("refs") \cap AllPcs
      BY <2>4 DEF RefsStart, JobsOK, Kinds, JobPcs, AllPcs, ParsePcs, ChunkPcs, RefsPcs
    <3>2. JobsOK'
      BY <2>4, <3>1, JobStartsOK DEF RefsStart
    <3> QED
      BY <2>1, <2>2, <3>2
  <2>5. CASE Resolve(kind, p)
    <3>1. kind # "parse"
      BY <2>5 DEF Resolve, JobAt, JobsOK, JobPcs, ParsePcs, ChunkPcs, RefsPcs
    <3> QED
      BY <2>1, <2>2, <2>5, <3>1, JobGoesOK DEF Resolve, Kinds, JobPcs, AllPcs, ParsePcs, ChunkPcs, RefsPcs
  <2>6. CASE Conflict(kind, p) /\ kind = "chunk"
    BY <2>1, <2>2, <2>6, JobGoesOK DEF Conflict, JobPcs, AllPcs, ParsePcs, ChunkPcs, RefsPcs
  <2> QED
    BY <1>6, <2>3, <2>4, <2>5, <2>6 DEF ResolveDone, Exhausted, Conflict, JobError
<1> QED
  BY <1>1, <1>2, <1>4, <1>5, <1>6, FramesOK DEF JobStep, JobFault

LEMMA WorkerTyping ==
  ASSUME TypeOK, WorkerCrash \/ WorkerRecover
  PROVE  TypeOK'
<1> USE DEF TypeOK
<1>1. CASE WorkerCrash
  <2>1. JobsOK'
    BY <1>1 DEF WorkerCrash, JobsOK, JobPcs, AllPcs, ParsePcs, ChunkPcs, RefsPcs, Kinds
  <2>2. JanitorOK' /\ budget' \in [FaultKinds -> Nat]
    BY <1>1, FaultOK DEF WorkerCrash, JanitorOK, IdleJanitor, FaultKinds
  <2> QED
    BY <1>1, <2>1, <2>2, FramesOK DEF WorkerCrash, WorkerFrame
<1>2. CASE WorkerRecover
  <2>1. JobsOK'
    BY <1>2, EnqueuedOK DEF WorkerRecover, JobsOK
  <2> QED
    BY <1>2, <2>1, FramesOK DEF WorkerRecover, WorkerFrame
<1> QED
  BY <1>1, <1>2

LEMMA JanitorTyping ==
  ASSUME TypeOK, JanitorStep \/ \E p \in Papers : JanitorRun(p)
  PROVE  TypeOK'
<1> USE DEF TypeOK
<1>1. UNCHANGED <<listVars, jobVars, fetcher, client, workerUp, refsPending>>
  BY DEF JanitorStep, JanitorRun, JanitorFrame
<1>2. RowsOK' /\ JanitorOK' /\ pdf' \in [Papers -> BOOLEAN] /\ budget' \in [FaultKinds -> Nat]
  <2>1. CASE JanitorMark
    BY <2>1, SetStateOK, FramesOK DEF JanitorMark, JanitorOK, IdleJanitor, States, Enqueueable
  <2>2. CASE JanitorUnlink
    BY <2>2, FramesOK DEF JanitorUnlink, JanitorOK
  <2>3. ASSUME NEW p \in Papers, JanitorChoose(p)
        PROVE  RowsOK' /\ JanitorOK' /\ pdf' = pdf /\ budget' \in [FaultKinds -> Nat]
    BY <2>3, FaultOK, FramesOK DEF JanitorChoose, JanitorOK, FaultKinds
  <2>4. ASSUME NEW p \in Papers, JanitorOrphan(p)
        PROVE  RowsOK' /\ JanitorOK' /\ pdf' \in [Papers -> BOOLEAN] /\ budget' = budget
    BY <2>4, FramesOK DEF JanitorOrphan
  <2> QED
    BY <2>1, <2>2, <2>3, <2>4 DEF JanitorStep, JanitorRun
<1> QED
  BY <1>1, <1>2, FramesOK

-----------------------------------------------------------------------------
\* A step of the specification keeps TypeOK.
LEMMA TypingStep ==
  ASSUME TypeOK, [Next]_vars
  PROVE  TypeOK'
<1>1. CASE UNCHANGED vars
  BY <1>1, FramesOK DEF TypeOK, vars, procVars
<1> QED
  BY <1>1, ClientTyping, FetcherTyping, JobTyping, WorkerTyping, JanitorTyping DEF Next

LEMMA TypingInit == Init => TypeOK
BY ConstantsAssumption
   DEF Init, TypeOK, RowsOK, ListsOK, JobsOK, FetcherOK, ClientsOK, JanitorOK,
       States, Enqueueable, IdleFetcher, IdleClient, IdleJanitor,
       FetcherPcs, HandlerPcs, ClientPcs, AllPcs, ParsePcs, ChunkPcs, RefsPcs, JobPcs, Kinds, FaultKinds

(***************************************************************************)
(* Every variable keeps its type: in particular a paper is only ever in a  *)
(* state of the papers table, a job at a step of its own kind, and a       *)
(* process that is busy at work on a paper.                                *)
(***************************************************************************)
THEOREM Typing == Spec => []TypeOK
BY TypingInit, TypingStep, PTL DEF Spec

Waiting(p) == state[p] = "queued_fulltext"
NoCallLost == Spared({"clientCrash", "handlerError"})

\* The budget of faults is only ever spent.
BudgetInv == \A f \in FaultKinds : budget[f] <= Faults[f]

\* What the fetcher's steps of recovery have established so far: the papers it
\* found in the lists are still carried, and those it is about to push are the
\* waiting papers that are not.
RecoverInv ==
    /\ fetcher.pc \in {"scanned", "listed"} => \A p \in fetcher.found : Carried(p)
    /\ fetcher.pc = "recovering" =>
          \A p \in Papers : Waiting(p) => Carried(p) \/ p \in fetcher.found

(***************************************************************************)
(* The inductive invariant.  QueuedIsCarried alone is not inductive: it    *)
(* says nothing of a fetcher that recovers, whose last step it must hold   *)
(* after.                                                                  *)
(***************************************************************************)
QInv ==
    /\ BudgetInv
    /\ QueuedIsCarried
    /\ NoCallLost => RecoverInv

-----------------------------------------------------------------------------
\* A step spends faults, or it does not.
LEMMA BudgetFalls ==
  ASSUME TypeOK, [Next]_vars
  PROVE  \A f \in FaultKinds : budget'[f] <= budget[f]
<1>1. CASE UNCHANGED budget
  BY <1>1 DEF TypeOK
<1>2. CASE \E f \in FaultKinds : Fault(f)
  BY <1>2, FaultOK DEF TypeOK
<1> QED
  BY <1>1, <1>2
     DEF Next, vars, ClientStep, ClientCall, ClientCrash, FetcherStep, HandlerError,
         FetcherCrash, JobStep, JobFault, Conflict, JobError, WorkerCrash, WorkerRecover,
         JanitorStep, JanitorUnlink, JanitorMark, JanitorRun, JanitorChoose, JanitorOrphan,
         FaultKinds

\* Faults that are spared after a step were spared before it.
LEMMA BudgetStep ==
  ASSUME TypeOK, BudgetInv, [Next]_vars
  PROVE  BudgetInv' /\ (NoCallLost' => NoCallLost)
<1>1. \A f \in FaultKinds : budget'[f] <= budget[f]
  BY BudgetFalls
<1>2. budget' \in [FaultKinds -> Nat]
  BY TypingStep DEF TypeOK
<1> QED
  BY <1>1, <1>2, ConstantsAssumption DEF TypeOK, BudgetInv, NoCallLost, Spared, FaultKinds

\* A step that leaves the fetcher alone, takes no carried paper from where it is
\* carried, and has every paper it makes waiting carried, keeps the invariant.
LEMMA CarryingStep ==
  ASSUME QInv, BudgetInv', NoCallLost' => NoCallLost, UNCHANGED fetcher,
         NoCallLost' =>
            \A p \in Papers : /\ Carried(p) => Carried(p)'
                              /\ Waiting(p)' => Waiting(p) \/ Carried(p)',
         fetcher.found \subseteq Papers
  PROVE  QInv'
<1>1. QueuedIsCarried'
  BY DEF QInv, QueuedIsCarried, NoCallLost, Waiting
<1>2. NoCallLost' => RecoverInv'
  BY DEF QInv, RecoverInv
<1> QED
  BY <1>1, <1>2 DEF QInv

\* So does a step of the worker or of the janitor, which touch no list and make
\* no paper wait.
LEMMA QuietStep ==
  ASSUME UNCHANGED <<urgent, bulk, fetcher, client>>, NEW p \in Papers
  PROVE  Carried(p) => Carried(p)'
BY DEF Carried, Queued, InHand, InCall

LEMMA JobQueue ==
  ASSUME TypeOK, NEW kind \in Kinds, NEW p \in Papers, JobStep(kind, p) \/ JobFault(kind, p)
  PROVE  /\ UNCHANGED <<urgent, bulk, fetcher, client>>
         /\ \A q \in Papers : Waiting(q)' => Waiting(q)
<1>1. UNCHANGED <<urgent, bulk, fetcher, client>>
  BY DEF JobStep, JobFault, WorkerFrame, listVars
<1>2. ASSUME NEW q \in Papers, Waiting(q)' PROVE Waiting(q)
  <2>1. CASE UNCHANGED rowVars
    BY <1>2, <2>1 DEF Waiting, rowVars
  <2>2. CASE \E s \in States \ {"queued_fulltext"} : state' = [state EXCEPT ![p] = s]
    BY <1>2, <2>2 DEF Waiting, TypeOK, RowsOK
  <2>3. CASE UNCHANGED state
    BY <1>2, <2>3 DEF Waiting
  <2> QED
    BY <2>1, <2>2, <2>3
       DEF JobStep, JobFault, ParseStart, ParseMissing, ParseWrites, ParseSucceeds, EnqueueChunk, ParseFails,
           ParseGivesUp, ParseAbstractOnly, ChunkStart, ChunkRead, ChunkCommit, ChunkUnlink,
           FinalizePending, FinalizeReady, RefsStart, Resolve, ResolveDone, Exhausted, Conflict,
           JobError, SetState, SetFailure, States, Enqueueable
<1> QED
  BY <1>1, <1>2

LEMMA JanitorQueue ==
  ASSUME TypeOK, JanitorStep \/ \E p \in Papers : JanitorRun(p)
  PROVE  /\ UNCHANGED <<urgent, bulk, fetcher, client>>
         /\ \A q \in Papers : Waiting(q)' => Waiting(q)
BY DEF JanitorStep, JanitorRun, JanitorFrame, listVars, rowVars, JanitorUnlink, JanitorMark,
       JanitorChoose, JanitorOrphan, SetState, Waiting, TypeOK, RowsOK, JanitorOK

-----------------------------------------------------------------------------
\* A pushed paper is in the list.
LEMMA PushQueues ==
  ASSUME NEW list, NEW S, NEW q
  PROVE  q \in Queued(Push(list, S)) <=> q \in Queued(list) \/ q \in S
<1> DEFINE ticket(p) == [paper |-> p, place |-> pushed + 1]
<1>1. \A p : ticket(p).paper = p
  OBVIOUS
<1> HIDE DEF ticket
<1>2. Push(list, S) = list \cup {ticket(p) : p \in S}
  BY DEF Push, ticket
<1>3. ASSUME q \in Queued(Push(list, S)) PROVE q \in Queued(list) \/ q \in S
  <2>1. PICK j \in Push(list, S) : q = j.paper
    BY <1>3 DEF Queued
  <2> QED
    BY <1>1, <1>2, <2>1 DEF Queued
<1>4. q \in Queued(list) => q \in Queued(Push(list, S))
  BY <1>2 DEF Queued
<1>5. ASSUME q \in S PROVE q \in Queued(Push(list, S))
  <2>1. ticket(q) \in Push(list, S)
    BY <1>2, <1>5
  <2> QED
    BY <1>1, <2>1 DEF Queued
<1> QED
  BY <1>3, <1>4, <1>5

\* Clients hand over what they hold: their own call carries a paper from the
\* UPDATE, or from the LREM, to the RPUSH.
LEMMA ClientQueue ==
  ASSUME TypeOK, NEW c \in Clients, ClientStep(c) \/ ClientCall(c), NEW q \in Papers
  PROVE  /\ Carried(q) => Carried(q)'
         /\ Waiting(q)' => Waiting(q) \/ Carried(q)'
<1> USE DEF TypeOK, ClientsOK
<1>0. UNCHANGED fetcher /\ (InHand(q) <=> InHand(q)')
  BY DEF ClientStep, ClientCall, ClientFrame, InHand
<1>1. CASE RequestUpdate(c)
  <2>1. client[c].paper \in Papers /\ client'[c] = [client[c] EXCEPT !.pc = "updated"]
        /\ \A d \in Clients \ {c} : client'[d] = client[d]
    BY <1>1 DEF RequestUpdate
  <2>2. Carried(q) => Carried(q)'
    BY <1>0, <1>1, <2>1 DEF RequestUpdate, listVars, Carried, Queued, InCall
  <2>3. ASSUME Waiting(q)', ~Waiting(q) PROVE Carried(q)'
    <3>1. q = client[c].paper
      BY <1>1, <2>3 DEF RequestUpdate, SetState, Waiting, rowVars, RowsOK
    <3> QED
      BY <2>1, <3>1 DEF Carried, InCall
  <2> QED
    BY <2>2, <2>3
<1>2. CASE RequestPush(c)
  <2>1. (q = client[c].paper \/ q \in Queued(urgent) \cup Queued(bulk))
            => q \in (Queued(urgent) \cup Queued(bulk))'
    BY <1>2, PushQueues DEF RequestPush, PushBulk
  <2>2. InCall(q) => InCall(q)' \/ q = client[c].paper
    BY <1>2 DEF RequestPush, InCall
  <2>3. UNCHANGED state
    BY <1>2 DEF RequestPush, rowVars
  <2> QED
    BY <1>0, <2>1, <2>2, <2>3 DEF Carried, Waiting
<1>3. CASE DemotePush(c)
  <2>1. (q = client[c].paper \/ q \in Queued(urgent) \cup Queued(bulk))
            => q \in (Queued(urgent) \cup Queued(bulk))'
    BY <1>3, PushQueues DEF DemotePush, PushBulk
  <2>2. InCall(q) => InCall(q)' \/ q = client[c].paper
    BY <1>3 DEF DemotePush, InCall
  <2>3. UNCHANGED state
    BY <1>3 DEF DemotePush, rowVars
  <2> QED
    BY <1>0, <2>1, <2>2, <2>3 DEF Carried, Waiting
<1>4. ASSUME NEW p \in Papers, NEW u \in BOOLEAN, Request(c, p, u)
      PROVE  (Carried(q) => Carried(q)') /\ (Waiting(q)' => Waiting(q))
  BY <1>0, <1>4 DEF Request, Carried, Waiting, Queued, InCall, rowVars, listVars
<1>5. ASSUME NEW p \in Papers, Demote(c, p)
      PROVE  (Carried(q) => Carried(q)') /\ (Waiting(q)' => Waiting(q))
  <2>1. UNCHANGED state /\ Queued(bulk)' = Queued(bulk)
    BY <1>5 DEF Demote, rowVars, Queued
  <2>2. q \in Queued(urgent) => q \in Queued(urgent)' \/ q = p
    BY <1>5 DEF Demote, Queued
  <2>3. InCall(p)' /\ (InCall(q) => InCall(q)')
    BY <1>5 DEF Demote, InCall
  <2> QED
    BY <1>0, <2>1, <2>2, <2>3 DEF Carried, Waiting
<1> QED
  BY <1>1, <1>2, <1>3, <1>4, <1>5 DEF ClientStep, ClientCall

-----------------------------------------------------------------------------
\* The fetcher hands over what it holds, from its BLPOP to the new state or the
\* new job.
LEMMA FetcherQueue ==
  ASSUME TypeOK, QueuedIsCarried, NoCallLost, NEW q \in Papers, Waiting(q)',
         \/ Pop \/ ReadRow \/ WritePdf \/ StoreFetched \/ EnqueueParse
         \/ FetchGivesUp \/ FetchFails \/ FetchRequeue \/ FetchRepush,
         UNCHANGED client
  PROVE  Carried(q)'
<1> USE DEF FetcherAt, FetcherGoes, FetcherDone, TypeOK
<1>0. /\ InCall(q) => InCall(q)'
      /\ fetcher.pc \in HandlerPcs \cup {"idle"} => (Waiting(q) => Carried(q))
  BY DEF InCall, QueuedIsCarried, NoCallLost, Waiting
<1>1. CASE Pop
  <2>1. PICK j \in urgent \cup bulk :
            /\ IF urgent # {} THEN urgent' = urgent \ {j} /\ UNCHANGED bulk
                              ELSE bulk' = bulk \ {j} /\ UNCHANGED urgent
            /\ fetcher' = [fetcher EXCEPT !.pc = "popped", !.paper = j.paper]
    BY <1>1 DEF Pop
  <2>2. Waiting(q) /\ Carried(q) /\ ~InHand(q)
    BY <1>0, <1>1 DEF Pop, Waiting, rowVars, InHand, HandlerPcs
  <2>3. CASE q = j.paper
    <3>1. fetcher'.pc = "popped" /\ fetcher'.paper = q
      BY <2>1, <2>3 DEF FetcherOK
    <3> QED
      BY <3>1 DEF Carried, InHand, HandlerPcs
  <2>4. CASE q # j.paper
    <3>1. q \in Queued(urgent) \cup Queued(bulk) => q \in (Queued(urgent) \cup Queued(bulk))'
      BY <2>1, <2>4 DEF Queued
    <3> QED
      BY <1>0, <2>2, <3>1 DEF Carried
  <2> QED
    BY <2>3, <2>4
<1>2. CASE ReadRow
  BY <1>0, <1>2 DEF ReadRow, Waiting, Carried, InHand, HandlerPcs, Queued, rowVars, listVars,
                    FetcherOK
<1>3. CASE WritePdf
  BY <1>0, <1>3 DEF WritePdf, Waiting, Carried, InHand, HandlerPcs, Queued, rowVars, listVars,
                    FetcherOK
<1>4. CASE StoreFetched
  BY <1>0, <1>4 DEF StoreFetched, SetState, Waiting, Carried, InHand, HandlerPcs, Queued,
                    listVars, FetcherOK, RowsOK
<1>5. CASE EnqueueParse
  BY <1>0, <1>5 DEF EnqueueParse, Waiting, Carried, InHand, HandlerPcs, Queued, rowVars,
                    listVars, FetcherOK
<1>6. CASE FetchGivesUp
  BY <1>0, <1>6 DEF FetchGivesUp, SetFailure, Waiting, Carried, InHand, HandlerPcs, Queued,
                    listVars, FetcherOK, RowsOK
<1>7. CASE FetchFails
  BY <1>0, <1>7 DEF FetchFails, SetFailure, Waiting, Carried, InHand, HandlerPcs, Queued,
                    listVars, FetcherOK, RowsOK
<1>8. CASE FetchRequeue
  BY <1>0, <1>8 DEF FetchRequeue, SetState, Waiting, Carried, InHand, HandlerPcs, Queued,
                    listVars, FetcherOK, RowsOK
<1>9. CASE FetchRepush
  <2>1. q \in Queued(urgent) \cup Queued(bulk) \/ q = fetcher.paper
            => q \in (Queued(urgent) \cup Queued(bulk))'
    BY <1>9, PushQueues DEF FetchRepush, PushBulk
  <2> QED
    BY <1>0, <1>9, <2>1 DEF FetchRepush, Waiting, rowVars, Carried, InHand, HandlerPcs
<1> QED
  BY <1>1, <1>2, <1>3, <1>4, <1>5, <1>6, <1>7, <1>8, <1>9

\* While it recovers, nothing it found is popped, and its last step pushes what
\* it did not find.
LEMMA RecoverQueue ==
  ASSUME TypeOK, RecoverInv, UNCHANGED client,
         RecoverUrgent \/ RecoverBulk \/ RecoverSelect \/ RecoverPush
  PROVE  /\ RecoverInv'
         /\ fetcher'.pc \in HandlerPcs \cup {"idle"} =>
               \A q \in Papers : Waiting(q)' => Carried(q)'
<1> USE DEF FetcherAt, TypeOK, FetcherOK
<1>0. \A q \in Papers : (InCall(q) <=> InCall(q)') /\ (Waiting(q) <=> Waiting(q)')
  BY DEF InCall, Waiting, rowVars, RecoverUrgent, RecoverBulk, RecoverSelect, RecoverPush
<1>1. CASE RecoverUrgent
  BY <1>1 DEF RecoverUrgent, RecoverInv, Carried, Queued, listVars, HandlerPcs
<1>2. CASE RecoverBulk
  BY <1>0, <1>2, QueuedPapers
     DEF RecoverBulk, RecoverInv, Carried, Queued, InHand, listVars, HandlerPcs
<1>3. CASE RecoverSelect
  BY <1>0, <1>3 DEF RecoverSelect, RecoverInv, Carried, Queued, InHand, Waiting, listVars,
                    HandlerPcs
<1>4. CASE RecoverPush
  <2>1. fetcher'.pc = "idle" /\ fetcher.pc = "recovering"
    BY <1>4 DEF RecoverPush, FetcherDone, IdleFetcher
  <2>2. ASSUME NEW q \in Papers, Waiting(q) PROVE Carried(q)'
    <3>1. Carried(q) \/ q \in fetcher.found
      BY <2>1, <2>2 DEF RecoverInv
    <3>2. q \in Queued(urgent) \cup Queued(bulk) \/ q \in fetcher.found
              => q \in (Queued(urgent) \cup Queued(bulk))'
      BY <1>4, PushQueues DEF RecoverPush, PushBulk, listVars
    <3> QED
      BY <1>0, <2>1, <3>1, <3>2 DEF Carried, InHand, HandlerPcs
  <2> QED
    BY <1>0, <2>1, <2>2 DEF RecoverInv
<1> QED
  BY <1>1, <1>2, <1>3, <1>4

-----------------------------------------------------------------------------
LEMMA QInvInit == Init => QInv
BY ConstantsAssumption
   DEF Init, QInv, BudgetInv, QueuedIsCarried, RecoverInv, IdleFetcher

LEMMA QInvStep ==
  ASSUME TypeOK, QInv, [Next]_vars
  PROVE  QInv'
<1>0. BudgetInv' /\ (NoCallLost' => NoCallLost)
  BY BudgetStep DEF QInv
<1>1. fetcher.found \subseteq Papers
  BY DEF TypeOK, FetcherOK
<1>2. ASSUME UNCHANGED <<urgent, bulk, fetcher, client>>,
             \A q \in Papers : Waiting(q)' => Waiting(q)
      PROVE  QInv'
  BY <1>0, <1>1, <1>2, QuietStep, CarryingStep
<1>3. CASE UNCHANGED vars
  BY <1>2, <1>3 DEF vars, rowVars, listVars, procVars, Waiting
<1>4. ASSUME NEW c \in Clients, ClientStep(c) \/ ClientCall(c) PROVE QInv'
  <2>1. UNCHANGED fetcher
    BY <1>4 DEF ClientStep, ClientCall, ClientFrame
  <2> QED
    BY <1>0, <1>1, <1>4, <2>1, ClientQueue, CarryingStep
<1>5. ASSUME NEW c \in Clients, ClientCrash(c) PROVE QInv'
  <2>1. ~NoCallLost'
    BY <1>5, FaultOK, ConstantsAssumption
       DEF ClientCrash, TypeOK, QInv, BudgetInv, NoCallLost, Spared, FaultKinds
  <2> QED
    BY <1>0, <2>1 DEF QInv, QueuedIsCarried, NoCallLost
<1>6. CASE FetcherStep
  <2>1. UNCHANGED client
    BY <1>6 DEF FetcherStep, FetcherFrame
  <2>2. ASSUME NoCallLost', RecoverUrgent \/ RecoverBulk \/ RecoverSelect \/ RecoverPush
        PROVE  RecoverInv' /\ QueuedIsCarried'
    BY <1>0, <2>1, <2>2, RecoverQueue DEF QInv, QueuedIsCarried, Waiting
  <2>3. ASSUME NoCallLost', ~(RecoverUrgent \/ RecoverBulk \/ RecoverSelect \/ RecoverPush)
        PROVE  RecoverInv' /\ QueuedIsCarried'
    <3>1. \A q \in Papers : Waiting(q)' => Carried(q)'
      BY <1>0, <1>6, <2>1, <2>3, FetcherQueue DEF FetcherStep, QInv
    <3>2. fetcher'.pc \in HandlerPcs \cup {"idle"}
      <4>1. CASE FetcherDone
        BY <4>1 DEF FetcherDone, IdleFetcher
      <4>2. CASE \E to \in HandlerPcs : FetcherGoes(to)
        BY <4>2 DEF FetcherGoes, TypeOK, FetcherOK
      <4>3. CASE Pop \/ ReadRow
        BY <4>1, <4>3 DEF Pop, ReadRow, HandlerPcs, TypeOK, FetcherOK
      <4> QED
        BY <1>6, <2>3, <4>1, <4>2, <4>3 DEF FetcherStep, WritePdf, StoreFetched, EnqueueParse,
           FetchGivesUp, FetchFails, FetchRequeue, FetchRepush, HandlerPcs
    <3> QED
      BY <3>1, <3>2 DEF RecoverInv, QueuedIsCarried, Waiting, HandlerPcs
  <2> QED
    BY <1>0, <2>2, <2>3 DEF QInv, QueuedIsCarried, NoCallLost
<1>7. CASE HandlerError
  <2>1. ~NoCallLost'
    BY <1>7, FaultOK, ConstantsAssumption
       DEF HandlerError, TypeOK, QInv, BudgetInv, NoCallLost, Spared, FaultKinds
  <2> QED
    BY <1>0, <2>1 DEF QInv, QueuedIsCarried, NoCallLost
<1>8. CASE FetcherCrash
  <2>1. fetcher'.pc = "down"
    BY <1>8 DEF FetcherCrash, IdleFetcher
  <2> QED
    BY <1>0, <2>1 DEF QInv, QueuedIsCarried, RecoverInv, HandlerPcs
<1>9. ASSUME NEW kind \in Kinds, NEW p \in Papers, JobStep(kind, p) \/ JobFault(kind, p)
      PROVE  QInv'
  BY <1>2, <1>9, JobQueue
<1>10. CASE WorkerCrash \/ WorkerRecover
  BY <1>2, <1>10 DEF WorkerCrash, WorkerRecover, WorkerFrame, listVars, rowVars, Waiting
<1>11. CASE JanitorStep \/ \E p \in Papers : JanitorRun(p)
  BY <1>2, <1>11, JanitorQueue
<1> QED
  BY <1>3, <1>4, <1>5, <1>6, <1>7, <1>8, <1>9, <1>10, <1>11 DEF Next

(***************************************************************************)
(* While the fetcher runs, every paper in state queued_fulltext is in a    *)
(* list, in the fetcher's hands or about to be pushed, for any number of   *)
(* papers, clients and restarts, as long as no call died halfway and no    *)
(* handler dropped its job (fetchq.py, fetcher.py).                        *)
(***************************************************************************)
THEOREM NoPaperLost == Spec => []QueuedIsCarried
<1>1. TypeOK /\ QInv /\ [Next]_vars => TypeOK' /\ QInv'
  BY TypingStep, QInvStep
<1>2. QInv => QueuedIsCarried
  BY DEF QInv
<1> QED
  BY TypingInit, QInvInit, <1>1, <1>2, PTL DEF Spec

NoEvictions == Spared({"evict"})

\* The fetcher is alone in moving a waiting paper, and the paper waits for it.
FetchStage(p) ==
    fetcher.paper = p =>
        /\ fetcher.pc \in {"fetching", "written", "requeued"} => state[p] = "queued_fulltext"
        /\ fetcher.pc = "failed" => state[p] \in {"failed", "queued_fulltext"}

\* Each step of a job finds the paper in the state the job's last step left it in.
JobStage(p) ==
    /\ job["parse"][p] \in ParsePcs \ {"parsed"} => state[p] = "pdf_fetched"
    /\ job["chunk"][p] \in {"chunking", "cut", "blank"} => state[p] = "parsed"
    /\ job["chunk"][p] \in {"committed", "finalizing", "pending"} => state[p] = "embedded"
    /\ job["chunk"][p] \in {"resolving", "resolved"} => state[p] = "ready"
    /\ job["refs"][p] # "none" \/ p \in refsPending => state[p] \in {"embedded", "ready"}

\* The chunks a job cut, and those in the table, are of the document in parsed/.
TextStage(p) ==
    /\ job["chunk"][p] = "cut" => document[p]
    /\ job["chunk"][p] = "blank" => ~document[p]
    /\ state[p] \in {"embedded", "ready"} => chunks[p] = document[p]

\* The references of a paper are pending from before it is ready until they are resolved.
RefsStage(p) ==
    /\ "resolved" \in {job["chunk"][p], job["refs"][p]} => refs[p] = "resolved"
    /\ job["chunk"][p] = "pending" \/ state[p] = "ready" => p \in refsPending \/ refs[p] = "resolved"

(***************************************************************************)
(* The inductive invariant behind RefsAccounted, ReadyHasChunks and the    *)
(* refinement.  It needs the steps of all jobs: that a paper only moves    *)
(* forward, and that its document stays once it is parsed, are facts about *)
(* what each writer of papers.state knows of the others.                   *)
(***************************************************************************)
StageInv ==
    /\ budget["evict"] <= Faults["evict"]
    /\ NoEvictions =>
          /\ janitor.pc = "idle"
          /\ \A p \in Papers : FetchStage(p) /\ JobStage(p) /\ TextStage(p) /\ RefsStage(p)

-----------------------------------------------------------------------------
\* What each step of a process does to the state of each paper, to its chunks
\* and references, and to its jobs.

\* A client makes an enqueueable paper wait, and touches no job.
LEMMA ClientEffect ==
  ASSUME TypeOK, NEW c \in Clients, ClientStep(c) \/ ClientCall(c) \/ ClientCrash(c)
  PROVE  /\ UNCHANGED <<document, chunks, refs, job, fetcher, janitor, refsPending>>
         /\ \/ UNCHANGED state
            \/ \E p \in Papers : /\ state[p] \in Enqueueable
                                /\ state' = [state EXCEPT ![p] = "queued_fulltext"]
<1> USE DEF TypeOK, ClientsOK
<1>1. UNCHANGED <<job, fetcher, janitor, refsPending>>
  BY DEF ClientStep, ClientCall, ClientCrash, ClientFrame, jobVars
<1>2. CASE RequestUpdate(c)
  BY <1>1, <1>2 DEF RequestUpdate, SetState, rowVars
<1>3. CASE UNCHANGED rowVars
  BY <1>1, <1>3 DEF rowVars
<1> QED
  BY <1>2, <1>3 DEF ClientStep, ClientCall, ClientCrash, RequestPush, Request, Demote, DemotePush

\* The fetcher only touches the paper in its hands, and its parse job.
LEMMA FetcherEffect ==
  ASSUME TypeOK, FetcherStep \/ HandlerError \/ FetcherCrash
  PROVE  /\ UNCHANGED <<document, chunks, refs, janitor, refsPending>>
         /\ UNCHANGED job
            \/ (fetcher.pc = "stored" /\ job' = Enqueued("parse", {fetcher.paper}))
         /\ \/ UNCHANGED state
            \/ /\ fetcher.paper \in Papers
               /\ <<fetcher.pc, fetcher'.pc>> \in
                      {<<"written", "stored">>, <<"fetching", "idle">>, <<"fetching", "failed">>,
                       <<"failed", "requeued">>}
               /\ state' = [state EXCEPT ![fetcher.paper] =
                      CASE fetcher.pc = "written" -> "pdf_fetched"
                        [] fetcher.pc = "failed" -> "queued_fulltext"
                        [] fetcher.pc = "fetching" /\ fetcher'.pc = "failed" -> "failed"
                        [] OTHER -> "abstract_only"]
<1> USE DEF TypeOK, FetcherOK, FetcherAt, FetcherGoes, FetcherDone, HandlerPcs
<1>1. UNCHANGED <<janitor, refsPending>>
  BY DEF FetcherStep, HandlerError, FetcherCrash, FetcherFrame
<1>2. CASE StoreFetched
  BY <1>1, <1>2 DEF StoreFetched, SetState, jobVars
<1>3. CASE FetchGivesUp
  BY <1>1, <1>3 DEF FetchGivesUp, SetFailure, jobVars, IdleFetcher
<1>4. CASE FetchFails
  BY <1>1, <1>4 DEF FetchFails, SetFailure, jobVars
<1>5. CASE FetchRequeue
  BY <1>1, <1>5 DEF FetchRequeue, SetState, jobVars
<1>6. CASE EnqueueParse
  BY <1>1, <1>6 DEF EnqueueParse, rowVars
<1>7. CASE UNCHANGED <<rowVars, jobVars>>
  BY <1>1, <1>7 DEF rowVars, jobVars
<1> QED
  BY <1>2, <1>3, <1>4, <1>5, <1>6, <1>7
     DEF FetcherStep, HandlerError, FetcherCrash, Pop, ReadRow, WritePdf, FetchRepush,
         RecoverUrgent, RecoverBulk, RecoverSelect, RecoverPush

\* The janitor takes a chosen paper back to signals_done, and touches no job.
LEMMA JanitorEffect ==
  ASSUME TypeOK, JanitorStep \/ \E p \in Papers : JanitorRun(p)
  PROVE  /\ UNCHANGED <<document, chunks, refs, job, fetcher, refsPending>>
         /\ \/ UNCHANGED state
            \/ /\ janitor.pc # "idle"
               /\ \E p \in Papers : state' = [state EXCEPT ![p] = "signals_done"]
         /\ janitor.pc = "idle" => janitor'.pc = "idle" \/ Fault("evict")
<1> USE DEF TypeOK, JanitorOK
<1>1. UNCHANGED <<job, fetcher, refsPending>>
  BY DEF JanitorStep, JanitorRun, JanitorFrame, jobVars
<1> QED
  BY <1>1 DEF JanitorStep, JanitorRun, JanitorUnlink, JanitorMark, JanitorChoose, JanitorOrphan,
     SetState, rowVars

\* A crash or a recovery of the worker puts jobs back to be run: recovery queues
\* those of the papers in the middle of the pipeline.
LEMMA WorkerEffect ==
  ASSUME TypeOK, WorkerCrash \/ WorkerRecover
  PROVE  /\ UNCHANGED <<state, document, chunks, refs, fetcher, refsPending>>
         /\ janitor'.pc = "idle" \/ UNCHANGED janitor
         /\ \A k \in Kinds, q \in Papers :
               \/ job'[k][q] = job[k][q]
               \/ job'[k][q] = "queued" /\ (job[k][q] # "none" \/ q \in Unfinished(k))
<1> USE DEF TypeOK, listVars, rowVars
<1>1. CASE WorkerCrash
  BY <1>1 DEF WorkerCrash, WorkerFrame, IdleJanitor, JobsOK
<1>2. CASE WorkerRecover
  BY <1>2, EnqueuedAt DEF WorkerRecover, WorkerFrame
<1> QED
  BY <1>1, <1>2

-----------------------------------------------------------------------------
\* A step of a job changes its own paper only, and keeps the processes at work on
\* that paper in agreement with its row.

Stage(p) == FetchStage(p) /\ JobStage(p) /\ TextStage(p) /\ RefsStage(p)

OnlyOf(p) ==
    /\ UNCHANGED <<fetcher, janitor>>
    /\ \A q \in Papers \ {p} :
          /\ state'[q] = state[q] /\ document'[q] = document[q]
          /\ chunks'[q] = chunks[q] /\ refs'[q] = refs[q]
          /\ q \in refsPending' <=> q \in refsPending
          /\ \A kind \in Kinds : job'[kind][q] = job[kind][q]

\* The row of the paper moves as PaperLifecycle says, or it does not move.
RowStep(p) ==
    \/ UNCHANGED <<state, document, chunks, refs>>
    \/ Lifecycle!Move(p) \/ Lifecycle!Parse(p) \/ Lifecycle!Embed(p) \/ Lifecycle!Resolve(p)

LEMMA MoveForward ==
  ASSUME NEW p \in Papers, NEW to \in Lifecycle!Forward(state[p]),
         state' = [state EXCEPT ![p] = to], UNCHANGED <<document, chunks, refs>>
  PROVE  RowStep(p)
BY DEF RowStep, Lifecycle!Move

\* Writing the value a function already has changes nothing.
LEMMA SameValue ==
  ASSUME NEW S, NEW T, NEW f \in [S -> T], NEW x \in S
  PROVE  [f EXCEPT ![x] = f[x]] = f
OBVIOUS

LEMMA ParseStage ==
  ASSUME TypeOK, NEW p \in Papers, Stage(p), UNCHANGED <<fetcher, janitor>>,
         \/ ParseStart(p) \/ ParseMissing(p) \/ ParseWrites(p) \/ ParseSucceeds(p) \/ EnqueueChunk(p)
         \/ ParseFails(p) \/ ParseGivesUp(p) \/ ParseAbstractOnly(p)
  PROVE  OnlyOf(p) /\ Stage(p)' /\ RowStep(p)
<1> USE DEF OnlyOf, Stage, FetchStage, JobStage, TextStage, RefsStage, ParsePcs, JobAt
<1>0. /\ Kinds = {"parse", "chunk", "refs"} /\ RowsOK /\ JobsOK
      /\ seenFails[p] + 1 \in Nat
  BY DEF Kinds, JobsOK, TypeOK
<1>1. CASE ParseStart(p)
  <2>1. \E to \in {"none", "parsing", "missing"} :
          /\ \A k \in Kinds, q \in Papers :
                job'[k][q] = IF k = "parse" /\ q = p THEN to ELSE job[k][q]
          /\ to # "none" => state[p] = "pdf_fetched"
    BY <1>0, <1>1, JobAtAfter DEF ParseStart
  <2> QED
    BY <1>0, <1>1, <2>1 DEF ParseStart, RowStep, rowVars
<1>2. ASSUME ParseMissing(p) \/ ParseSucceeds(p) \/ ParseAbstractOnly(p)
      PROVE  OnlyOf(p) /\ Stage(p)' /\ RowStep(p)
  <2>1. \E to \in {"none", "parsed"} : \A k \in Kinds, q \in Papers :
          job'[k][q] = IF k = "parse" /\ q = p THEN to ELSE job[k][q]
    BY <1>0, <1>2, JobAtAfter DEF ParseMissing, ParseSucceeds, ParseAbstractOnly
  <2>2. /\ state[p] = "pdf_fetched" /\ UNCHANGED <<document, chunks, refs, refsPending>>
        /\ \E to \in {"failed", "parsed", "abstract_only"} :
              /\ state' = [state EXCEPT ![p] = to]
              /\ \A q \in Papers : state'[q] = IF q = p THEN to ELSE state[q]
    BY <1>0, <1>2, StateAfter DEF ParseMissing, ParseSucceeds, ParseAbstractOnly
  <2>3. RowStep(p)
    BY <2>2, MoveForward DEF Lifecycle!Forward
  <2> QED
    BY <1>0, <2>1, <2>2, <2>3
<1>6. CASE ParseWrites(p)
  <2>1. /\ job["parse"][p] = "parsing"
        /\ \A k \in Kinds, q \in Papers :
              job'[k][q] = IF k = "parse" /\ q = p THEN "written" ELSE job[k][q]
    BY <1>0, <1>6, JobAtAfter DEF ParseWrites
  <2>2. /\ UNCHANGED <<state, chunks, refs, refsPending>>
        /\ \A q \in Papers \ {p} : document'[q] = document[q]
    BY <1>0, <1>6 DEF ParseWrites, RowsOK
  <2>3. state[p] = "pdf_fetched" /\ job["chunk"][p] \notin {"cut", "blank"}
    BY <2>1
  <2>4. Lifecycle!Parse(p)
    BY <1>6, <2>3 DEF ParseWrites, Lifecycle!Parse
  <2> QED
    BY <1>0, <2>1, <2>2, <2>3, <2>4 DEF RowStep
<1>3. CASE EnqueueChunk(p)
  <2>1. /\ \A k \in Kinds, q \in Papers \ {p} : job'[k][q] = job[k][q]
        /\ job'["parse"][p] = "none" /\ job'["refs"][p] = job["refs"][p]
        /\ job'["chunk"][p] \in {"queued", job["chunk"][p]}
    BY <1>0, <1>3, EnqueuedAt, EnqueuedOK DEF EnqueueChunk
  <2> QED
    BY <1>0, <1>3, <2>1 DEF EnqueueChunk, RowStep, rowVars
<1>4. CASE ParseFails(p)
  <2>1. \A k \in Kinds, q \in Papers :
          job'[k][q] = IF k = "parse" /\ q = p THEN "queued" ELSE job[k][q]
    BY <1>0, <1>4, JobAtAfter DEF ParseFails
  <2>2. /\ state[p] = "pdf_fetched" /\ state' = [state EXCEPT ![p] = "pdf_fetched"]
        /\ UNCHANGED <<document, chunks, refs, refsPending>>
    BY <1>0, <1>4 DEF ParseFails, SetFailure
  <2>3. state' = state
    <3>1. [state EXCEPT ![p] = state[p]] = state
      BY <1>0, SameValue DEF RowsOK
    <3> QED
      BY <2>2, <3>1
  <2> QED
    BY <1>0, <2>1, <2>2, <2>3 DEF RowStep
<1>5. CASE ParseGivesUp(p)
  <2>1. /\ job["parse"][p] = "parsing"
        /\ \A k \in Kinds, q \in Papers :
              job'[k][q] = IF k = "parse" /\ q = p THEN "giveup" ELSE job[k][q]
    BY <1>0, <1>5, JobAtAfter DEF ParseGivesUp
  <2> QED
    BY <1>0, <1>5, <2>1 DEF ParseGivesUp, RowStep, rowVars
<1> QED
  BY <1>1, <1>2, <1>3, <1>4, <1>5, <1>6

LEMMA ChunkStage ==
  ASSUME TypeOK, NEW p \in Papers, Stage(p), UNCHANGED <<fetcher, janitor>>,
         \/ ChunkStart(p) \/ ChunkRead(p) \/ ChunkCommit(p) \/ ChunkUnlink(p) \/ FinalizePending(p)
         \/ FinalizeReady(p)
  PROVE  OnlyOf(p) /\ Stage(p)' /\ RowStep(p)
<1> USE DEF OnlyOf, Stage, FetchStage, JobStage, TextStage, RefsStage, ParsePcs, JobAt
<1>0. Kinds = {"parse", "chunk", "refs"} /\ RowsOK /\ JobsOK
  BY DEF Kinds, TypeOK
<1>1. CASE ChunkStart(p)
  <2>1. \E to \in {"none", "chunking", "finalizing"} :
          /\ \A k \in Kinds, q \in Papers :
                job'[k][q] = IF k = "chunk" /\ q = p THEN to ELSE job[k][q]
          /\ to = "chunking" => state[p] = "parsed"
          /\ to = "finalizing" => state[p] = "embedded"
    BY <1>0, <1>1, JobAtAfter DEF ChunkStart
  <2> QED
    BY <1>0, <1>1, <2>1 DEF ChunkStart, RowStep, rowVars
<1>6. CASE ChunkRead(p)
  <2>1. \A k \in Kinds, q \in Papers :
          job'[k][q] = IF k = "chunk" /\ q = p THEN IF document[p] THEN "cut" ELSE "blank" ELSE job[k][q]
    BY <1>0, <1>6, JobAtAfter DEF ChunkRead
  <2> QED
    BY <1>0, <1>6, <2>1 DEF ChunkRead, RowStep, rowVars
<1>2. CASE ChunkCommit(p)
  <2>0. state[p] = "parsed" /\ (job["chunk"][p] = "cut") = document[p]
    BY <1>0, <1>2 DEF ChunkCommit, Cut, RowsOK
  <2>1. \A k \in Kinds, q \in Papers :
          job'[k][q] = IF k = "chunk" /\ q = p THEN "committed" ELSE job[k][q]
    BY <1>0, <1>2, JobAtAfter DEF ChunkCommit
  <2>2. Lifecycle!Embed(p)
    BY <1>2, <2>0 DEF ChunkCommit, Lifecycle!Embed
  <2>3. UNCHANGED <<document, refsPending>>
        /\ \A q \in Papers : /\ state'[q] = IF q = p THEN "embedded" ELSE state[q]
                             /\ refs'[q] = IF q = p THEN "stored" ELSE refs[q]
                             /\ chunks'[q] = IF q = p THEN document[p] ELSE chunks[q]
    BY <1>0, <1>2, <2>0 DEF ChunkCommit, RowsOK
  <2> QED
    <3>1. state[p] = "parsed" /\ state'[p] = "embedded"
      BY <2>2, <2>3 DEF Lifecycle!Embed
    <3>2. OnlyOf(p)
      BY <1>0, <2>1, <2>3
    <3>3. Stage(p)'
      BY <1>0, <2>1, <2>3, <3>1
    <3> QED
      BY <2>2, <3>2, <3>3 DEF RowStep
<1>3. CASE ChunkUnlink(p)
  <2>1. \A k \in Kinds, q \in Papers :
          job'[k][q] = IF k = "chunk" /\ q = p THEN "finalizing" ELSE job[k][q]
    BY <1>0, <1>3, JobAtAfter DEF ChunkUnlink
  <2> QED
    BY <1>0, <1>3, <2>1 DEF ChunkUnlink, RowStep, rowVars
<1>4. CASE FinalizePending(p)
  <2>1. \A k \in Kinds, q \in Papers :
          job'[k][q] = IF k = "chunk" /\ q = p THEN "pending" ELSE job[k][q]
    BY <1>0, <1>4, JobAtAfter DEF FinalizePending
  <2> QED
    BY <1>0, <1>4, <2>1 DEF FinalizePending, RowStep, rowVars
<1>5. CASE FinalizeReady(p)
  <2>1. \A k \in Kinds, q \in Papers :
          job'[k][q] = IF k = "chunk" /\ q = p THEN "resolving" ELSE job[k][q]
    BY <1>0, <1>5, JobAtAfter DEF FinalizeReady
  <2>2. /\ state[p] = "embedded" /\ UNCHANGED <<document, chunks, refs, refsPending>>
        /\ state' = [state EXCEPT ![p] = "ready"]
        /\ \A q \in Papers : state'[q] = IF q = p THEN "ready" ELSE state[q]
    BY <1>0, <1>5, StateAfter DEF FinalizeReady
  <2>3. RowStep(p)
    BY <2>2, MoveForward DEF Lifecycle!Forward
  <2> QED
    BY <1>0, <1>5, <2>1, <2>2, <2>3 DEF FinalizeReady
<1> QED
  BY <1>1, <1>2, <1>3, <1>4, <1>5, <1>6

LEMMA RefsAndFaultStage ==
  ASSUME TypeOK, NEW kind \in Kinds, NEW p \in Papers, Stage(p), UNCHANGED <<fetcher, janitor>>,
         \/ kind = "refs" /\ RefsStart(p)
         \/ Resolve(kind, p) \/ ResolveDone(kind, p) \/ Exhausted(kind, p)
         \/ Conflict(kind, p) \/ JobError(kind, p)
  PROVE  OnlyOf(p) /\ Stage(p)' /\ RowStep(p)
<1> USE DEF OnlyOf, Stage, FetchStage, JobStage, TextStage, RefsStage, ParsePcs, JobAt
<1>0. /\ Kinds = {"parse", "chunk", "refs"} /\ RowsOK /\ JobsOK
      /\ job["parse"][p] \notin {"resolving", "resolved"}
  BY DEF Kinds, JobsOK, JobPcs, ParsePcs, ChunkPcs, RefsPcs, TypeOK
<1>1. CASE kind = "refs" /\ RefsStart(p)
  <2>1. job["refs"][p] = "queued" /\ \A k \in Kinds, q \in Papers :
          job'[k][q] = IF k = "refs" /\ q = p THEN "resolving" ELSE job[k][q]
    BY <1>0, <1>1, JobAtAfter DEF RefsStart, CanStart
  <2> QED
    BY <1>0, <1>1, <2>1 DEF RefsStart, RowStep, rowVars
<1>2. CASE Resolve(kind, p)
  <2>1. \A k \in Kinds, q \in Papers :
          job'[k][q] = IF k = kind /\ q = p THEN "resolved" ELSE job[k][q]
    BY <1>0, <1>2, JobAtAfter DEF Resolve
  <2>2. kind # "parse" /\ job[kind][p] = "resolving" /\ state[p] \in {"embedded", "ready"}
    BY <1>0, <1>2 DEF Resolve
  <2>3. Lifecycle!Resolve(p)
    BY <1>2, <2>2 DEF Resolve, Lifecycle!Resolve
  <2>4. \A q \in Papers : refs'[q] = IF q = p THEN "resolved" ELSE refs[q]
    BY <1>0, <1>2 DEF Resolve, RowsOK
  <2> QED
    BY <1>0, <1>2, <2>1, <2>2, <2>3, <2>4 DEF Resolve, RowStep
<1>3. CASE ResolveDone(kind, p)
  <2>1. job[kind][p] = "resolved" /\ \A k \in Kinds, q \in Papers :
          job'[k][q] = IF k = kind /\ q = p THEN "none" ELSE job[k][q]
    BY <1>0, <1>3, JobAtAfter DEF ResolveDone
  <2>2. kind # "parse" /\ refs[p] = "resolved" /\ state[p] \in {"embedded", "ready"}
    BY <1>0, <2>1
  <2> QED
    BY <1>0, <1>3, <2>1, <2>2 DEF ResolveDone, RowStep, rowVars
<1>4. CASE Exhausted(kind, p) \/ Conflict(kind, p) \/ JobError(kind, p)
  <2>1. job[kind][p] # "none" /\ \E to \in {"none", "queued"} : \A k \in Kinds, q \in Papers :
          job'[k][q] = IF k = kind /\ q = p THEN to ELSE job[k][q]
    BY <1>0, <1>4, JobAtAfter DEF Exhausted, Conflict, JobError
  <2> QED
    BY <1>0, <1>4, <2>1 DEF Exhausted, Conflict, JobError, RowStep, rowVars
<1> QED
  BY <1>1, <1>2, <1>3, <1>4

\* The papers a step does not touch stay in agreement.
LEMMA StageFrame ==
  ASSUME NEW p \in Papers, OnlyOf(p), \A q \in Papers : Stage(q), Stage(p)'
  PROVE  \A q \in Papers : Stage(q)'
<1> SUFFICES ASSUME NEW q \in Papers \ {p} PROVE Stage(q)'
  OBVIOUS
<1> QED
  BY DEF OnlyOf, Stage, FetchStage, JobStage, TextStage, RefsStage, ParsePcs, Kinds

\* The same for the steps of the fetcher: those that write the row of the paper in
\* its hands, and those that only move the fetcher on.
LEMMA FetcherWrites ==
  ASSUME TypeOK, \A p \in Papers : Stage(p),
         StoreFetched \/ FetchGivesUp \/ FetchFails \/ FetchRequeue
  PROVE  /\ \A p \in Papers : FetchStage(p)'
         /\ \A p \in Papers : state'[p] # state[p]
               => state[p] \in {"queued_fulltext", "failed"} /\ state'[p] # "ready"
         /\ UNCHANGED <<state, document, chunks, refs>> \/ \E p \in Papers : RowStep(p)
<1> DEFINE r == fetcher.paper
           W(to) == /\ state' = [state EXCEPT ![r] = to] /\ UNCHANGED <<document, chunks, refs>>
                    /\ \A q \in Papers : state'[q] = IF q = r THEN to ELSE state[q]
<1>1. r \in Papers /\ RowsOK /\ FetcherOK /\ fetcher.fails + 1 \in Nat
  BY DEF TypeOK, StoreFetched, FetchGivesUp, FetchFails, FetchRequeue, FetcherAt, FetcherOK,
         HandlerPcs
<1>2. FetchStage(r)
  BY <1>1 DEF Stage
<1> SUFFICES /\ \A p \in Papers : FetchStage(p)'
             /\ \E to \in {"pdf_fetched", "abstract_only", "failed", "queued_fulltext"} :
                   /\ W(to) /\ state[r] \in {"queued_fulltext", "failed"}
                   /\ to = state[r] \/ to \in Lifecycle!Forward(state[r])
  <2>1. PICK to \in {"pdf_fetched", "abstract_only", "failed", "queued_fulltext"} :
           /\ W(to) /\ state[r] \in {"queued_fulltext", "failed"}
           /\ to = state[r] \/ to \in Lifecycle!Forward(state[r])
    OBVIOUS
  <2>2. \A p \in Papers : state'[p] # state[p]
            => state[p] \in {"queued_fulltext", "failed"} /\ state'[p] # "ready"
    BY <2>1
  <2>3. CASE to = state[r]
    <3>1. [state EXCEPT ![r] = state[r]] = state
      BY <1>1, SameValue DEF RowsOK
    <3> QED
      BY <2>1, <2>2, <2>3, <3>1
  <2>4. CASE to \in Lifecycle!Forward(state[r])
    <3>1. RowStep(r)
      BY <1>1, <2>1, <2>4, MoveForward
    <3> QED
      BY <1>1, <2>1, <2>2, <3>1
  <2> QED
    BY <2>1, <2>3, <2>4
<1>3. CASE StoreFetched
  <2>1. W("pdf_fetched") /\ state[r] = "queued_fulltext"
    BY <1>1, <1>2, <1>3, StateAfter DEF StoreFetched, FetcherAt, FetchStage, States
  <2>2. fetcher'.pc = "stored"
    BY <1>1, <1>3 DEF StoreFetched, FetcherGoes, FetcherOK
  <2> QED
    BY <2>1, <2>2 DEF FetchStage, Lifecycle!Forward
<1>4. CASE FetchGivesUp
  <2>1. W("abstract_only") /\ state[r] = "queued_fulltext"
    BY <1>1, <1>2, <1>4, StateAfter DEF FetchGivesUp, FetcherAt, FetchStage, States
  <2>2. fetcher'.pc = "idle"
    BY <1>4 DEF FetchGivesUp, FetcherDone, IdleFetcher
  <2> QED
    BY <2>1, <2>2 DEF FetchStage, Lifecycle!Forward
<1>5. CASE FetchFails
  <2>1. W("failed") /\ state[r] = "queued_fulltext"
    BY <1>1, <1>2, <1>5, StateAfter DEF FetchFails, FetcherAt, FetchStage, States, Enqueueable
  <2>2. fetcher'.pc = "failed" /\ fetcher'.paper = r
    BY <1>1, <1>5 DEF FetchFails, FetcherGoes, FetcherOK
  <2> QED
    BY <2>1, <2>2 DEF FetchStage, Lifecycle!Forward
<1>6. CASE FetchRequeue
  <2>1. W("queued_fulltext") /\ state[r] \in {"failed", "queued_fulltext"}
    BY <1>1, <1>2, <1>6, StateAfter DEF FetchRequeue, FetcherAt, FetchStage, States
  <2>2. fetcher'.pc = "requeued" /\ fetcher'.paper = r
    BY <1>1, <1>6 DEF FetchRequeue, FetcherGoes, FetcherOK
  <2> QED
    BY <2>1, <2>2 DEF FetchStage, Lifecycle!Forward
<1> QED
  BY <1>3, <1>4, <1>5, <1>6

LEMMA FetcherMovesOn ==
  ASSUME TypeOK, \A p \in Papers : Stage(p),
         \/ Pop \/ ReadRow \/ WritePdf \/ EnqueueParse \/ FetchRepush
         \/ RecoverUrgent \/ RecoverBulk \/ RecoverSelect \/ RecoverPush
         \/ HandlerError \/ FetcherCrash
  PROVE  /\ \A p \in Papers : FetchStage(p)'
         /\ UNCHANGED <<state, document, chunks, refs>>
<1> USE DEF FetcherAt, FetcherGoes, FetcherDone, IdleFetcher
<1>1. UNCHANGED <<state, document, chunks, refs>>
  BY DEF Pop, ReadRow, WritePdf, EnqueueParse, FetchRepush, RecoverUrgent, RecoverBulk,
         RecoverSelect, RecoverPush, HandlerError, FetcherCrash, rowVars
<1>0. FetcherOK
  BY DEF TypeOK
<1>2. \/ fetcher'.pc \in FetcherPcs \ {"fetching", "written", "requeued", "failed"}
      \/ ReadRow /\ fetcher'.paper = fetcher.paper /\ fetcher'.pc = "fetching"
            /\ state[fetcher.paper] = "queued_fulltext"
      \/ WritePdf /\ fetcher'.paper = fetcher.paper /\ fetcher'.pc = "written"
            /\ fetcher.pc = "fetching"
  <2>1. CASE FetcherDone
    BY <2>1 DEF FetcherPcs, HandlerPcs
  <2>2. CASE ReadRow \/ WritePdf
    BY <1>0, <2>1, <2>2 DEF ReadRow, WritePdf, FetcherOK
  <2>3. CASE Pop \/ RecoverUrgent \/ RecoverBulk \/ RecoverSelect \/ FetcherCrash
    BY <1>0, <2>3 DEF Pop, RecoverUrgent, RecoverBulk, RecoverSelect, FetcherCrash, FetcherOK,
                FetcherPcs, HandlerPcs
  <2> QED
    BY <2>1, <2>2, <2>3 DEF EnqueueParse, FetchRepush, RecoverPush, HandlerError
<1> QED
  BY <1>1, <1>2 DEF Stage, FetchStage

LEMMA FetcherStage ==
  ASSUME TypeOK, \A p \in Papers : Stage(p), FetcherStep \/ HandlerError \/ FetcherCrash
  PROVE  /\ \A p \in Papers : Stage(p)'
         /\ UNCHANGED <<state, document, chunks, refs>> \/ \E p \in Papers : RowStep(p)
<1>1. /\ \A p \in Papers : FetchStage(p)'
      /\ \A p \in Papers : state'[p] # state[p]
            => state[p] \in {"queued_fulltext", "failed"} /\ state'[p] # "ready"
      /\ UNCHANGED <<state, document, chunks, refs>> \/ \E p \in Papers : RowStep(p)
  BY FetcherWrites, FetcherMovesOn DEF FetcherStep
<1>2. /\ UNCHANGED <<document, chunks, refs, janitor, refsPending>>
      /\ \A p \in Papers : /\ job'["chunk"][p] = job["chunk"][p]
                           /\ job'["refs"][p] = job["refs"][p]
                           /\ job'["parse"][p] \in {"queued", job["parse"][p]}
  BY FetcherEffect, EnqueuedAt DEF TypeOK, Kinds
<1> QED
  <2> SUFFICES ASSUME NEW p \in Papers PROVE Stage(p)'
    BY <1>1
  <2>1. FetchStage(p)' /\ Stage(p)
    BY <1>1
  <2>2. state'[p] # state[p] => state[p] \in {"queued_fulltext", "failed"} /\ state'[p] # "ready"
                               /\ state'[p] # "embedded"
    BY <1>1, FetcherEffect DEF TypeOK, RowsOK
  <2>3. JobStage(p)'
    BY <1>2, <2>1, <2>2 DEF Stage, JobStage, ParsePcs
  <2>4. TextStage(p)' /\ RefsStage(p)'
    BY <1>2, <2>1, <2>2 DEF Stage, TextStage, RefsStage
  <2> QED
    BY <2>1, <2>3, <2>4 DEF Stage

LEMMA ClientStage ==
  ASSUME TypeOK, \A p \in Papers : Stage(p),
         NEW c \in Clients, ClientStep(c) \/ ClientCall(c) \/ ClientCrash(c)
  PROVE  /\ \A p \in Papers : Stage(p)'
         /\ UNCHANGED <<state, document, chunks, refs>> \/ \E p \in Papers : RowStep(p)
<1>1. UNCHANGED <<document, chunks, refs, job, fetcher, janitor, refsPending>>
  BY ClientEffect
<1>2. CASE UNCHANGED state
  BY <1>1, <1>2 DEF Stage, FetchStage, JobStage, TextStage, RefsStage, ParsePcs
<1>3. ASSUME NEW r \in Papers, state[r] \in Enqueueable,
             state' = [state EXCEPT ![r] = "queued_fulltext"]
      PROVE  (\A p \in Papers : Stage(p)') /\ RowStep(r)
  <2>1. RowStep(r)
    BY <1>1, <1>3, MoveForward DEF Lifecycle!Forward, Enqueueable
  <2>2. \A q \in Papers : state'[q] = IF q = r THEN "queued_fulltext" ELSE state[q]
    BY <1>3 DEF TypeOK, RowsOK
  <2> QED
    BY <1>1, <1>3, <2>1, <2>2 DEF Stage, FetchStage, JobStage, TextStage, RefsStage, ParsePcs, Enqueueable
<1> QED
  BY <1>2, <1>3, ClientEffect

LEMMA WorkerStage ==
  ASSUME TypeOK, \A p \in Papers : Stage(p), WorkerCrash \/ WorkerRecover
  PROVE  (\A p \in Papers : Stage(p)') /\ UNCHANGED <<state, document, chunks, refs>>
<1>1. /\ UNCHANGED <<state, document, chunks, refs, fetcher, refsPending>>
      /\ \A k \in Kinds, q \in Papers :
            \/ job'[k][q] = job[k][q]
            \/ job'[k][q] = "queued" /\ (job[k][q] # "none" \/ q \in Unfinished(k))
  BY WorkerEffect
<1>2. "parse" \in Kinds /\ "chunk" \in Kinds /\ "refs" \in Kinds
      /\ Unfinished("refs") = refsPending
  BY DEF Kinds, Unfinished
<1> QED
  BY <1>1, <1>2 DEF Stage, FetchStage, JobStage, TextStage, RefsStage, ParsePcs

-----------------------------------------------------------------------------
\* The agreement as an invariant of the specification.

\* Evictions that did not happen before a step and do not happen in it.
LEMMA EvictBudget ==
  ASSUME TypeOK, budget["evict"] <= Faults["evict"], [Next]_vars
  PROVE  /\ budget'["evict"] <= Faults["evict"]
         /\ NoEvictions' => NoEvictions /\ ~Fault("evict")
<1>1. CASE UNCHANGED budget
  BY <1>1, ConstantsAssumption DEF TypeOK, NoEvictions, Spared, Fault, FaultKinds
<1>2. CASE \E f \in FaultKinds : Fault(f)
  BY <1>2, FaultOK, ConstantsAssumption DEF TypeOK, NoEvictions, Spared, Fault, FaultKinds
<1> QED
  BY <1>1, <1>2
     DEF Next, vars, ClientStep, ClientCall, ClientCrash, FetcherStep, HandlerError,
         FetcherCrash, JobStep, JobFault, Conflict, JobError, WorkerCrash, WorkerRecover,
         JanitorStep, JanitorUnlink, JanitorMark, JanitorRun, JanitorChoose, JanitorOrphan,
         FaultKinds

LEMMA StageStep ==
  ASSUME TypeOK, StageInv, [Next]_vars, NoEvictions'
  PROVE  /\ janitor'.pc = "idle"
         /\ \A p \in Papers : Stage(p)'
         /\ UNCHANGED <<state, document, chunks, refs>> \/ \E p \in Papers : RowStep(p)
<1>1. /\ NoEvictions /\ ~Fault("evict") /\ janitor.pc = "idle"
      /\ \A p \in Papers : Stage(p)
  BY EvictBudget DEF StageInv, Stage
<1>2. ASSUME UNCHANGED <<state, document, chunks, refs, fetcher, janitor, job, refsPending>>
      PROVE  \A p \in Papers : Stage(p)'
  BY <1>1, <1>2 DEF Stage, FetchStage, JobStage, TextStage, RefsStage, ParsePcs
<1>3. CASE UNCHANGED vars
  BY <1>1, <1>2, <1>3 DEF vars, rowVars, jobVars, procVars
<1>4. ASSUME NEW c \in Clients, ClientStep(c) \/ ClientCall(c) \/ ClientCrash(c)
      PROVE  /\ janitor' = janitor /\ \A p \in Papers : Stage(p)'
             /\ UNCHANGED <<state, document, chunks, refs>> \/ \E p \in Papers : RowStep(p)
  BY <1>1, <1>4, ClientEffect, ClientStage
<1>5. CASE FetcherStep \/ HandlerError \/ FetcherCrash
  BY <1>1, <1>5, FetcherEffect, FetcherStage
<1>6. ASSUME NEW kind \in Kinds, NEW p \in Papers, JobStep(kind, p) \/ JobFault(kind, p)
      PROVE  janitor' = janitor /\ RowStep(p) /\ \A q \in Papers : Stage(q)'
  <2>1. UNCHANGED <<fetcher, janitor>>
    BY <1>6 DEF JobStep, JobFault, WorkerFrame
  <2>2. OnlyOf(p) /\ Stage(p)' /\ RowStep(p)
    BY <1>1, <1>6, <2>1, ParseStage, ChunkStage, RefsAndFaultStage DEF JobStep, JobFault
  <2> QED
    BY <1>1, <2>1, <2>2, StageFrame
<1>7. CASE WorkerCrash \/ WorkerRecover
  BY <1>1, <1>7, WorkerEffect, WorkerStage
<1>8. CASE JanitorStep \/ \E p \in Papers : JanitorRun(p)
  <2>1. UNCHANGED <<state, document, chunks, refs, job, fetcher, refsPending>> /\ janitor'.pc = "idle"
    BY <1>1, <1>8, JanitorEffect
  <2> QED
    BY <1>1, <2>1 DEF Stage, FetchStage, JobStage, TextStage, RefsStage, ParsePcs
<1> QED
  BY <1>1, <1>3, <1>4, <1>5, <1>6, <1>7, <1>8 DEF Next

LEMMA StageInvInit == Init => StageInv
BY ConstantsAssumption
   DEF Init, StageInv, FetchStage, JobStage, TextStage, RefsStage, ParsePcs, IdleFetcher, IdleJanitor,
      FaultKinds, Kinds

LEMMA StageInvStep ==
  ASSUME TypeOK, StageInv, [Next]_vars
  PROVE  StageInv'
BY EvictBudget, StageStep DEF StageInv, Stage

(***************************************************************************)
(* The references of a ready paper are resolved or remembered, whatever    *)
(* dies when, as long as no PDF was evicted (pipeline.finalize and         *)
(* resolve_references).                                                    *)
(***************************************************************************)
THEOREM ReferencesAccounted == Spec => []RefsAccounted
<1>1. TypeOK /\ StageInv /\ [Next]_vars => TypeOK' /\ StageInv'
  BY TypingStep, StageInvStep
<1>2. StageInv => RefsAccounted
  BY DEF StageInv, RefsStage, RefsAccounted, NoEvictions
<1> QED
  BY TypingInit, StageInvInit, <1>1, <1>2, PTL DEF Spec

(***************************************************************************)
(* An embedded or ready paper has chunks exactly if the document in parsed/*)
(* has a sentence, whatever dies between file and row, fails or runs again,*)
(* as long as no PDF was evicted (parse_stage, chunk_embed_stage).         *)
(***************************************************************************)
THEOREM ReadyIsSearchable == Spec => []ReadyHasChunks
<1>1. TypeOK /\ StageInv /\ [Next]_vars => TypeOK' /\ StageInv'
  BY TypingStep, StageInvStep
<1>2. StageInv => ReadyHasChunks
  BY DEF StageInv, TextStage, ReadyHasChunks, NoEvictions
<1> QED
  BY TypingInit, StageInvInit, <1>1, <1>2, PTL DEF Spec

(***************************************************************************)
(* As long as no PDF has been evicted, whatever else fails or restarts,    *)
(* papers only move forward, ready and abstract_only are final, and chunks *)
(* and references appear with the state that announces them: FullText      *)
(* implements PaperLifecycle.                                              *)
(***************************************************************************)
THEOREM ImplementsLifecycle == Spec => LifecycleSpec
<1>1. Init => Lifecycle!Init
  BY DEF Init, Lifecycle!Init
<1>2. TypeOK /\ StageInv /\ [Next]_vars => TypeOK' /\ StageInv'
  BY TypingStep, StageInvStep
<1>3. TypeOK /\ StageInv /\ [Next]_vars => [Spared({"evict"})' => [Lifecycle!Next]_Lifecycle!vars]_vars
  <2> SUFFICES ASSUME TypeOK, StageInv, [Next]_vars, Spared({"evict"})'
               PROVE  [Lifecycle!Next]_Lifecycle!vars
    OBVIOUS
  <2>1. UNCHANGED <<state, document, chunks, refs>> \/ \E p \in Papers : RowStep(p)
    BY StageStep DEF NoEvictions
  <2> QED
    BY <2>1 DEF RowStep, Lifecycle!Next, Lifecycle!vars
<1> QED
  BY TypingInit, StageInvInit, <1>1, <1>2, <1>3, PTL DEF Spec, LifecycleSpec

-----------------------------------------------------------------------------
\* Faults that have happened.
Crashes   == Faults["workerCrash"] - budget["workerCrash"]
Conflicts == Faults["conflict"] - budget["conflict"]

\* A job in one of its steps has used a try that is not accounted for yet.
Running(kind, p) == IF job[kind][p] \in {"none", "queued"} THEN 0 ELSE 1

TriesUsed(p) ==
    /\ tries["chunk"][p] <= Crashes + Conflicts + Running("chunk", p)
    /\ tries["refs"][p] <= Crashes + Running("refs", p)

InPipeline == {"pdf_fetched", "parsed", "embedded", "ready"}

\* A parse job starts again after a crash, or after a failure that fail_count counts.
ParseTries(p) ==
    /\ job["parse"][p] = "none" => tries["parse"][p] = 0
    /\ state[p] \notin InPipeline => tries["parse"][p] = 0
    /\ job["parse"][p] \in ParsePcs \ {"parsed"} =>
          /\ failCount[p] = seenFails[p]
          /\ tries["parse"][p] <= Crashes + 1 + seenFails[p]
          /\ tries["parse"][p] <= Crashes + MaxParseFailures
    /\ job["parse"][p] = "queued" /\ state[p] = "pdf_fetched" =>
          /\ tries["parse"][p] <= Crashes + failCount[p]
          /\ tries["parse"][p] < Crashes + MaxParseFailures
    /\ job["parse"][p] = "parsed" => state[p] \in {"parsed", "embedded", "ready"}

\* The jobs of a paper's state, and of its pending references.  A crash keeps the
\* parse job; the recovery queues the others.
StateHasJob(p) ==
    /\ state[p] = "pdf_fetched" =>
          job["parse"][p] # "none" \/ (fetcher.pc = "stored" /\ fetcher.paper = p)
    /\ workerUp =>
          /\ state[p] = "parsed" => job["chunk"][p] # "none" \/ job["parse"][p] = "parsed"
          /\ state[p] = "embedded" => job["chunk"][p] # "none"

RefsHaveJob(p) ==
    workerUp /\ p \in refsPending =>
        \/ job["refs"][p] # "none"
        \/ job["chunk"][p] \in {"committed", "finalizing", "pending", "resolving", "resolved"}

PipelineSpared == Spared({"fetcherCrash", "handlerError", "jobError", "evict"})
PendingSpared  == Spared({"conflict", "jobError", "evict"})

(***************************************************************************)
(* The inductive invariant behind WorkHasJob.  A job is also lost when arq *)
(* has run it max_tries times, so it counts the tries of each job against  *)
(* what makes a job run again; and a job of pending references must be one *)
(* that comes to them, not any chunk job.                                  *)
(***************************************************************************)
WorkInv ==
    /\ \A p \in Papers : TriesUsed(p)
    /\ NoEvictions => \A p \in Papers : ParseTries(p)
    /\ PipelineSpared => \A p \in Papers : StateHasJob(p)
    /\ PendingSpared => \A p \in Papers : RefsHaveJob(p)

-----------------------------------------------------------------------------
\* The faults a step spends.
LEMMA FaultsSpent ==
  ASSUME TypeOK, BudgetInv, [Next]_vars
  PROVE  /\ Crashes \in Nat /\ Crashes' \in Nat /\ Crashes <= Crashes'
         /\ Conflicts \in Nat /\ Conflicts' \in Nat /\ Conflicts <= Conflicts'
         /\ Crashes' <= Faults["workerCrash"] /\ Conflicts' <= Faults["conflict"]
         /\ Fault("workerCrash") => Crashes' = Crashes + 1
         /\ Fault("conflict") => Conflicts' = Conflicts + 1
<1>1. \A f \in FaultKinds : budget'[f] <= budget[f]
  BY BudgetFalls
<1>2. budget' \in [FaultKinds -> Nat]
  BY TypingStep DEF TypeOK
<1>3. \A f \in {"workerCrash", "conflict"} :
         /\ budget[f] \in Nat /\ budget'[f] \in Nat /\ Faults[f] \in Nat
         /\ budget[f] <= Faults[f] /\ budget'[f] <= budget[f]
         /\ Fault(f) => budget'[f] = budget[f] - 1
  BY <1>1, <1>2, FaultOK, ConstantsAssumption DEF TypeOK, BudgetInv, FaultKinds
<1> QED
  BY <1>3 DEF Crashes, Conflicts

\* Faults that are spared after a step were spared before, and are not its fault.
LEMMA SparedBefore ==
  ASSUME TypeOK, BudgetInv, [Next]_vars, NEW kinds \in SUBSET FaultKinds, Spared(kinds)'
  PROVE  Spared(kinds) /\ \A f \in kinds : ~Fault(f)
<1>1. \A f \in FaultKinds : budget'[f] <= budget[f]
  BY BudgetFalls
<1>2. ASSUME NEW f \in kinds PROVE budget[f] = Faults[f] /\ ~Fault(f)
  <2>1. /\ budget[f] \in Nat /\ Faults[f] \in Nat /\ budget'[f] = Faults[f]
        /\ budget'[f] <= budget[f] /\ budget[f] <= Faults[f]
    BY <1>1, <1>2, ConstantsAssumption DEF TypeOK, BudgetInv, Spared
  <2>2. Fault(f) => budget'[f] = budget[f] - 1
    BY <1>2, FaultOK DEF TypeOK
  <2> QED
    BY <2>1, <2>2
<1> QED
  BY <1>2 DEF Spared

\* What the job helpers do to the tries of each job.
LEMMA TriesAfter ==
  ASSUME JobsOK, NEW kind \in Kinds, NEW p \in Papers, NEW to
  PROVE  \A k \in Kinds, q \in Papers :
           /\ JobGoes(kind, p, to) => tries'[k][q] = tries[k][q]
           /\ JobStarts(kind, p, to) =>
                tries'[k][q] = IF k = kind /\ q = p THEN tries[k][q] + 1 ELSE tries[k][q]
           /\ JobEnds(kind, p) =>
                tries'[k][q] = IF k = kind /\ q = p THEN 0 ELSE tries[k][q]
BY DEF JobsOK, JobGoes, JobStarts, JobEnds

\* A step that does not touch a paper, its jobs or its tries.
Untouched(q) ==
    /\ state'[q] = state[q] /\ failCount'[q] = failCount[q] /\ seenFails'[q] = seenFails[q]
    /\ q \in refsPending' <=> q \in refsPending
    /\ \A k \in Kinds : job'[k][q] = job[k][q] /\ tries'[k][q] = tries[k][q]

LEMMA UntouchedKeeps ==
  ASSUME NEW q \in Papers, Untouched(q), TypeOK, Crashes \in Nat, Crashes' \in Nat, Crashes <= Crashes',
         Conflicts \in Nat, Conflicts' \in Nat, Conflicts <= Conflicts'
  PROVE  /\ TriesUsed(q) => TriesUsed(q)'
         /\ ParseTries(q) => ParseTries(q)'
         /\ UNCHANGED <<fetcher, workerUp>> /\ StateHasJob(q) => StateHasJob(q)'
         /\ UNCHANGED workerUp /\ RefsHaveJob(q) => RefsHaveJob(q)'
<1>1. /\ Kinds = {"parse", "chunk", "refs"} /\ MaxParseFailures \in Nat
      /\ \A k \in Kinds : tries[k][q] \in Nat
      /\ failCount[q] \in Nat /\ seenFails[q] \in Nat
  BY ConstantsAssumption DEF TypeOK, RowsOK, JobsOK, Kinds
<1>2. TriesUsed(q) => TriesUsed(q)'
  BY <1>1 DEF Untouched, TriesUsed, Running
<1>3. ParseTries(q) => ParseTries(q)'
  BY <1>1 DEF Untouched, ParseTries
<1>4. UNCHANGED <<fetcher, workerUp>> /\ StateHasJob(q) => StateHasJob(q)'
  BY <1>1 DEF Untouched, StateHasJob
<1>5. UNCHANGED workerUp /\ RefsHaveJob(q) => RefsHaveJob(q)'
  BY <1>1 DEF Untouched, RefsHaveJob
<1> QED
  BY <1>2, <1>3, <1>4, <1>5

-----------------------------------------------------------------------------
\* The steps of the jobs.

\* A step of a job touches no other paper.
LEMMA JobTouches ==
  ASSUME TypeOK, NEW kind \in Kinds, NEW p \in Papers, JobStep(kind, p) \/ JobFault(kind, p),
         NEW q \in Papers \ {p}
  PROVE  Untouched(q) /\ workerUp /\ UNCHANGED <<fetcher, workerUp>>
<1> USE DEF Untouched
<1>0. RowsOK /\ JobsOK /\ Kinds = {"parse", "chunk", "refs"}
  BY DEF TypeOK, Kinds
<1>1. workerUp /\ UNCHANGED <<fetcher, workerUp>>
  BY DEF JobStep, JobFault, WorkerFrame, ParseStart, ParseMissing, ParseWrites, ParseSucceeds, EnqueueChunk,
         ParseFails, ParseGivesUp, ParseAbstractOnly, ChunkStart, ChunkRead, ChunkCommit, ChunkUnlink,
         FinalizePending, FinalizeReady, RefsStart, Resolve, ResolveDone, Exhausted, Conflict,
         JobError, CanStart, Cut, JobAt
<1>2. \A k \in Kinds : job'[k][q] = job[k][q] /\ tries'[k][q] = tries[k][q]
  <2>1. CASE \E k \in Kinds : JobEnds(k, p) \/ \E to : JobGoes(k, p, to) \/ JobStarts(k, p, to)
    BY <1>0, <2>1, JobAtAfter, TriesAfter
  <2>2. CASE EnqueueChunk(p)
    BY <1>0, <2>2, EnqueuedAt, EnqueuedOK DEF EnqueueChunk, JobsOK
  <2> QED
    BY <1>0, <2>1, <2>2
       DEF JobStep, JobFault, ParseStart, ParseMissing, ParseWrites, ParseSucceeds, ParseFails, ParseGivesUp,
           ParseAbstractOnly, ChunkStart, ChunkRead, ChunkCommit, ChunkUnlink, FinalizePending,
           FinalizeReady, RefsStart, Resolve, ResolveDone, Exhausted, Conflict, JobError
<1>3. state'[q] = state[q] /\ failCount'[q] = failCount[q] /\ (q \in refsPending' <=> q \in refsPending)
  BY <1>0 DEF JobStep, JobFault, ParseStart, ParseMissing, ParseWrites, ParseSucceeds, EnqueueChunk,
         ParseFails, ParseGivesUp, ParseAbstractOnly, ChunkStart, ChunkRead, ChunkCommit, ChunkUnlink,
         FinalizePending, FinalizeReady, RefsStart, Resolve, ResolveDone, Exhausted, Conflict,
         JobError, SetState, SetFailure, rowVars, RowsOK
<1>4. seenFails'[q] = seenFails[q]
  BY <1>0 DEF JobStep, JobFault, ParseStart, ParseMissing, ParseWrites, ParseSucceeds, EnqueueChunk,
         ParseFails, ParseGivesUp, ParseAbstractOnly, ChunkStart, ChunkRead, ChunkCommit, ChunkUnlink,
         FinalizePending, FinalizeReady, RefsStart, Resolve, ResolveDone, Exhausted, Conflict,
         JobError, JobGoes, JobEnds, JobsOK
<1> QED
  BY <1>1, <1>2, <1>3, <1>4

\* The places and tries of the jobs of the paper itself.
LEMMA ParseMoves ==
  ASSUME TypeOK, NEW p \in Papers,
         \/ ParseStart(p) \/ ParseMissing(p) \/ ParseWrites(p) \/ ParseSucceeds(p) \/ EnqueueChunk(p)
         \/ ParseFails(p) \/ ParseGivesUp(p) \/ ParseAbstractOnly(p)
  PROVE  /\ job'["refs"][p] = job["refs"][p] /\ tries'["refs"][p] = tries["refs"][p]
         /\ tries'["chunk"][p] = tries["chunk"][p]
         /\ \/ job'["chunk"][p] = job["chunk"][p]
            \/ job["chunk"][p] = "none" /\ job'["chunk"][p] = "queued"
<1>0. JobsOK /\ Kinds = {"parse", "chunk", "refs"}
  BY DEF TypeOK, Kinds
<1>1. CASE JobEnds("parse", p) \/ \E to : JobGoes("parse", p, to) \/ JobStarts("parse", p, to)
  BY <1>0, <1>1, JobAtAfter, TriesAfter
<1>2. CASE EnqueueChunk(p)
  BY <1>0, <1>2, EnqueuedAt, EnqueuedOK DEF EnqueueChunk, JobsOK
<1> QED
  BY <1>1, <1>2 DEF ParseStart, ParseMissing, ParseWrites, ParseSucceeds, ParseFails, ParseGivesUp,
                    ParseAbstractOnly

LEMMA OtherMoves ==
  ASSUME TypeOK, NEW kind \in Kinds, NEW p \in Papers, NEW k \in {"chunk", "refs"},
         \/ kind = "chunk" /\ \/ ChunkStart(p) \/ ChunkRead(p) \/ ChunkCommit(p) \/ ChunkUnlink(p)
                              \/ FinalizePending(p) \/ FinalizeReady(p)
         \/ kind = "refs" /\ RefsStart(p)
         \/ Resolve(kind, p) \/ ResolveDone(kind, p) \/ Exhausted(kind, p)
         \/ Conflict(kind, p) \/ JobError(kind, p)
  PROVE  \/ tries'[k][p] = 0
         \/ tries'[k][p] = tries[k][p] /\ Running(k, p) <= Running(k, p)'
         \/ tries'[k][p] = tries[k][p] + 1 /\ Running(k, p) = 0 /\ Running(k, p)' = 1
         \/ k = "chunk" /\ Fault("conflict") /\ tries'[k][p] = tries[k][p]
<1>0. JobsOK /\ k \in Kinds /\ Kinds = {"parse", "chunk", "refs"}
  BY DEF TypeOK, Kinds
<1>1. ASSUME k # kind PROVE tries'[k][p] = tries[k][p] /\ job'[k][p] = job[k][p]
  <2>1. CASE JobEnds(kind, p) \/ \E to : JobGoes(kind, p, to) \/ JobStarts(kind, p, to)
    <3>1. tries'[k][p] = tries[k][p]
      BY <1>0, <1>1, <2>1, TriesAfter
    <3>2. job'[k][p] = job[k][p]
      BY <1>0, <1>1, <2>1, JobAtAfter
    <3> QED
      BY <3>1, <3>2
  <2> QED
    BY <2>1 DEF ChunkStart, ChunkRead, ChunkCommit, ChunkUnlink, FinalizePending, FinalizeReady, RefsStart,
           Resolve, ResolveDone, Exhausted, Conflict, JobError
<1>2. CASE k = kind /\ JobEnds(kind, p)
  BY <1>0, <1>2, TriesAfter
<1>3. CASE k = kind /\ job[k][p] = "queued"
           /\ \E to : JobStarts(kind, p, to) /\ to \notin {"none", "queued"}
  BY <1>0, <1>3, TriesAfter, JobAtAfter DEF Running
<1>4. CASE k = kind /\ \E to : JobGoes(kind, p, to)
               /\ (to \notin {"none", "queued"} \/ (k = "chunk" /\ Fault("conflict")))
  BY <1>0, <1>4, TriesAfter, JobAtAfter DEF Running
<1> QED
  BY <1>0, <1>1, <1>2, <1>3, <1>4
     DEF ChunkStart, ChunkRead, ChunkCommit, ChunkUnlink, FinalizePending, FinalizeReady, RefsStart, Resolve,
         ResolveDone, Exhausted, Conflict, JobError, CanStart, JobAt, Running

LEMMA TriesUsedStep ==
  ASSUME TypeOK, BudgetInv, [Next]_vars, NEW kind \in Kinds, NEW p \in Papers,
         JobStep(kind, p) \/ JobFault(kind, p), TriesUsed(p)
  PROVE  TriesUsed(p)'
<1>1. /\ Crashes \in Nat /\ Crashes' \in Nat /\ Crashes <= Crashes'
      /\ Conflicts \in Nat /\ Conflicts' \in Nat /\ Conflicts <= Conflicts'
      /\ Fault("conflict") => Conflicts' = Conflicts + 1
  BY FaultsSpent
<1>2. /\ \A k \in {"chunk", "refs"} : tries[k][p] \in Nat
      /\ Running("chunk", p) \in {0, 1} /\ Running("refs", p) \in {0, 1}
      /\ Running("chunk", p)' \in {0, 1} /\ Running("refs", p)' \in {0, 1}
  BY DEF TypeOK, JobsOK, Kinds, Running
<1>3. CASE kind = "parse" /\ \/ ParseStart(p) \/ ParseMissing(p) \/ ParseWrites(p) \/ ParseSucceeds(p)
                             \/ EnqueueChunk(p) \/ ParseFails(p) \/ ParseGivesUp(p)
                             \/ ParseAbstractOnly(p)
  <2>1. /\ tries'["refs"][p] = tries["refs"][p] /\ Running("refs", p)' = Running("refs", p)
        /\ tries'["chunk"][p] = tries["chunk"][p] /\ Running("chunk", p)' = Running("chunk", p)
    BY <1>3, ParseMoves DEF Running
  <2> QED
    BY <1>1, <1>2, <2>1 DEF TriesUsed
<1>4. CASE \A k \in {"chunk", "refs"} :
              \/ tries'[k][p] = 0
              \/ tries'[k][p] = tries[k][p] /\ Running(k, p) <= Running(k, p)'
              \/ tries'[k][p] = tries[k][p] + 1 /\ Running(k, p) = 0 /\ Running(k, p)' = 1
              \/ k = "chunk" /\ Fault("conflict") /\ tries'[k][p] = tries[k][p]
  <2>1. TriesUsed(p) <=> /\ tries["chunk"][p] <= Crashes + Conflicts + Running("chunk", p)
                         /\ tries["refs"][p] <= Crashes + Running("refs", p)
    BY DEF TriesUsed
  <2>2. TriesUsed(p)' <=> /\ tries'["chunk"][p] <= Crashes' + Conflicts' + Running("chunk", p)'
                          /\ tries'["refs"][p] <= Crashes' + Running("refs", p)'
    BY DEF TriesUsed
  <2>3. tries'["chunk"][p] <= Crashes' + Conflicts' + Running("chunk", p)'
    BY <1>1, <1>2, <1>4, <2>1
  <2>4. tries'["refs"][p] <= Crashes' + Running("refs", p)'
    BY <1>1, <1>2, <1>4, <2>1
  <2> QED
    BY <2>2, <2>3, <2>4
<1>5. ASSUME NEW k \in {"chunk", "refs"},
             ~(kind = "parse" /\ \/ ParseStart(p) \/ ParseMissing(p) \/ ParseWrites(p) \/ ParseSucceeds(p)
                                 \/ EnqueueChunk(p) \/ ParseFails(p) \/ ParseGivesUp(p)
                                 \/ ParseAbstractOnly(p))
      PROVE   \/ tries'[k][p] = 0
              \/ tries'[k][p] = tries[k][p] /\ Running(k, p) <= Running(k, p)'
              \/ tries'[k][p] = tries[k][p] + 1 /\ Running(k, p) = 0 /\ Running(k, p)' = 1
              \/ k = "chunk" /\ Fault("conflict") /\ tries'[k][p] = tries[k][p]
  BY <1>5, OtherMoves DEF JobStep, JobFault
<1> QED
  BY <1>3, <1>4, <1>5

\* No job that still has to move its paper on has used up its tries.
LEMMA NotExhausted ==
  ASSUME EnoughTries, TypeOK, BudgetInv, [Next]_vars, NEW p \in Papers, TriesUsed(p), ParseTries(p)
  PROVE  /\ ~Exhausted("chunk", p) /\ ~Exhausted("refs", p)
         /\ state[p] = "pdf_fetched" => ~Exhausted("parse", p)
<1>1. /\ Crashes \in Nat /\ Crashes <= Faults["workerCrash"]
      /\ Conflicts \in Nat /\ Conflicts <= Faults["conflict"]
      /\ Faults["workerCrash"] \in Nat /\ Faults["conflict"] \in Nat
      /\ MaxParseFailures \in Nat /\ failCount[p] \in Nat
      /\ \A k \in Kinds : tries[k][p] \in Nat /\ MaxTries[k] \in Nat
  <2>1. /\ Crashes \in Nat /\ Crashes <= Crashes' /\ Crashes' \in Nat /\ Crashes' <= Faults["workerCrash"]
        /\ Conflicts \in Nat /\ Conflicts <= Conflicts' /\ Conflicts' \in Nat
          /\ Conflicts' <= Faults["conflict"]
    BY FaultsSpent
  <2>2. /\ Faults["workerCrash"] \in Nat /\ Faults["conflict"] \in Nat
        /\ MaxParseFailures \in Nat /\ failCount[p] \in Nat
        /\ \A k \in Kinds : tries[k][p] \in Nat /\ MaxTries[k] \in Nat
    BY ConstantsAssumption DEF TypeOK, RowsOK, JobsOK, FaultKinds
  <2> QED
    BY <2>1, <2>2
<1>2. Exhausted("chunk", p) => FALSE
  BY <1>1 DEF Exhausted, JobAt, TriesUsed, Running, EnoughTries, Kinds
<1>3. Exhausted("refs", p) => FALSE
  BY <1>1 DEF Exhausted, JobAt, TriesUsed, Running, EnoughTries, Kinds
<1>4. state[p] = "pdf_fetched" /\ Exhausted("parse", p) => FALSE
  BY <1>1 DEF Exhausted, JobAt, ParseTries, EnoughTries, Kinds
<1> QED
  BY <1>2, <1>3, <1>4

\* A step of a job of the paper keeps the account of the tries of its parse job.
LEMMA ParseTriesStep ==
  ASSUME TypeOK, BudgetInv, [Next]_vars, NEW kind \in Kinds, NEW p \in Papers,
         JobStep(kind, p) \/ JobFault(kind, p), Stage(p), ParseTries(p)
  PROVE  ParseTries(p)'
<1> USE DEF ParseTries, ParsePcs, JobAt
<1>0. /\ RowsOK /\ JobsOK /\ Kinds = {"parse", "chunk", "refs"}
      /\ failCount[p] \in Nat /\ seenFails[p] \in Nat /\ tries["parse"][p] \in Nat
      /\ MaxParseFailures \in Nat /\ MaxParseFailures > 0
      /\ job["parse"][p] \in JobPcs("parse") /\ JobStage(p)
  BY ConstantsAssumption DEF TypeOK, RowsOK, JobsOK, Kinds, Stage
<1>1. Crashes \in Nat /\ Crashes' \in Nat /\ Crashes <= Crashes'
  BY FaultsSpent
<1>3. CASE job'["parse"][p] = "none" /\ tries'["parse"][p] = 0
  BY <1>0, <1>1, <1>3
<1>4. CASE ParseStart(p) /\ kind = "parse"
  <2>1. CASE JobEnds("parse", p)
    BY <1>0, <1>3, <2>1, JobAtAfter, TriesAfter
  <2>2. CASE state[p] = "pdf_fetched" /\ ~JobEnds("parse", p)
    <3>1. PICK to \in {"parsing", "missing"} : JobStarts("parse", p, to)
      BY <1>4, <2>2 DEF ParseStart
    <3>2. job'["parse"][p] = to /\ tries'["parse"][p] = tries["parse"][p] + 1
      BY <1>0, <3>1, JobAtAfter, TriesAfter
    <3>3. /\ job["parse"][p] = "queued" /\ state' = state /\ failCount' = failCount
          /\ seenFails'[p] = failCount[p]
      BY <1>0, <1>4, <2>2 DEF ParseStart, CanStart, rowVars, JobsOK
    <3> QED
      BY <1>0, <1>1, <2>2, <3>2, <3>3 DEF InPipeline, ParsePcs
  <2> QED
    BY <1>4, <2>1, <2>2 DEF ParseStart
<1>5. CASE kind = "parse" /\ (ParseMissing(p) \/ EnqueueChunk(p) \/ ParseAbstractOnly(p))
  <2>1. job'["parse"][p] = "none" /\ tries'["parse"][p] = 0
    <3>1. CASE EnqueueChunk(p)
      BY <1>0, <3>1, EnqueuedOK DEF EnqueueChunk, JobsOK
    <3> QED
      BY <1>0, <1>5, <3>1, JobAtAfter, TriesAfter DEF ParseMissing, ParseAbstractOnly
  <2> QED
    BY <1>3, <2>1
<1>6. CASE kind = "parse" /\ ParseSucceeds(p)
  <2>1. job'["parse"][p] = "parsed" /\ state'[p] = "parsed" /\ tries'["parse"][p] = tries["parse"][p]
    BY <1>0, <1>6, JobAtAfter, TriesAfter, StateAfter DEF ParseSucceeds
  <2> QED
    BY <2>1 DEF InPipeline, ParsePcs
<1>7. CASE kind = "parse" /\ ParseFails(p)
  <2>1. /\ job["parse"][p] = "parsing" /\ job'["parse"][p] = "queued"
        /\ tries'["parse"][p] = tries["parse"][p]
    BY <1>0, <1>7, JobAtAfter, TriesAfter DEF ParseFails
  <2>2. /\ state'[p] = "pdf_fetched" /\ failCount'[p] = seenFails[p] + 1
        /\ seenFails[p] + 1 < MaxParseFailures
    BY <1>0, <1>7 DEF ParseFails, SetFailure, RowsOK
  <2> QED
    BY <1>0, <1>1, <2>1, <2>2 DEF InPipeline, ParsePcs
<1>8. CASE kind = "parse" /\ (ParseGivesUp(p) \/ ParseWrites(p))
  <2>1. /\ job["parse"][p] = "parsing" /\ job'["parse"][p] \in {"giveup", "written"}
        /\ tries'["parse"][p] = tries["parse"][p]
    BY <1>0, <1>8, JobAtAfter, TriesAfter DEF ParseGivesUp, ParseWrites
  <2>2. UNCHANGED <<state, failCount, seenFails>>
    BY <1>8 DEF ParseGivesUp, ParseWrites, rowVars, JobGoes
  <2> QED
    BY <1>0, <1>1, <2>1, <2>2 DEF InPipeline, ParsePcs
<1>9. ASSUME UNCHANGED <<failCount, seenFails>>, state'[p] = state[p]
                \/ {state[p], state'[p]} \subseteq {"parsed", "embedded", "ready"},
             job'["parse"][p] = job["parse"][p], tries'["parse"][p] = tries["parse"][p]
      PROVE  ParseTries(p)'
  BY <1>0, <1>1, <1>9 DEF InPipeline, ParsePcs
<1>10. CASE \/ kind = "chunk" /\ \/ ChunkStart(p) \/ ChunkRead(p) \/ ChunkCommit(p) \/ ChunkUnlink(p)
                                 \/ FinalizePending(p) \/ FinalizeReady(p)
            \/ kind = "refs" /\ RefsStart(p)
            \/ Resolve(kind, p) \/ ResolveDone(kind, p)
            \/ kind # "parse" /\ (Exhausted(kind, p) \/ JobError(kind, p))
            \/ Conflict(kind, p)
  <2>1. kind # "parse" /\ job'["parse"][p] = job["parse"][p] /\ tries'["parse"][p] = tries["parse"][p]
    <3>1. kind # "parse"
      <4> SUFFICES ASSUME kind = "parse" PROVE FALSE
        OBVIOUS
      <4>1. job[kind][p] \notin {"resolving", "resolved"}
        BY <1>0 DEF JobPcs, ParsePcs, ChunkPcs, RefsPcs
      <4>2. ~Conflict(kind, p) /\ ~Resolve(kind, p) /\ ~ResolveDone(kind, p)
        BY <4>1 DEF Conflict, Resolve, ResolveDone
      <4> QED
        BY <1>10, <4>2
    <3>2. JobEnds(kind, p) \/ \E to : JobGoes(kind, p, to) \/ JobStarts(kind, p, to)
      <4>1. CASE kind = "chunk" /\ ChunkStart(p)
        BY <4>1 DEF ChunkStart
      <4>2. CASE Conflict(kind, p)
        BY <4>2 DEF Conflict
      <4>3. CASE kind = "chunk" /\ \/ ChunkRead(p) \/ ChunkCommit(p) \/ ChunkUnlink(p) \/ FinalizePending(p)
                                   \/ FinalizeReady(p)
        BY <4>3 DEF ChunkRead, ChunkCommit, ChunkUnlink, FinalizePending, FinalizeReady
      <4>4. CASE kind = "refs" /\ RefsStart(p)
        BY <4>4 DEF RefsStart
      <4>5. CASE Resolve(kind, p) \/ ResolveDone(kind, p) \/ Exhausted(kind, p) \/ JobError(kind, p)
        BY <4>5 DEF Resolve, ResolveDone, Exhausted, JobError
      <4> QED
        BY <1>10, <4>1, <4>2, <4>3, <4>4, <4>5
    <3> QED
      BY <1>0, <3>1, <3>2, JobAtAfter, TriesAfter
  <2>2. UNCHANGED <<failCount, seenFails>>
    BY <1>10 DEF ChunkStart, ChunkRead, ChunkCommit, ChunkUnlink, FinalizePending, FinalizeReady, RefsStart,
           Resolve, ResolveDone, Exhausted, Conflict, JobError, JobGoes, JobEnds, SetState, rowVars
  <2>3. state'[p] = state[p] \/ {state[p], state'[p]} \subseteq {"parsed", "embedded", "ready"}
    <3>1. CASE ChunkCommit(p)
      BY <1>0, <3>1 DEF ChunkCommit, Cut, RowsOK, JobStage
    <3>2. CASE FinalizeReady(p)
      BY <1>0, <3>2 DEF FinalizeReady, SetState, RowsOK, JobStage
    <3> QED
      BY <1>10, <3>1, <3>2 DEF ChunkStart, ChunkRead, ChunkUnlink, FinalizePending, RefsStart,
           Resolve, ResolveDone, Exhausted, Conflict, JobError, rowVars
  <2> QED
    BY <1>9, <2>1, <2>2, <2>3
<1>11. CASE kind = "parse" /\ (Exhausted(kind, p) \/ JobError(kind, p))
  <2>1. JobEnds("parse", p)
    BY <1>11 DEF Exhausted, JobError
  <2>2. job'["parse"][p] = "none" /\ tries'["parse"][p] = 0
    BY <1>0, <2>1, JobAtAfter, TriesAfter
  <2> QED
    BY <1>3, <2>2
<1> QED
  BY <1>4, <1>5, <1>6, <1>7, <1>8, <1>10, <1>11 DEF JobStep, JobFault

\* It also keeps the paper's state with a job, unless it is the end of a job that failed.
LEMMA StateHasJobStep ==
  ASSUME EnoughTries, TypeOK, BudgetInv, [Next]_vars, NEW kind \in Kinds, NEW p \in Papers,
         JobStep(kind, p) \/ JobFault(kind, p), ~Fault("jobError"),
         Stage(p), TriesUsed(p), ParseTries(p), StateHasJob(p)
  PROVE  StateHasJob(p)'
<1> USE DEF StateHasJob, JobAt
<1>0. /\ RowsOK /\ JobsOK /\ Kinds = {"parse", "chunk", "refs"} /\ JobStage(p)
      /\ job["parse"][p] \in JobPcs("parse")
  BY DEF TypeOK, Stage, JobsOK, Kinds
<1>1. workerUp /\ UNCHANGED <<fetcher, workerUp>> /\ ~JobError(kind, p)
  BY DEF JobStep, JobFault, WorkerFrame, ParseStart, ParseMissing, ParseWrites, ParseSucceeds, EnqueueChunk,
         ParseFails, ParseGivesUp, ParseAbstractOnly, ChunkStart, ChunkRead, ChunkCommit, ChunkUnlink,
         FinalizePending, FinalizeReady, RefsStart, Resolve, ResolveDone, Exhausted, Conflict,
         JobError, CanStart, Cut
<1>2. CASE ParseStart(p) /\ kind = "parse"
  <2>1. UNCHANGED state /\ job'["chunk"][p] = job["chunk"][p]
        /\ (job'["parse"][p] = "none" => state[p] # "pdf_fetched") /\ job["parse"][p] # "parsed"
    BY <1>0, <1>2, JobAtAfter DEF ParseStart, CanStart, rowVars
  <2> QED
    BY <1>1, <2>1
<1>3. CASE kind = "parse" /\ (ParseMissing(p) \/ ParseAbstractOnly(p))
  <2>1. state'[p] \in {"failed", "abstract_only"}
    BY <1>0, <1>3, StateAfter DEF ParseMissing, ParseAbstractOnly, SetState, SetFailure, RowsOK
  <2> QED
    BY <2>1
<1>4. CASE kind = "parse" /\ EnqueueChunk(p)
  <2>1. state' = state /\ job["parse"][p] = "parsed" /\ job'["chunk"][p] # "none"
    BY <1>0, <1>4, EnqueuedAt, EnqueuedOK DEF EnqueueChunk, rowVars
  <2> QED
    BY <2>1 DEF ParseTries, ParsePcs
<1>5. CASE kind = "parse" /\ ParseSucceeds(p)
  <2>1. job'["parse"][p] = "parsed" /\ state'[p] = "parsed"
    BY <1>0, <1>5, JobAtAfter, StateAfter DEF ParseSucceeds
  <2> QED
    BY <2>1
<1>6. CASE kind = "parse" /\ (ParseFails(p) \/ ParseGivesUp(p) \/ ParseWrites(p))
  <2>1. job'["parse"][p] # "none" /\ job["parse"][p] = "parsing"
    BY <1>0, <1>6, JobAtAfter DEF ParseFails, ParseGivesUp, ParseWrites
  <2>2. state'[p] = "pdf_fetched"
    BY <1>0, <1>6, <2>1, StateAfter DEF ParseFails, ParseGivesUp, ParseWrites, JobStage, ParsePcs, rowVars,
       SetFailure, RowsOK
  <2> QED
    BY <2>1, <2>2
<1>7. CASE kind = "chunk" /\ \/ ChunkStart(p) \/ ChunkRead(p) \/ ChunkCommit(p) \/ ChunkUnlink(p)
                             \/ FinalizePending(p) \/ FinalizeReady(p)
  <2>1. CASE \E to : (JobGoes("chunk", p, to) \/ JobStarts("chunk", p, to)) /\ to # "none"
    <3>1. job'["chunk"][p] # "none" /\ job'["parse"][p] = job["parse"][p]
      BY <1>0, <2>1, JobAtAfter
    <3>2. state'[p] = state[p] \/ state'[p] \in {"embedded", "ready"}
      BY <1>0, <1>7 DEF ChunkStart, ChunkRead, ChunkCommit, ChunkUnlink, FinalizePending, FinalizeReady,
         SetState, rowVars, RowsOK
    <3> QED
      BY <1>1, <3>1, <3>2
  <2>2. CASE ChunkStart(p) /\ JobEnds("chunk", p)
    <3>1. job'["parse"][p] = job["parse"][p] /\ job["chunk"][p] = "queued" /\ UNCHANGED state
          /\ job'["chunk"][p] = "none"
      BY <1>0, <2>2, JobAtAfter DEF ChunkStart, CanStart, rowVars
    <3>2. state[p] \notin {"parsed", "embedded"}
      <4>1. CASE state[p] \in {"parsed", "embedded"}
        <5>1. \E to : JobStarts("chunk", p, to) /\ to # "none"
          BY <2>2, <4>1 DEF ChunkStart
        <5>2. job'["chunk"][p] # "none"
          BY <1>0, <5>1, JobAtAfter
        <5> QED
          BY <3>1, <5>2
      <4> QED
        BY <4>1
    <3> QED
      BY <1>1, <3>1, <3>2
  <2> QED
    BY <1>7, <2>1, <2>2 DEF ChunkStart, ChunkRead, ChunkCommit, ChunkUnlink, FinalizePending, FinalizeReady
<1>8. CASE (kind = "refs" /\ RefsStart(p)) \/ Resolve(kind, p) \/ Conflict(kind, p)
           \/ ResolveDone(kind, p) \/ Exhausted(kind, p)
  <2>1. UNCHANGED state
    BY <1>8 DEF RefsStart, Resolve, Conflict, ResolveDone, Exhausted, rowVars
  <2>2. CASE kind = "refs"
    <3>1. job'["parse"][p] = job["parse"][p] /\ job'["chunk"][p] = job["chunk"][p]
      <4>1. JobEnds(kind, p) \/ \E to : JobGoes(kind, p, to) \/ JobStarts(kind, p, to)
        BY <1>8 DEF RefsStart, Resolve, Conflict, ResolveDone, Exhausted
      <4> QED
        BY <1>0, <2>2, <4>1, JobAtAfter
    <3> QED
      BY <1>1, <2>1, <3>1
  <2>3. CASE kind = "chunk" /\ ~ResolveDone(kind, p)
    <3>1. job'["parse"][p] = job["parse"][p] /\ job'["chunk"][p] # "none"
      BY <1>0, <1>8, <2>3, NotExhausted, JobAtAfter DEF Resolve, Conflict
    <3> QED
      BY <1>1, <2>1, <3>1
  <2>4. CASE kind = "chunk" /\ ResolveDone(kind, p)
    <3>1. job'["parse"][p] = job["parse"][p] /\ job["chunk"][p] = "resolved"
      BY <1>0, <2>4, JobAtAfter DEF ResolveDone
    <3>2. state[p] = "ready"
      BY <1>0, <3>1 DEF JobStage
    <3> QED
      BY <2>1, <3>2
  <2>5. CASE kind = "parse"
    <3>1. Exhausted("parse", p) /\ state[p] # "pdf_fetched"
      BY <1>0, <1>8, <2>5, NotExhausted DEF Resolve, Conflict, ResolveDone, JobPcs, ParsePcs, ChunkPcs,
         RefsPcs
    <3>2. job'["chunk"][p] = job["chunk"][p] /\ job["parse"][p] = "queued"
      BY <1>0, <3>1, JobAtAfter DEF Exhausted
    <3> QED
      BY <1>1, <2>1, <3>1, <3>2
  <2> QED
    BY <1>0, <2>2, <2>3, <2>4, <2>5
<1> QED
  BY <1>1, <1>2, <1>3, <1>4, <1>5, <1>6, <1>7, <1>8 DEF JobStep, JobFault

\* And the references it leaves pending with a job that comes to them.
LEMMA RefsHaveJobStep ==
  ASSUME EnoughTries, TypeOK, BudgetInv, [Next]_vars, NEW kind \in Kinds, NEW p \in Papers,
         JobStep(kind, p) \/ JobFault(kind, p), ~Fault("jobError"), ~Fault("conflict"),
         Stage(p), TriesUsed(p), ParseTries(p), RefsHaveJob(p)
  PROVE  RefsHaveJob(p)'
<1> USE DEF RefsHaveJob, JobAt
<1>0. /\ RowsOK /\ JobsOK /\ Kinds = {"parse", "chunk", "refs"} /\ JobStage(p)
      /\ job["parse"][p] \notin {"resolving", "resolved"}
  BY DEF TypeOK, Stage, JobsOK, JobPcs, ParsePcs, ChunkPcs, RefsPcs, Kinds
<1>1. workerUp /\ UNCHANGED <<fetcher, workerUp>> /\ ~JobError(kind, p) /\ ~Conflict(kind, p)
  BY DEF JobStep, JobFault, WorkerFrame, ParseStart, ParseMissing, ParseWrites, ParseSucceeds, EnqueueChunk,
         ParseFails, ParseGivesUp, ParseAbstractOnly, ChunkStart, ChunkRead, ChunkCommit, ChunkUnlink,
         FinalizePending, FinalizeReady, RefsStart, Resolve, ResolveDone, Exhausted, Conflict,
         JobError, CanStart, Cut
<1>2. CASE kind = "parse" /\ \/ ParseStart(p) \/ ParseMissing(p) \/ ParseWrites(p) \/ ParseSucceeds(p)
                             \/ EnqueueChunk(p) \/ ParseFails(p) \/ ParseGivesUp(p)
                             \/ ParseAbstractOnly(p)
  <2>1. UNCHANGED refsPending
    BY <1>2 DEF ParseStart, ParseMissing, ParseWrites, ParseSucceeds, EnqueueChunk, ParseFails, ParseGivesUp,
          ParseAbstractOnly
  <2> QED
    BY <1>1, <1>2, <2>1, ParseMoves
<1>3. CASE kind = "chunk" /\ ChunkStart(p)
  <2>1. /\ UNCHANGED refsPending /\ job["chunk"][p] = "queued"
        /\ job'["refs"][p] = job["refs"][p]
    <3>1. JobEnds("chunk", p) \/ \E to : JobStarts("chunk", p, to)
      BY <1>3 DEF ChunkStart
    <3> QED
      BY <1>0, <1>3, <3>1, JobAtAfter DEF ChunkStart, CanStart
  <2> QED
    BY <1>1, <2>1
<1>8. CASE kind = "chunk" /\ ChunkRead(p)
  <2>1. /\ UNCHANGED refsPending /\ job["chunk"][p] = "chunking"
        /\ job'["refs"][p] = job["refs"][p]
    BY <1>0, <1>8, JobAtAfter DEF ChunkRead
  <2> QED
    BY <1>1, <2>1
<1>4. CASE kind = "chunk" /\ (ChunkCommit(p) \/ ChunkUnlink(p) \/ FinalizePending(p)
                             \/ FinalizeReady(p) \/ Resolve(kind, p))
  <2>1. job'["chunk"][p] \in {"committed", "finalizing", "pending", "resolving", "resolved"}
    BY <1>0, <1>4, JobAtAfter DEF ChunkCommit, ChunkUnlink, FinalizePending, FinalizeReady, Resolve
  <2> QED
    BY <2>1
<1>5. CASE kind = "refs" /\ (RefsStart(p) \/ Resolve(kind, p))
  <2>1. job'["refs"][p] # "none"
    BY <1>0, <1>5, JobAtAfter DEF RefsStart, Resolve
  <2> QED
    BY <2>1
<1>6. CASE ResolveDone(kind, p)
  <2>1. p \notin refsPending'
    BY <1>6 DEF ResolveDone
  <2> QED
    BY <2>1
<1>7. CASE kind = "parse" /\ Exhausted(kind, p)
  <2>1. /\ UNCHANGED refsPending /\ job'["refs"][p] = job["refs"][p]
        /\ job'["chunk"][p] = job["chunk"][p]
    BY <1>0, <1>7, JobAtAfter DEF Exhausted
  <2> QED
    BY <1>1, <2>1
<1> QED
  BY <1>0, <1>1, <1>2, <1>3, <1>4, <1>5, <1>6, <1>7, <1>8, NotExhausted DEF JobStep, JobFault, Resolve

-----------------------------------------------------------------------------
\* The other processes.

\* A paper that is not in the pipeline yet, nor has jobs of this round.
LEMMA OutsideKeeps ==
  ASSUME TypeOK, NEW q \in Papers, JobStage(q), state[q] \notin InPipeline,
         failCount'[q] \in Nat, Crashes' \in Nat,
         \A k \in Kinds : job'[k][q] = job[k][q] /\ tries'[k][q] = tries[k][q],
         ParseTries(q)
  PROVE  ParseTries(q)'
<1>1. job["parse"][q] \in {"none", "queued"} /\ tries["parse"][q] = 0
  <2>1. job["parse"][q] \in JobPcs("parse")
    BY DEF TypeOK, JobsOK, Kinds
  <2> QED
    BY <2>1 DEF ParseTries, JobStage, JobPcs, ParsePcs, ChunkPcs, RefsPcs, InPipeline
<1> QED
  BY <1>1, ConstantsAssumption DEF ParseTries, ParsePcs, Kinds

LEMMA ClientWork ==
  ASSUME TypeOK, TypeOK', BudgetInv, [Next]_vars,
         NEW c \in Clients, ClientStep(c) \/ ClientCall(c) \/ ClientCrash(c), NEW q \in Papers
  PROVE  /\ TriesUsed(q) => TriesUsed(q)'
         /\ Stage(q) /\ ParseTries(q) => ParseTries(q)'
         /\ StateHasJob(q) => StateHasJob(q)'
         /\ RefsHaveJob(q) => RefsHaveJob(q)'
<1>1. UNCHANGED <<job, tries, seenFails, fetcher, workerUp, refsPending>>
  BY DEF ClientStep, ClientCall, ClientCrash, ClientFrame, jobVars
<1>2. UNCHANGED failCount
  BY DEF ClientStep, ClientCall, ClientCrash, RequestUpdate, RequestPush, Request, Demote,
         DemotePush, SetState, rowVars
<1>3. CASE state'[q] = state[q]
  <2>1. Untouched(q)
    BY <1>1, <1>2, <1>3 DEF Untouched
  <2> QED
    BY <1>1, <2>1, FaultsSpent, UntouchedKeeps
<1>4. CASE state'[q] # state[q]
  <2>1. state[q] \in Enqueueable /\ state'[q] = "queued_fulltext"
    BY <1>4, ClientEffect DEF TypeOK, RowsOK
  <2>2. TriesUsed(q) => TriesUsed(q)'
    <3>1. /\ Running("chunk", q)' = Running("chunk", q) /\ Running("refs", q)' = Running("refs", q)
          /\ Running("chunk", q) \in {0, 1} /\ Running("refs", q) \in {0, 1}
          /\ tries["chunk"][q] \in Nat /\ tries["refs"][q] \in Nat
      BY <1>1 DEF Running, TypeOK, JobsOK, Kinds
    <3> QED
      BY <1>1, <3>1, FaultsSpent DEF TriesUsed
  <2>3. Stage(q) /\ ParseTries(q) => ParseTries(q)'
    BY <1>1, <2>1, FaultsSpent, OutsideKeeps
       DEF Stage, Enqueueable, InPipeline, TypeOK, RowsOK
  <2> QED
    BY <1>1, <2>1, <2>2, <2>3 DEF StateHasJob, RefsHaveJob
<1> QED
  BY <1>3, <1>4

LEMMA FetcherWork ==
  ASSUME TypeOK, TypeOK', BudgetInv, [Next]_vars,
         FetcherStep \/ HandlerError \/ FetcherCrash, NEW q \in Papers
  PROVE  /\ TriesUsed(q) => TriesUsed(q)'
         /\ Stage(q) /\ ParseTries(q) => ParseTries(q)'
         /\ Stage(q) /\ StateHasJob(q) /\ ~Fault("handlerError") /\ ~Fault("fetcherCrash")
               => StateHasJob(q)'
         /\ RefsHaveJob(q) => RefsHaveJob(q)'
<1>0. Kinds = {"parse", "chunk", "refs"} /\ JobsOK /\ RowsOK /\ FetcherOK
  BY DEF TypeOK, Kinds
<1>1. UNCHANGED <<tries, seenFails, workerUp, refsPending>>
  BY DEF FetcherStep, HandlerError, FetcherCrash, FetcherFrame, Pop, ReadRow, WritePdf,
         StoreFetched, EnqueueParse, FetchGivesUp, FetchFails, FetchRequeue, FetchRepush,
         RecoverUrgent, RecoverBulk, RecoverSelect, RecoverPush, jobVars
<1>2. /\ job'["chunk"][q] = job["chunk"][q] /\ job'["refs"][q] = job["refs"][q]
      /\ \/ job'["parse"][q] = job["parse"][q]
         \/ job["parse"][q] = "none" /\ job'["parse"][q] = "queued" /\ fetcher.pc = "stored"
      /\ fetcher.pc # "stored" => job' = job
  BY <1>0, FetcherEffect, EnqueuedAt
<1>3. \/ state'[q] = state[q] /\ failCount'[q] = failCount[q]
      \/ /\ q = fetcher.paper
         /\ \/ fetcher.pc = "written" /\ fetcher'.pc = "stored" /\ fetcher'.paper = q
            \/ fetcher.pc \in {"fetching", "failed"}
                  /\ state'[q] \in {"abstract_only", "failed", "queued_fulltext"}
  <2>1. CASE StoreFetched
    <3>1. fetcher'.pc = "stored" /\ fetcher'.paper = fetcher.paper /\ fetcher.pc = "written"
      BY <1>0, <2>1 DEF StoreFetched, FetcherAt, FetcherGoes, FetcherOK
    <3> QED
      BY <1>0, <2>1, <3>1 DEF StoreFetched, SetState, RowsOK
  <2>2. CASE FetchGivesUp
    BY <1>0, <2>2 DEF FetchGivesUp, SetFailure, FetcherAt, RowsOK
  <2>3. CASE FetchFails
    BY <1>0, <2>3 DEF FetchFails, SetFailure, FetcherAt, RowsOK
  <2>4. CASE FetchRequeue
    BY <1>0, <2>4 DEF FetchRequeue, SetState, FetcherAt, RowsOK
  <2> QED
    BY <2>1, <2>2, <2>3, <2>4
       DEF FetcherStep, HandlerError, FetcherCrash, Pop, ReadRow, WritePdf, EnqueueParse,
           FetchRepush, RecoverUrgent, RecoverBulk, RecoverSelect, RecoverPush, rowVars
<1>4. TriesUsed(q) => TriesUsed(q)'
  <2>1. /\ Running("chunk", q)' = Running("chunk", q) /\ Running("refs", q)' = Running("refs", q)
        /\ Running("chunk", q) \in {0, 1} /\ Running("refs", q) \in {0, 1}
        /\ tries["chunk"][q] \in Nat /\ tries["refs"][q] \in Nat
    BY <1>0, <1>2 DEF Running, JobsOK
  <2> QED
    BY <1>1, <2>1, FaultsSpent DEF TriesUsed
<1>5. ASSUME Stage(q), ParseTries(q) PROVE ParseTries(q)'
  <2>1. CASE state'[q] = state[q] /\ failCount'[q] = failCount[q]
    <3>1. CASE job'["parse"][q] = job["parse"][q]
      <4>1. Untouched(q)
        BY <1>0, <1>1, <1>2, <2>1, <3>1 DEF Untouched
      <4> QED
        BY <1>5, <4>1, FaultsSpent, UntouchedKeeps
    <3>2. CASE job["parse"][q] = "none" /\ job'["parse"][q] = "queued"
      <4>1. tries["parse"][q] = 0
        BY <1>5, <3>2 DEF ParseTries, ParsePcs
      <4>2. failCount[q] \in Nat
        BY <1>0 DEF RowsOK
      <4> QED
        BY <1>1, <2>1, <3>2, <4>1, <4>2, FaultsSpent, ConstantsAssumption DEF ParseTries, ParsePcs
    <3> QED
      BY <1>2, <3>1, <3>2
  <2>2. CASE ~(state'[q] = state[q] /\ failCount'[q] = failCount[q])
    <3>1. state[q] \in {"queued_fulltext", "failed"} /\ fetcher.pc # "stored"
      BY <1>3, <1>5, <2>2 DEF Stage, FetchStage
    <3> QED
      BY <1>0, <1>1, <1>2, <1>5, <3>1, FaultsSpent, OutsideKeeps
         DEF Stage, InPipeline, TypeOK, RowsOK
  <2> QED
    BY <2>1, <2>2
<1>6. ASSUME Stage(q), StateHasJob(q), ~Fault("handlerError"), ~Fault("fetcherCrash")
      PROVE  StateHasJob(q)'
  <2>1. CASE state'[q] = state[q]
    <3>1. fetcher.pc = "stored" => EnqueueParse
      BY <1>6 DEF FetcherStep, HandlerError, FetcherCrash, Pop, ReadRow, WritePdf, StoreFetched,
         FetchGivesUp, FetchFails, FetchRequeue, FetchRepush, RecoverUrgent, RecoverBulk,
         RecoverSelect, RecoverPush, FetcherAt
    <3>2. fetcher.pc = "stored" /\ fetcher.paper = q => job'["parse"][q] # "none"
      BY <1>0, <3>1, EnqueuedAt DEF EnqueueParse
    <3> QED
      BY <1>1, <1>2, <1>6, <2>1, <3>2 DEF StateHasJob
  <2>2. CASE state'[q] # state[q]
    <3>1. \/ fetcher'.pc = "stored" /\ fetcher'.paper = q /\ state'[q] = "pdf_fetched"
          \/ state'[q] \in {"abstract_only", "failed", "queued_fulltext"}
      BY <1>0, <1>3, <2>2, FetcherEffect DEF RowsOK
    <3> QED
      BY <3>1 DEF StateHasJob
  <2> QED
    BY <2>1, <2>2
<1>7. RefsHaveJob(q) => RefsHaveJob(q)'
  BY <1>1, <1>2 DEF RefsHaveJob
<1> QED
  BY <1>4, <1>5, <1>6, <1>7

\* A crash makes every job start again; the recovery queues what has to go on.
LEMMA CrashWork ==
  ASSUME TypeOK, BudgetInv, [Next]_vars, WorkerCrash, NEW q \in Papers
  PROVE  /\ TriesUsed(q) => TriesUsed(q)'
         /\ Stage(q) /\ ParseTries(q) => ParseTries(q)'
         /\ StateHasJob(q) => StateHasJob(q)'
         /\ RefsHaveJob(q)'
<1>0. Kinds = {"parse", "chunk", "refs"} /\ JobsOK /\ RowsOK
  BY DEF TypeOK, Kinds
<1>1. /\ Crashes \in Nat /\ Crashes' = Crashes + 1
      /\ Conflicts \in Nat /\ Conflicts' \in Nat /\ Conflicts <= Conflicts'
  BY FaultsSpent DEF WorkerCrash
<1>2. /\ UNCHANGED <<rowVars, tries, seenFails, refsPending, fetcher>> /\ ~workerUp'
      /\ \A k \in Kinds : job'[k][q] = IF job[k][q] = "none" THEN "none" ELSE "queued"
  BY DEF WorkerCrash, WorkerFrame
<1>3. /\ \A k \in Kinds : tries[k][q] \in Nat
      /\ failCount[q] \in Nat /\ seenFails[q] \in Nat /\ MaxParseFailures \in Nat \ {0}
      /\ job["parse"][q] \in JobPcs("parse")
  BY <1>0, ConstantsAssumption DEF JobsOK, RowsOK
<1>4. TriesUsed(q) => TriesUsed(q)'
  <2>1. /\ Running("chunk", q)' = 0 /\ Running("refs", q)' = 0
        /\ Running("chunk", q) \in {0, 1} /\ Running("refs", q) \in {0, 1}
    BY <1>0, <1>2 DEF Running
  <2> QED
    BY <1>0, <1>1, <1>2, <1>3, <2>1 DEF TriesUsed
<1>5. ASSUME Stage(q), ParseTries(q) PROVE ParseTries(q)'
  <2>1. UNCHANGED <<state, failCount, seenFails, tries>>
    BY <1>2 DEF rowVars
  <2>2. state[q] = "pdf_fetched" /\ job["parse"][q] # "none" =>
           tries["parse"][q] <= Crashes + 1 + failCount[q]
           /\ tries["parse"][q] <= Crashes + MaxParseFailures
    BY <1>0, <1>1, <1>3, <1>5 DEF ParseTries, JobPcs, ParsePcs, ChunkPcs, RefsPcs
  <2> QED
    BY <1>0, <1>1, <1>2, <1>3, <1>5, <2>1, <2>2 DEF ParseTries, ParsePcs
<1>6. StateHasJob(q) => StateHasJob(q)'
  BY <1>0, <1>2 DEF StateHasJob, rowVars
<1> QED
  BY <1>2, <1>4, <1>5, <1>6 DEF RefsHaveJob

LEMMA RecoverWork ==
  ASSUME TypeOK, BudgetInv, [Next]_vars, WorkerRecover, NEW q \in Papers
  PROVE  /\ TriesUsed(q) => TriesUsed(q)'
         /\ ParseTries(q) => ParseTries(q)'
         /\ StateHasJob(q) => StateHasJob(q)'
         /\ RefsHaveJob(q)'
<1>0. Kinds = {"parse", "chunk", "refs"} /\ JobsOK /\ RowsOK
  BY DEF TypeOK, Kinds
<1>1. /\ Crashes \in Nat /\ Crashes' \in Nat /\ Crashes <= Crashes'
      /\ Conflicts \in Nat /\ Conflicts' \in Nat /\ Conflicts <= Conflicts'
  BY FaultsSpent
<1>2. /\ UNCHANGED <<rowVars, tries, seenFails, refsPending, fetcher>>
      /\ \A k \in Kinds : job'[k][q] = IF q \in Unfinished(k) /\ job[k][q] = "none"
                                          THEN "queued" ELSE job[k][q]
  BY <1>0, EnqueuedAt DEF WorkerRecover, WorkerFrame
<1>3. /\ \A k \in Kinds : tries[k][q] \in Nat
      /\ failCount[q] \in Nat /\ seenFails[q] \in Nat /\ MaxParseFailures \in Nat \ {0}
  BY <1>0, ConstantsAssumption DEF JobsOK, RowsOK
<1>4. TriesUsed(q) => TriesUsed(q)'
  <2>1. /\ Running("chunk", q)' = Running("chunk", q) /\ Running("refs", q)' = Running("refs", q)
        /\ Running("chunk", q) \in {0, 1} /\ Running("refs", q) \in {0, 1}
    BY <1>0, <1>2 DEF Running
  <2> QED
    BY <1>0, <1>1, <1>2, <1>3, <2>1 DEF TriesUsed
<1>5. ASSUME ParseTries(q) PROVE ParseTries(q)'
  <2>1. UNCHANGED <<state, failCount, seenFails, tries>>
    BY <1>2 DEF rowVars
  <2>2. \/ job'["parse"][q] = job["parse"][q]
        \/ job["parse"][q] = "none" /\ job'["parse"][q] = "queued" /\ tries["parse"][q] = 0
    BY <1>0, <1>2, <1>5 DEF ParseTries, ParsePcs
  <2> QED
    BY <1>0, <1>1, <1>3, <1>5, <2>1, <2>2 DEF ParseTries, ParsePcs
<1>6. StateHasJob(q) => StateHasJob(q)'
  <2>1. state[q] \in {"parsed", "embedded"} => job'["chunk"][q] # "none"
    BY <1>0, <1>2 DEF Unfinished
  <2> QED
    BY <1>0, <1>2, <2>1 DEF StateHasJob, rowVars
<1>7. q \in refsPending' => job'["refs"][q] # "none"
  BY <1>0, <1>2 DEF Unfinished
<1> QED
  BY <1>4, <1>5, <1>6, <1>7 DEF RefsHaveJob

\* With no eviction the janitor leaves every row alone.
LEMMA JanitorWork ==
  ASSUME TypeOK, BudgetInv, [Next]_vars, NEW q \in Papers,
         UNCHANGED vars \/ JanitorStep \/ \E p \in Papers : JanitorRun(p)
  PROVE  /\ TriesUsed(q) => TriesUsed(q)'
         /\ UNCHANGED vars \/ janitor.pc = "idle" =>
               /\ ParseTries(q) => ParseTries(q)'
               /\ StateHasJob(q) => StateHasJob(q)'
               /\ RefsHaveJob(q) => RefsHaveJob(q)'
<1>1. UNCHANGED <<job, tries, seenFails, fetcher, workerUp, refsPending>>
  BY DEF JanitorStep, JanitorRun, JanitorFrame, jobVars, vars, procVars
<1>2. TriesUsed(q) => TriesUsed(q)'
  <2>1. /\ Running("chunk", q)' = Running("chunk", q) /\ Running("refs", q)' = Running("refs", q)
        /\ Running("chunk", q) \in {0, 1} /\ Running("refs", q) \in {0, 1}
        /\ tries["chunk"][q] \in Nat /\ tries["refs"][q] \in Nat
    BY <1>1 DEF Running, TypeOK, JobsOK, Kinds
  <2> QED
    BY <1>1, <2>1, FaultsSpent DEF TriesUsed
<1>3. UNCHANGED vars \/ janitor.pc = "idle" => Untouched(q)
  BY <1>1 DEF Untouched, JanitorStep, JanitorRun, JanitorUnlink, JanitorMark, JanitorChoose,
     JanitorOrphan, rowVars, vars
<1> QED
  BY <1>1, <1>2, <1>3, FaultsSpent, UntouchedKeeps

-----------------------------------------------------------------------------
LEMMA WorkInvStep ==
  ASSUME EnoughTries, TypeOK, TypeOK', BudgetInv, StageInv, WorkInv, [Next]_vars
  PROVE  WorkInv'
<1>1. NoEvictions' => /\ NoEvictions /\ janitor.pc = "idle"
                      /\ \A q \in Papers : Stage(q) /\ ParseTries(q)
  BY SparedBefore DEF NoEvictions, StageInv, WorkInv, Stage, FaultKinds
<1>2. PipelineSpared' =>
         /\ NoEvictions' /\ PipelineSpared /\ ~Fault("jobError") /\ ~Fault("handlerError")
         /\ ~Fault("fetcherCrash") /\ \A q \in Papers : StateHasJob(q)
  <2>1. {"fetcherCrash", "handlerError", "jobError", "evict"} \in SUBSET FaultKinds
    BY DEF FaultKinds
  <2> QED
    BY <2>1, SparedBefore DEF NoEvictions, PipelineSpared, WorkInv, Spared
<1>3. PendingSpared' =>
         /\ NoEvictions' /\ PendingSpared /\ ~Fault("jobError") /\ ~Fault("conflict")
         /\ \A q \in Papers : RefsHaveJob(q)
  <2>1. {"conflict", "jobError", "evict"} \in SUBSET FaultKinds
    BY DEF FaultKinds
  <2> QED
    BY <2>1, SparedBefore DEF NoEvictions, PendingSpared, WorkInv, Spared
<1>4. \A q \in Papers : TriesUsed(q)
  BY DEF WorkInv
<1> SUFFICES ASSUME NEW q \in Papers
             PROVE  /\ TriesUsed(q)'
                    /\ NoEvictions' => ParseTries(q)'
                    /\ PipelineSpared' => StateHasJob(q)'
                    /\ PendingSpared' => RefsHaveJob(q)'
  BY DEF WorkInv
<1>5. CASE \E c \in Clients : ClientStep(c) \/ ClientCall(c) \/ ClientCrash(c)
  BY <1>1, <1>2, <1>3, <1>4, <1>5, ClientWork
<1>6. CASE FetcherStep \/ HandlerError \/ FetcherCrash
  BY <1>1, <1>2, <1>3, <1>4, <1>6, FetcherWork
<1>7. ASSUME NEW kind \in Kinds, NEW p \in Papers, JobStep(kind, p) \/ JobFault(kind, p)
      PROVE  /\ TriesUsed(q)'
             /\ NoEvictions' => ParseTries(q)'
             /\ PipelineSpared' => StateHasJob(q)'
             /\ PendingSpared' => RefsHaveJob(q)'
  <2>1. CASE q = p
    BY <1>1, <1>2, <1>3, <1>4, <1>7, <2>1, TriesUsedStep, ParseTriesStep, StateHasJobStep,
       RefsHaveJobStep
  <2>2. CASE q # p
    <3>1. Untouched(q) /\ workerUp /\ UNCHANGED <<fetcher, workerUp>>
      BY <1>7, <2>2, JobTouches
    <3> QED
      BY <1>1, <1>2, <1>3, <1>4, <3>1, FaultsSpent, UntouchedKeeps
  <2> QED
    BY <2>1, <2>2
<1>8. CASE WorkerCrash
  BY <1>1, <1>2, <1>3, <1>4, <1>8, CrashWork
<1>9. CASE WorkerRecover
  BY <1>1, <1>2, <1>3, <1>4, <1>9, RecoverWork
<1>10. CASE UNCHANGED vars \/ JanitorStep \/ \E p \in Papers : JanitorRun(p)
  BY <1>1, <1>2, <1>3, <1>4, <1>10, JanitorWork
<1> QED
  BY <1>5, <1>6, <1>7, <1>8, <1>9, <1>10 DEF Next

(***************************************************************************)
(* "Restarts never lose ... work" (workers/arq_worker.py): whatever a      *)
(* paper's state or refs:pending still asks for has a job while the worker *)
(* runs, for every number of papers, clients and crashes, provided that    *)
(* max_tries leaves room for those crashes (and the conflicts) on top of   *)
(* the failures of the parsers it is meant for.                            *)
(***************************************************************************)
THEOREM NoWorkForgotten ==
  ASSUME EnoughTries
  PROVE  Spec => []WorkHasJob
<1>1. Init => BudgetInv /\ WorkInv
  <2> SUFFICES ASSUME Init PROVE BudgetInv /\ WorkInv
    OBVIOUS
  <2>1. Kinds = {"parse", "chunk", "refs"} /\ {"workerCrash", "conflict"} \subseteq FaultKinds
    BY DEF Kinds, FaultKinds
  <2>2. BudgetInv /\ Crashes = 0 /\ Conflicts = 0
    BY <2>1, ConstantsAssumption DEF Init, BudgetInv, Crashes, Conflicts
  <2> QED
    BY <2>1, <2>2, ConstantsAssumption
       DEF Init, WorkInv, TriesUsed, Running, ParseTries, StateHasJob, RefsHaveJob, InPipeline
<1>2. TypeOK /\ BudgetInv /\ StageInv /\ WorkInv /\ [Next]_vars
         => TypeOK' /\ BudgetInv' /\ StageInv' /\ WorkInv'
  BY EnoughTries, TypingStep, BudgetStep, StageInvStep, WorkInvStep
<1>3. TypeOK /\ WorkInv => WorkHasJob
  BY DEF WorkInv, WorkHasJob, PipelineHasJob, PendingHasJob, PipelineSpared, PendingSpared,
         StateHasJob, RefsHaveJob, TypeOK
<1> QED
  BY TypingInit, StageInvInit, <1>1, <1>2, <1>3, PTL DEF Spec
=============================================================================
