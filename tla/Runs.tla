-------------------------------- MODULE Runs --------------------------------
(***************************************************************************)
(* Research runs: how a question becomes a run, and how the worker carries *)
(* it through its steps (backend/app/routers/threads.py, agent/run.py, the *)
(* research jobs of workers/arq_worker.py).                                *)
(*                                                                         *)
(* The API inserts runs, enqueues their jobs and cancels them; the worker  *)
(* executes the jobs, many at a time, under a lock per run, and records    *)
(* every completed step, so that a run can be resumed after a restart.     *)
(***************************************************************************)
EXTENDS Naturals, FiniteSets

CONSTANTS
    Runs,       \* ids of research_runs
    Threads,    \* ids of threads
    ThreadOf,   \* [Runs -> Threads]: the thread a run will belong to
    Deep,       \* the runs asked in deep mode
    Faults,     \* bound: how often each kind of fault or of racing call may happen
    MaxFaultKinds   \* bound: how many kinds of them in one behaviour

FaultKinds == {"apiCrash", "shutdown", "crash", "jobError", "cancelQueued", "overrun"}

ASSUME ConstantsAssumption ==
    /\ ThreadOf \in [Runs -> Threads]
    /\ Deep \subseteq Runs
    /\ Faults \in [FaultKinds -> Nat]
    /\ MaxFaultKinds \in Nat

Active   == {"queued", "running"}
Final    == {"done", "timed_out", "failed", "cancelled"}
Statuses == {"none"} \cup Active \cup Final

\* arq's ids: 0 is "run:<id>", n is "run:<id>:resume:<time of the n-th restart>".
JobIds == 0..(Faults["shutdown"] + Faults["crash"])

Steps == {"rewrite", "find_papers", "fetch", "chain", "passages", "read", "write"}

\* Rows of run_steps: a type, or a type with the payload that tells it apart.
RowTypes == Steps \cup {"no_passages", "read_skipped", "verify", "consensus", "error"}

Working == {"step", "check", "gather", "empty", "both", "verify", "consensus", "storing"}
Body    == Working \cup {"locked", "loading", "failing", "releasing"} \cup Final
Pcs     == Body \cup {"none", "queued", "spent", "selected"}

VARIABLES
    status,        \* research_runs.status ("none": not asked yet)
    rows,          \* how many rows of each type the run has in run_steps
    answered,      \* its answer_sentences are stored
    lock,          \* the Redis key run:<id>:lock exists
    cancelKey,     \* the Redis key run:<id>:cancel exists
    enqueuing,     \* runs inserted whose job the API has still to enqueue
    cancelling,    \* runs that a cancel_run call read as queued
    flagging,      \* runs that a cancel_run call read as running
    pc,            \* where each arq job of a run is ("spent": its only try is used up)
    at,            \* the step it is at
    done,          \* the rows it found when it started (RunState.done)
    late,          \* RunState.timed_out
    workerUp,      \* the worker runs (its startup recovery is done)
    restarts,      \* recoveries so far
    budget         \* faults that may still happen

runVars  == <<status, rows, answered>>
keyVars  == <<lock, cancelKey>>
apiVars  == <<enqueuing, cancelling, flagging>>
jobVars  == <<pc, at, done, late>>
procVars == <<workerUp, restarts>>
vars == <<runVars, keyVars, apiVars, jobVars, procVars, budget>>

RunsOK ==
    /\ status \in [Runs -> Statuses]
    /\ rows \in [Runs -> [RowTypes -> Nat]]
    /\ answered \in [Runs -> BOOLEAN]

KeysOK ==
    /\ lock \in [Runs -> BOOLEAN]
    /\ cancelKey \in [Runs -> BOOLEAN]

ApiOK ==
    /\ enqueuing \in SUBSET Runs
    /\ cancelling \in SUBSET Runs
    /\ flagging \in SUBSET Runs

JobsOK ==
    /\ pc \in [Runs -> [JobIds -> Pcs]]
    /\ at \in [Runs -> [JobIds -> Steps]]
    /\ done \in [Runs -> [JobIds -> SUBSET RowTypes]]
    /\ late \in [Runs -> [JobIds -> BOOLEAN]]

\* Every stop of the worker is followed by its restart.
RestartsOK ==
    /\ workerUp \in BOOLEAN
    /\ restarts \in Nat
    /\ budget \in [FaultKinds -> Nat]
    /\ budget["shutdown"] + budget["crash"] + restarts + (IF workerUp THEN 0 ELSE 1)
         = Faults["shutdown"] + Faults["crash"]

TypeOK == RunsOK /\ KeysOK /\ ApiOK /\ JobsOK /\ RestartsOK

Init ==
    /\ status = [r \in Runs |-> "none"]
    /\ rows = [r \in Runs |-> [t \in RowTypes |-> 0]]
    /\ answered = [r \in Runs |-> FALSE]
    /\ lock = [r \in Runs |-> FALSE]
    /\ cancelKey = [r \in Runs |-> FALSE]
    /\ enqueuing = {} /\ cancelling = {} /\ flagging = {}
    /\ pc = [r \in Runs |-> [j \in JobIds |-> "none"]]
    /\ at = [r \in Runs |-> [j \in JobIds |-> "rewrite"]]
    /\ done = [r \in Runs |-> [j \in JobIds |-> {}]]
    /\ late = [r \in Runs |-> [j \in JobIds |-> FALSE]]
    /\ workerUp = TRUE
    /\ restarts = 0
    /\ budget = Faults

SetStatus(r, s) == status' = [status EXCEPT ![r] = s]

Fault(kind) ==
    /\ budget[kind] > 0
    /\ Cardinality({f \in FaultKinds \ {kind} : budget[f] < Faults[f]}) < MaxFaultKinds
    /\ budget' = [budget EXCEPT ![kind] = @ - 1]

-----------------------------------------------------------------------------
\* The API.

Siblings(r) == {q \in Runs : ThreadOf[q] = ThreadOf[r]}

AskQueuedUnseen(r) ==                     \* mutant of Ask: a queued run does not make a thread busy
    /\ status[r] = "none"
    /\ \A q \in Siblings(r) : status[q] # "running"
    /\ SetStatus(r, "queued")
    /\ enqueuing' = enqueuing \cup {r}
    /\ UNCHANGED <<rows, answered, cancelling, flagging>>

\* create_thread and follow_up: one transaction, with the thread's row locked.
Ask(r) ==
    /\ status[r] = "none"
    /\ \A q \in Siblings(r) : status[q] \notin Active
    /\ SetStatus(r, "queued")
    /\ enqueuing' = enqueuing \cup {r}
    /\ UNCHANGED <<rows, answered, cancelling, flagging>>

\* _enqueue, after the commit; nothing happens while the job exists.
Enqueue(r) ==
    /\ r \in enqueuing
    /\ enqueuing' = enqueuing \ {r}
    /\ pc' = [pc EXCEPT ![r][0] = IF @ = "none" THEN "queued" ELSE @]
    /\ UNCHANGED <<runVars, cancelling, flagging, at, done, late>>

\* cancel_run: read the status, then act on what was read.
CancelRead(r) ==
    \/ /\ status[r] = "queued" /\ r \notin cancelling
       /\ Fault("cancelQueued")
       /\ cancelling' = cancelling \cup {r}
       /\ UNCHANGED <<runVars, enqueuing, flagging>>
    \/ /\ status[r] = "running"
       /\ flagging' = flagging \cup {r}
       /\ UNCHANGED <<runVars, enqueuing, cancelling, budget>>

CancelQueued(r) ==
    /\ r \in cancelling
    /\ cancelling' = cancelling \ {r}
    /\ SetStatus(r, "cancelled")
    /\ UNCHANGED <<rows, answered, cancelKey, enqueuing, flagging>>

CancelFlagStatus(r) ==                    \* mutant of CancelFlag: a running run is cancelled at once
    /\ r \in flagging
    /\ flagging' = flagging \ {r}
    /\ SetStatus(r, "cancelled")
    /\ UNCHANGED <<rows, answered, cancelKey, enqueuing, cancelling>>

CancelFlag(r) ==
    /\ r \in flagging
    /\ flagging' = flagging \ {r}
    /\ cancelKey' = [cancelKey EXCEPT ![r] = TRUE]
    /\ UNCHANGED <<runVars, enqueuing, cancelling>>

ApiCall(r) ==
    /\ \/ Ask(r) /\ UNCHANGED budget
       \/ CancelRead(r)
    /\ UNCHANGED <<keyVars, jobVars, procVars>>

ApiStep(r) ==
    /\ \/ Enqueue(r) /\ UNCHANGED cancelKey
       \/ (CancelQueued(r) \/ CancelFlag(r)) /\ UNCHANGED jobVars
    /\ UNCHANGED <<lock, procVars, budget>>

\* The process dies between the insert and _enqueue.
ApiCrash(r) ==
    /\ r \in enqueuing
    /\ Fault("apiCrash")
    /\ enqueuing' = enqueuing \ {r}
    /\ UNCHANGED <<runVars, keyVars, cancelling, flagging, jobVars, procVars>>

-----------------------------------------------------------------------------
\* execute_run.

JobAt(r, j, from) == workerUp /\ pc[r][j] = from
JobGoes(r, j, to) == pc' = [pc EXCEPT ![r][j] = to]

\* The locals of a job are gone with it.
JobEnds(r, j) ==
    /\ JobGoes(r, j, "none")
    /\ at' = [at EXCEPT ![r][j] = "rewrite"]
    /\ done' = [done EXCEPT ![r][j] = {}]
    /\ late' = [late EXCEPT ![r][j] = FALSE]

InBody(r) == \E j \in JobIds : pc[r][j] \in Body

\* arq counts the try before it runs the job: one that was cut off is dropped.
DropSpent(r, j) ==
    /\ JobAt(r, j, "spent") /\ JobGoes(r, j, "none")
    /\ UNCHANGED <<runVars, keyVars, at, done, late>>

SelectRun(r, j) ==
    /\ JobAt(r, j, "queued")
    /\ JobGoes(r, j, IF status[r] \in Active THEN "selected" ELSE "none")
    /\ UNCHANGED <<runVars, keyVars, at, done, late>>

AcquireHeld(r, j) ==                      \* mutant of Acquire: SET without NX
    /\ JobAt(r, j, "selected")
    /\ lock' = [lock EXCEPT ![r] = TRUE]
    /\ JobGoes(r, j, "locked")
    /\ UNCHANGED <<runVars, cancelKey, at, done, late>>

\* SET NX: "already running elsewhere" ends the job.
Acquire(r, j) ==
    /\ JobAt(r, j, "selected")
    /\ lock' = [lock EXCEPT ![r] = TRUE]
    /\ JobGoes(r, j, IF lock[r] THEN "none" ELSE "locked")
    /\ UNCHANGED <<runVars, cancelKey, at, done, late>>

\* The status read before the lock is not looked at again.
MarkRunning(r, j) ==
    /\ JobAt(r, j, "locked") /\ JobGoes(r, j, "loading")
    /\ SetStatus(r, "running")
    /\ UNCHANGED <<rows, answered, keyVars, at, done, late>>

Redone == {"verify", "consensus", "error"}
Recorded(r) == {t \in RowTypes : rows[r][t] > 0}

LoadVerified(r, j) ==                     \* mutant of LoadProgress: a verified run counts as done
    /\ JobAt(r, j, "loading") /\ JobGoes(r, j, IF rows[r]["verify"] > 0 THEN "done" ELSE "step")
    /\ rows' = [rows EXCEPT ![r]["consensus"] = 0, ![r]["error"] = 0]
    /\ at' = [at EXCEPT ![r][j] = "rewrite"]
    /\ done' = [done EXCEPT ![r][j] = Recorded(r) \ Redone]
    /\ late' = [late EXCEPT ![r][j] = FALSE]
    /\ UNCHANGED <<status, answered, keyVars>>

\* RunState and load_progress: keep the completed steps, redo the rest.  Whether the
\* deadline has passed is decided anew: a resumed run gets a grace.
LoadProgress(r, j) ==
    /\ JobAt(r, j, "loading") /\ JobGoes(r, j, "step")
    /\ rows' = [rows EXCEPT ![r] = [t \in RowTypes |-> IF t \in Redone THEN 0 ELSE @[t]]]
    /\ at' = [at EXCEPT ![r][j] = "rewrite"]
    /\ done' = [done EXCEPT ![r][j] = Recorded(r) \ Redone]
    /\ late' = [late EXCEPT ![r][j] = FALSE]
    /\ UNCHANGED <<status, answered, keyVars>>

Insert(r, t) == rows' = [rows EXCEPT ![r][t] = @ + 1]

AtStep(r, j, s) == JobAt(r, j, "step") /\ at[r][j] = s
Has(r, j, types) == done[r][j] \cap types # {}

\* past_deadline: once passed, passed.
Deadline(r, j) == \E passed \in {TRUE, late[r][j]} : late' = [late EXCEPT ![r][j] = passed]
StepFrame == UNCHANGED <<status, answered, keyVars, at, done>>

\* REWRITE, FIND_PAPERS, FETCH and WRITE: a recorded step is taken from its payload.
PlainStep(r, j) ==
    /\ \E s \in {"rewrite", "find_papers", "fetch", "write"} :
        /\ AtStep(r, j, s)
        /\ IF Has(r, j, {s}) THEN UNCHANGED rows ELSE Insert(r, s)
    /\ JobGoes(r, j, "check")
    /\ StepFrame /\ UNCHANGED late

\* step_fetch looks at the cancel flag while it waits.
FetchCancelled(r, j) ==
    /\ AtStep(r, j, "fetch") /\ ~Has(r, j, {"fetch"})
    /\ cancelKey[r]
    /\ JobGoes(r, j, "cancelled")
    /\ StepFrame /\ UNCHANGED <<rows, late>>

\* CHAIN is optional: past the deadline it is skipped, and no row says so.
ChainStep(r, j) ==
    /\ AtStep(r, j, "chain")
    /\ IF Has(r, j, {"chain"})
         THEN UNCHANGED <<rows, late>>
         ELSE Deadline(r, j) /\ IF late'[r][j] THEN UNCHANGED rows ELSE Insert(r, "chain")
    /\ JobGoes(r, j, "check")
    /\ StepFrame

\* PASSAGES may find nothing, and of the passages recorded before a restart those are left
\* whose chunks are still there (load_passages); without any, the run ends without an answer.
PassagesStep(r, j) ==
    /\ AtStep(r, j, "passages")
    /\ IF Has(r, j, {"passages", "no_passages"})
         THEN /\ \/ JobGoes(r, j, "empty")
                 \/ Has(r, j, {"passages"}) /\ JobGoes(r, j, "check")
              /\ UNCHANGED rows
         ELSE \/ Insert(r, "passages") /\ JobGoes(r, j, "check")
              \/ Insert(r, "no_passages") /\ JobGoes(r, j, "empty")
    /\ StepFrame /\ UNCHANGED late

EndEmpty(r, j) ==
    /\ JobAt(r, j, "empty") /\ JobGoes(r, j, "done")
    /\ Insert(r, "error")
    /\ StepFrame /\ UNCHANGED late

\* READ: past the deadline the passages themselves are the notes.
ReadStep(r, j) ==
    /\ AtStep(r, j, "read")
    /\ IF Has(r, j, {"read", "read_skipped"})
         THEN UNCHANGED <<rows, late>>
         ELSE Deadline(r, j) /\ Insert(r, IF late'[r][j] THEN "read_skipped" ELSE "read")
    /\ JobGoes(r, j, "check")
    /\ StepFrame

After(r, s) ==
    CASE s = "rewrite"     -> "find_papers"
      [] s = "find_papers" -> "fetch"
      [] s = "fetch"       -> IF r \in Deep THEN "chain" ELSE "passages"
      [] s = "chain"       -> "passages"
      [] s = "passages"    -> "read"
      [] OTHER             -> "write"

\* check_cancel, after every step up to WRITE.
CheckCancel(r, j) ==
    /\ JobAt(r, j, "check")
    /\ IF cancelKey[r] THEN JobGoes(r, j, "cancelled") /\ UNCHANGED at
       ELSE IF at[r][j] = "write" THEN JobGoes(r, j, "gather") /\ UNCHANGED at
       ELSE JobGoes(r, j, "step") /\ at' = [at EXCEPT ![r][j] = After(r, @)]
    /\ UNCHANGED <<runVars, keyVars, done, late>>

\* VERIFY || CONSENSUS: consensus only before the deadline, and with a valid draft.
Gather(r, j) ==
    /\ JobAt(r, j, "gather")
    /\ Deadline(r, j)
    /\ \/ JobGoes(r, j, "verify")
       \/ ~late'[r][j] /\ JobGoes(r, j, "both")
    /\ StepFrame /\ UNCHANGED rows

GatherStep(r, j) ==
    /\ \/ JobAt(r, j, "both") /\ Insert(r, "verify") /\ JobGoes(r, j, "consensus")
       \/ JobAt(r, j, "both") /\ Insert(r, "consensus") /\ JobGoes(r, j, "verify")
       \/ JobAt(r, j, "verify") /\ Insert(r, "verify") /\ JobGoes(r, j, "storing")
       \/ JobAt(r, j, "consensus") /\ Insert(r, "consensus") /\ JobGoes(r, j, "storing")
    /\ StepFrame /\ UNCHANGED late

\* _store: one transaction that replaces what an earlier attempt stored.
Store(r, j) ==
    /\ JobAt(r, j, "storing")
    /\ answered' = [answered EXCEPT ![r] = TRUE]
    /\ JobGoes(r, j, IF late[r][j] THEN "timed_out" ELSE "done")
    /\ UNCHANGED <<status, rows, keyVars, at, done, late>>

\* An exception in a step: a row with the error, and the run has failed.
StepFails(r, j) ==
    /\ workerUp /\ pc[r][j] \in Working
    /\ JobGoes(r, j, "failing")
    /\ StepFrame /\ UNCHANGED <<rows, late>>

RecordError(r, j) ==
    /\ JobAt(r, j, "failing") /\ JobGoes(r, j, "failed")
    /\ Insert(r, "error")
    /\ StepFrame /\ UNCHANGED late

\* _finish: the status, whatever it has become meanwhile; then the thread's summary.
Finish(r, j) ==
    /\ workerUp /\ pc[r][j] \in Final
    /\ SetStatus(r, pc[r][j])
    /\ JobGoes(r, j, "releasing")
    /\ UNCHANGED <<rows, answered, keyVars, at, done, late>>

\* finally: DEL of the lock and of the cancel flag, whoever set them.
Release(r, j) ==
    /\ JobAt(r, j, "releasing") /\ JobEnds(r, j)
    /\ lock' = [lock EXCEPT ![r] = FALSE]
    /\ cancelKey' = [cancelKey EXCEPT ![r] = FALSE]
    /\ UNCHANGED runVars

WorkerFrame == UNCHANGED <<apiVars, procVars>>

JobStep(r, j) ==
    /\ \/ DropSpent(r, j) \/ SelectRun(r, j) \/ Acquire(r, j) \/ MarkRunning(r, j)
       \/ LoadProgress(r, j) \/ PlainStep(r, j) \/ FetchCancelled(r, j) \/ ChainStep(r, j)
       \/ PassagesStep(r, j) \/ EndEmpty(r, j) \/ ReadStep(r, j) \/ CheckCancel(r, j)
       \/ Gather(r, j) \/ GatherStep(r, j) \/ Store(r, j) \/ StepFails(r, j)
       \/ RecordError(r, j) \/ Finish(r, j) \/ Release(r, j)
    /\ WorkerFrame /\ UNCHANGED budget

\* A timeout of the job, or an error outside the steps: finally still runs.
JobError(r, j) ==
    /\ workerUp /\ pc[r][j] \in Body \cup {"selected"}
    /\ Fault("jobError")
    /\ IF pc[r][j] \in Body
         THEN /\ lock' = [lock EXCEPT ![r] = FALSE]
              /\ cancelKey' = [cancelKey EXCEPT ![r] = FALSE]
         ELSE UNCHANGED keyVars
    /\ JobEnds(r, j)
    /\ UNCHANGED runVars
    /\ WorkerFrame

-----------------------------------------------------------------------------
\* Restarts of the worker.

\* arq keeps the jobs of a worker that stops; those it had started are spent.
CutOff ==
    /\ pc' = [r \in Runs |-> [j \in JobIds |->
                 IF pc[r][j] \in Body \cup {"selected"} THEN "spent" ELSE pc[r][j]]]
    /\ at' = [r \in Runs |-> [j \in JobIds |-> "rewrite"]]
    /\ done' = [r \in Runs |-> [j \in JobIds |-> {}]]
    /\ late' = [r \in Runs |-> [j \in JobIds |-> FALSE]]

\* SIGTERM: the jobs are cancelled, and their finally clauses run.
Shutdown ==
    /\ workerUp
    /\ Fault("shutdown")
    /\ workerUp' = FALSE
    /\ CutOff
    /\ lock' = [r \in Runs |-> lock[r] /\ ~InBody(r)]
    /\ cancelKey' = [r \in Runs |-> cancelKey[r] /\ ~InBody(r)]
    /\ UNCHANGED <<runVars, apiVars, restarts>>

\* The process dies: the keys stay until they expire.
Crash ==
    /\ workerUp
    /\ Fault("crash")
    /\ workerUp' = FALSE
    /\ CutOff
    /\ UNCHANGED <<runVars, keyVars, apiVars, restarts>>

\* The ttl of the lock (880 s as configured) ends before the job's time does (900 s): a job
\* that overruns it works on without a lock.
LockExpires(r) ==
    /\ lock[r]
    /\ IF InBody(r) THEN Fault("overrun") ELSE UNCHANGED budget
    /\ lock' = [lock EXCEPT ![r] = FALSE]
    /\ UNCHANGED <<runVars, cancelKey, apiVars, jobVars, procVars>>

CancelExpires(r) ==
    /\ cancelKey[r]
    /\ cancelKey' = [cancelKey EXCEPT ![r] = FALSE]
    /\ UNCHANGED <<runVars, lock, apiVars, jobVars, procVars, budget>>

RecoverSameId ==                          \* mutant of Recover: a resumed run keeps its job's id
    /\ ~workerUp
    /\ workerUp' = TRUE
    /\ restarts' = restarts + 1
    /\ pc' = [r \in Runs |-> [j \in JobIds |->
                IF j = 0 /\ pc[r][j] = "none" /\ status[r] \in Active THEN "queued"
                                                                      ELSE pc[r][j]]]
    /\ UNCHANGED <<runVars, keyVars, apiVars, at, done, late, budget>>

\* arq_worker.recover: the job of a queued run, unless it exists; a new one for a
\* run that was under way.
Recover ==
    /\ ~workerUp
    /\ workerUp' = TRUE
    /\ restarts' = restarts + 1
    /\ pc' = [r \in Runs |-> [j \in JobIds |->
                IF \/ status[r] = "queued" /\ j = 0 /\ pc[r][j] = "none"
                   \/ status[r] = "running" /\ j = restarts + 1
                THEN "queued" ELSE pc[r][j]]]
    /\ UNCHANGED <<runVars, keyVars, apiVars, at, done, late, budget>>

-----------------------------------------------------------------------------
Next ==
    \/ \E r \in Runs : \/ ApiCall(r) \/ ApiStep(r) \/ ApiCrash(r)
                       \/ LockExpires(r) \/ CancelExpires(r)
    \/ \E r \in Runs, j \in JobIds : JobStep(r, j) \/ JobError(r, j)
    \/ Shutdown \/ Crash \/ Recover

Spec == Init /\ [][Next]_vars

(***************************************************************************)
(* The worker's event loop runs every job it has started, Docker restarts  *)
(* it, and a request being handled ends.  Nobody has to ask or to cancel,  *)
(* and a key need not expire before something else happens.                *)
(***************************************************************************)
Fairness ==
    /\ WF_vars(Recover)
    /\ \A r \in Runs : WF_vars(ApiStep(r))
    /\ \A r \in Runs, j \in JobIds : WF_vars(JobStep(r, j))

FairSpec == Spec /\ Fairness
-----------------------------------------------------------------------------
\* Properties.  Some hold as long as faults of the given kinds have not happened.

Spared(kinds) == \A f \in kinds : budget[f] = Faults[f]

\* No cancel_run call read a queued run, and no two resume jobs exist for a run.
NoRace == Spared({"cancelQueued"}) /\ restarts <= 1

Live(r) == \E j \in JobIds : pc[r][j] \in Body \cup {"queued", "selected"}

(***************************************************************************)
(* A run is executed by one job at a time, and under its lock ("a duplicate*)
(* job is harmless: execute_run holds a per-run lock", arq_worker.py:184). *)
(***************************************************************************)
OneBody ==
    \A r \in Runs : /\ InBody(r) => lock[r]
                    /\ \A i, j \in JobIds : pc[r][i] \in Body /\ pc[r][j] \in Body => i = j

(***************************************************************************)
(* The questions of a thread are answered one after the other: follow_up   *)
(* answers 409 while "the previous question in this thread is still        *)
(* running", and no later step makes an earlier run active again.          *)
(***************************************************************************)
OneRunPerThread ==
    NoRace => \A r, q \in Runs :
                 ThreadOf[r] = ThreadOf[q] /\ status[r] \in Active /\ status[q] \in Active => r = q

(***************************************************************************)
(* The status a viewer was told at the end of a run is its status for good.*)
(***************************************************************************)
FinalStays ==
    [][NoRace => \A r \in Runs : status[r] \in Final => status'[r] = status[r]]_vars

(***************************************************************************)
(* A resumed run repeats no step it had completed ("keep completed steps", *)
(* RunState.load_progress): no step is recorded twice.                     *)
(***************************************************************************)
NoStepTwice == \A r \in Runs, t \in RowTypes : rows[r][t] <= 1

\* Whatever restarts, duplicate jobs and keys left behind there are, a run is executed as
\* by one job, as long as no job outlives the lock it holds.
ExecutedOnce == TypeOK /\ (Spared({"overrun"}) => OneBody /\ NoStepTwice)

(***************************************************************************)
(* A run that says it is done has its answer, or a row that says why it    *)
(* has none ("no relevant papers found", _run): its passages were none, or *)
(* none of them was left when it was resumed.  One that timed out has its  *)
(* answer.  The row of an earlier attempt does not count: load_progress    *)
(* deletes it.                                                             *)
(***************************************************************************)
DoneHasAnswer ==
    Spared({"overrun"}) =>
        \A r \in Runs : /\ status[r] = "timed_out" => answered[r]
                        /\ status[r] = "done" => answered[r] \/ rows[r]["error"] > 0

(***************************************************************************)
(* After orderly restarts a running run has a job that carries it on (runs *)
(* "left 'running' by a restart resume", arq_worker.py:183).               *)
(***************************************************************************)
RunningHasJob ==
    Spared({"crash", "jobError"}) /\ workerUp =>
        \A r \in Runs : status[r] = "running" => Live(r)

(***************************************************************************)
(* Every run starts, and every run that started ends, orderly restarts of  *)
(* the worker included.                                                    *)
(***************************************************************************)
EveryRunEnds ==
    \A r \in Runs :
        /\ status[r] = "queued" ~> \/ status[r] # "queued"
                                   \/ ~Spared({"apiCrash", "shutdown", "crash", "jobError"})
        /\ status[r] = "running" ~> status[r] \in Final \/ ~Spared({"crash", "jobError"})

(***************************************************************************)
(* "A queued run is cancelled right away" (cancel_run): it is not run.     *)
(***************************************************************************)
CancelledStays ==
    [][\A r \in Runs : status[r] = "cancelled" => status'[r] = "cancelled"]_vars

(***************************************************************************)
(* "Runs left 'running' by a restart resume from their last completed step"*)
(* (arq_worker.py:183): after any restart a running run has a job.         *)
(***************************************************************************)
RestartsResumeRuns ==
    Spared({"jobError"}) /\ workerUp => \A r \in Runs : status[r] = "running" => Live(r)

(***************************************************************************)
(* "The lock outlives the longest possible run" (run.py:670), so that "a   *)
(* duplicate job is harmless" (arq_worker.py:184): no two jobs execute one *)
(* run at a time.                                                          *)
(***************************************************************************)
DuplicatesAreHarmless ==
    \A r \in Runs, i, j \in JobIds : pc[r][i] \in Body /\ pc[r][j] \in Body => i = j
=============================================================================
