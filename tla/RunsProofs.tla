----------------------------- MODULE RunsProofs -----------------------------
(***************************************************************************)
(* Proofs about Runs, for every set of runs and threads and every budget   *)
(* of faults: its types, the mutual exclusion of the jobs of a run, that   *)
(* no completed step is repeated, that a run says it is done only when it  *)
(* has an answer, that a thread has one run at a time whose end is final,  *)
(* and that orderly restarts leave no run behind.                          *)
(***************************************************************************)
EXTENDS Runs, TLAPS

-----------------------------------------------------------------------------
\* What the helpers the actions are built from do.

\* 0 is an id of a job, and so is the number of the next restart.
LEMMA JobIdsFacts ==
  ASSUME RestartsOK
  PROVE  /\ 0 \in JobIds /\ restarts \in JobIds
         /\ ~workerUp => restarts + 1 \in JobIds
         /\ JobIds \subseteq Nat
<1>1. Faults["shutdown"] \in Nat /\ Faults["crash"] \in Nat
  BY ConstantsAssumption DEF FaultKinds
<1>2. budget["shutdown"] \in Nat /\ budget["crash"] \in Nat
  BY DEF RestartsOK, FaultKinds
<1> QED
  BY <1>1, <1>2 DEF RestartsOK, JobIds

\* Only the job that moves gets a new place.
LEMMA JobGoesAfter ==
  ASSUME JobsOK, NEW r \in Runs, NEW j \in JobIds, NEW to \in Pcs, JobGoes(r, j, to)
  PROVE  /\ pc' \in [Runs -> [JobIds -> Pcs]]
         /\ pc'[r][j] = to
         /\ \A q \in Runs, i \in JobIds : q # r \/ i # j => pc'[q][i] = pc[q][i]
BY DEF JobsOK, JobGoes

LEMMA JobEndsAfter ==
  ASSUME JobsOK, NEW r \in Runs, NEW j \in JobIds, JobEnds(r, j)
  PROVE  JobsOK' /\ JobGoes(r, j, "none")
<1>1. JobGoes(r, j, "none") /\ "none" \in Pcs
  BY DEF JobEnds, Pcs
<1>2. "rewrite" \in Steps
  BY DEF Steps
<1> QED
  BY <1>1, <1>2, JobGoesAfter DEF JobsOK, JobEnds

\* A new row of a run.
LEMMA InsertAfter ==
  ASSUME RunsOK, NEW r \in Runs, NEW t \in RowTypes, Insert(r, t)
  PROVE  /\ rows' \in [Runs -> [RowTypes -> Nat]]
         /\ rows'[r][t] = rows[r][t] + 1
         /\ \A q \in Runs, u \in RowTypes : q # r \/ u # t => rows'[q][u] = rows[q][u]
BY DEF RunsOK, Insert

LEMMA SetStatusAfter ==
  ASSUME RunsOK, NEW r \in Runs, NEW s \in Statuses, SetStatus(r, s)
  PROVE  /\ status' \in [Runs -> Statuses]
         /\ status'[r] = s
         /\ \A q \in Runs : q # r => status'[q] = status[q]
BY DEF RunsOK, SetStatus

\* A fault leaves one less of its kind.
LEMMA FaultAfter ==
  ASSUME RestartsOK, NEW f \in FaultKinds, Fault(f)
  PROVE  /\ budget' \in [FaultKinds -> Nat]
         /\ budget'[f] = budget[f] - 1 /\ budget[f] > 0
         /\ \A g \in FaultKinds : g # f => budget'[g] = budget[g]
BY DEF Fault, RestartsOK

\* past_deadline changes the flag of its own job.
LEMMA DeadlineOK ==
  ASSUME JobsOK, NEW r \in Runs, NEW j \in JobIds, Deadline(r, j)
  PROVE  late' \in [Runs -> [JobIds -> BOOLEAN]]
<1>1. late \in [Runs -> [JobIds -> BOOLEAN]]
  BY DEF JobsOK
<1>2. PICK passed \in {TRUE, late[r][j]} : late' = [late EXCEPT ![r][j] = passed]
  BY DEF Deadline
<1>3. late[r] \in [JobIds -> BOOLEAN] /\ late[r][j] \in BOOLEAN
  BY <1>1
<1>4. passed \in BOOLEAN
  BY <1>2, <1>3
<1>5. [late[r] EXCEPT ![j] = passed] \in [JobIds -> BOOLEAN]
  BY <1>3, <1>4
<1> QED
  BY <1>1, <1>2, <1>5

\* What a step leaves alone keeps its type.
LEMMA FramesOK ==
  ASSUME TypeOK
  PROVE  /\ UNCHANGED runVars => RunsOK'
         /\ UNCHANGED keyVars => KeysOK'
         /\ UNCHANGED apiVars => ApiOK'
         /\ UNCHANGED jobVars => JobsOK'
         /\ UNCHANGED <<procVars, budget>> => RestartsOK'
<1>1. UNCHANGED runVars => RunsOK'
  BY DEF TypeOK, RunsOK, runVars
<1>2. UNCHANGED keyVars => KeysOK'
  BY DEF TypeOK, KeysOK, keyVars
<1>3. UNCHANGED apiVars => ApiOK'
  BY DEF TypeOK, ApiOK, apiVars
<1>4. UNCHANGED jobVars => JobsOK'
  BY DEF TypeOK, JobsOK, jobVars
<1>5. UNCHANGED <<procVars, budget>> => RestartsOK'
  BY DEF TypeOK, RestartsOK, procVars
<1> QED
  BY <1>1, <1>2, <1>3, <1>4, <1>5

(***************************************************************************)
(* What a step of a job can do to its place: it stays out of the body or   *)
(* in it, or it enters by taking the lock, or it leaves by freeing it.     *)
(***************************************************************************)
Enters(r, j)  == pc[r][j] = "selected" /\ ~lock[r] /\ lock' = [lock EXCEPT ![r] = TRUE]
Leaves(r, j)  == /\ pc[r][j] \in Body /\ pc'[r][j] = "none"
                 /\ lock' = [lock EXCEPT ![r] = FALSE]
                 /\ cancelKey' = [cancelKey EXCEPT ![r] = FALSE]
Outside(r, j) == /\ pc[r][j] \notin Body /\ pc'[r][j] \notin Body
                 /\ lock' = lock \/ (lock[r] /\ lock' = [lock EXCEPT ![r] = TRUE])
Inside(r, j)  == pc[r][j] \in Body /\ pc'[r][j] \in Body /\ lock' = lock

Moves(r, j) ==
    /\ \E to \in Pcs : JobGoes(r, j, to)
    /\ \/ Enters(r, j) /\ UNCHANGED cancelKey
       \/ Leaves(r, j)
       \/ Outside(r, j) /\ UNCHANGED cancelKey
       \/ Inside(r, j) /\ UNCHANGED cancelKey

LEMMA JobStepMoves ==
  ASSUME TypeOK, NEW r \in Runs, NEW j \in JobIds, JobStep(r, j) \/ JobError(r, j)
  PROVE  Moves(r, j)
<1>0. JobsOK
  BY DEF TypeOK
<1>1. \A to \in Pcs : JobGoes(r, j, to) => pc'[r][j] = to
  BY <1>0, JobGoesAfter
<1>2. ASSUME NEW from \in Body, NEW to \in Body, pc[r][j] = from, JobGoes(r, j, to),
             UNCHANGED keyVars
      PROVE  Moves(r, j)
  BY <1>1, <1>2 DEF Moves, Inside, keyVars, Pcs
<1>3. ASSUME NEW from \in Pcs \ Body, NEW to \in Pcs \ Body, pc[r][j] = from,
             JobGoes(r, j, to), UNCHANGED keyVars
      PROVE  Moves(r, j)
  BY <1>1, <1>3 DEF Moves, Outside, keyVars
<1>4. CASE DropSpent(r, j) \/ SelectRun(r, j)
  BY <1>3, <1>4 DEF DropSpent, SelectRun, JobAt, Pcs, Body, Working, Final
<1>5. CASE Acquire(r, j)
  <2>1. CASE lock[r]
    BY <1>1, <1>5, <2>1 DEF Acquire, JobAt, Moves, Outside, Pcs, Body, Working, Final
  <2>2. CASE ~lock[r]
    BY <1>1, <1>5, <2>2 DEF Acquire, JobAt, Moves, Enters, Pcs, Body, Working, Final
  <2> QED
    BY <2>1, <2>2
<1>6. CASE MarkRunning(r, j) \/ LoadProgress(r, j) \/ PlainStep(r, j) \/ FetchCancelled(r, j)
  BY <1>2, <1>6 DEF MarkRunning, LoadProgress, PlainStep, FetchCancelled, AtStep, StepFrame,
                    JobAt, Body, Working, Final
<1>7. CASE ChainStep(r, j) \/ PassagesStep(r, j) \/ EndEmpty(r, j) \/ ReadStep(r, j)
  BY <1>2, <1>7 DEF ChainStep, PassagesStep, EndEmpty, ReadStep, AtStep, StepFrame, JobAt,
                    Body, Working, Final
<1>8. CASE CheckCancel(r, j) \/ Gather(r, j) \/ GatherStep(r, j)
  BY <1>2, <1>8 DEF CheckCancel, Gather, GatherStep, StepFrame, JobAt, Body, Working, Final
<1>9. CASE Store(r, j) \/ RecordError(r, j)
  BY <1>2, <1>9 DEF Store, RecordError, StepFrame, JobAt, Body, Working, Final
<1>10. CASE StepFails(r, j) \/ Finish(r, j)
  BY <1>2, <1>10 DEF StepFails, Finish, StepFrame, Body
<1>11. CASE Release(r, j)
  BY <1>1, <1>11 DEF Release, JobEnds, JobAt, Moves, Leaves, Pcs, Body
<1>12. CASE JobError(r, j)
  <2>1. CASE pc[r][j] \in Body
    BY <1>1, <1>12, <2>1 DEF JobError, JobEnds, Moves, Leaves, Pcs
  <2>2. CASE pc[r][j] \notin Body
    BY <1>3, <1>12, <2>2 DEF JobError, JobEnds, Pcs, Body, Working, Final
  <2> QED
    BY <2>1, <2>2
<1> QED
  BY <1>4, <1>5, <1>6, <1>7, <1>8, <1>9, <1>10, <1>11, <1>12 DEF JobStep

-----------------------------------------------------------------------------
\* Types.

LEMMA JobStepTyping ==
  ASSUME TypeOK, NEW r \in Runs, NEW j \in JobIds, JobStep(r, j) \/ JobError(r, j)
  PROVE  RunsOK' /\ KeysOK' /\ JobsOK'
<1>0. RunsOK /\ KeysOK /\ JobsOK
  BY DEF TypeOK
<1>1. PICK to \in Pcs : JobGoes(r, j, to)
  BY JobStepMoves DEF Moves
<1>2. pc' \in [Runs -> [JobIds -> Pcs]]
  BY <1>0, <1>1, JobGoesAfter
<1>3. KeysOK'
  BY <1>0, JobStepMoves DEF Moves, Enters, Leaves, Outside, Inside, KeysOK
<1>4. \A t \in RowTypes : Insert(r, t) => rows' \in [Runs -> [RowTypes -> Nat]]
  BY <1>0, InsertAfter
<1>5. \A s \in Statuses : SetStatus(r, s) => status' \in [Runs -> Statuses]
  BY <1>0, SetStatusAfter
<1>6. Deadline(r, j) => late' \in [Runs -> [JobIds -> BOOLEAN]]
  BY <1>0, DeadlineOK
<1>7. CASE DropSpent(r, j) \/ SelectRun(r, j) \/ Acquire(r, j)
  BY <1>0, <1>2, <1>3, <1>7 DEF DropSpent, SelectRun, Acquire, RunsOK, JobsOK, runVars
<1>8. CASE MarkRunning(r, j)
  BY <1>0, <1>2, <1>3, <1>5, <1>8 DEF MarkRunning, RunsOK, JobsOK, Statuses, Active
<1>9. CASE LoadProgress(r, j)
  <2>1. rows' \in [Runs -> [RowTypes -> Nat]]
    BY <1>0, <1>9 DEF LoadProgress, RunsOK
  <2>2. at' \in [Runs -> [JobIds -> Steps]]
    BY <1>0, <1>9 DEF LoadProgress, JobsOK, Steps
  <2>3. done' \in [Runs -> [JobIds -> SUBSET RowTypes]]
    BY <1>0, <1>9 DEF LoadProgress, JobsOK, Recorded
  <2>4. late' \in [Runs -> [JobIds -> BOOLEAN]]
    BY <1>0, <1>9 DEF LoadProgress, JobsOK
  <2> QED
    BY <1>0, <1>2, <1>3, <1>9, <2>1, <2>2, <2>3, <2>4 DEF LoadProgress, RunsOK, JobsOK
<1>10. CASE PlainStep(r, j) \/ FetchCancelled(r, j) \/ PassagesStep(r, j) \/ EndEmpty(r, j)
  BY <1>0, <1>2, <1>3, <1>4, <1>10
  DEF PlainStep, FetchCancelled, PassagesStep, EndEmpty, StepFrame, RunsOK, JobsOK, RowTypes, Steps
<1>11. CASE ChainStep(r, j) \/ ReadStep(r, j)
  BY <1>0, <1>2, <1>3, <1>4, <1>6, <1>11
  DEF ChainStep, ReadStep, StepFrame, RunsOK, JobsOK, RowTypes, Steps
<1>12. CASE CheckCancel(r, j)
  <2>1. After(r, at[r][j]) \in Steps
    BY DEF After, Steps
  <2>2. at \in [Runs -> [JobIds -> Steps]]
    BY <1>0 DEF JobsOK
  <2>3. at' = at \/ at' = [at EXCEPT ![r][j] = After(r, at[r][j])]
    BY <1>12, <2>2 DEF CheckCancel
  <2>4. at' \in [Runs -> [JobIds -> Steps]]
    BY <2>1, <2>2, <2>3
  <2> QED
    BY <1>0, <1>2, <1>3, <1>12, <2>4 DEF CheckCancel, RunsOK, JobsOK, runVars
<1>13. CASE Gather(r, j)
  BY <1>0, <1>2, <1>3, <1>6, <1>13 DEF Gather, StepFrame, RunsOK, JobsOK
<1>14. CASE GatherStep(r, j) \/ StepFails(r, j) \/ RecordError(r, j)
  BY <1>0, <1>2, <1>3, <1>4, <1>14
  DEF GatherStep, StepFails, RecordError, StepFrame, RunsOK, JobsOK, RowTypes
<1>15. CASE Store(r, j)
  BY <1>0, <1>2, <1>3, <1>15 DEF Store, RunsOK, JobsOK
<1>16. CASE Finish(r, j)
  BY <1>0, <1>2, <1>3, <1>5, <1>16 DEF Finish, RunsOK, JobsOK, Statuses
<1>17. CASE Release(r, j) \/ JobError(r, j)
  BY <1>0, <1>3, <1>17, JobEndsAfter DEF Release, JobError, RunsOK, runVars
<1> QED
  BY <1>7, <1>8, <1>9, <1>10, <1>11, <1>12, <1>13, <1>14, <1>15, <1>16, <1>17 DEF JobStep

LEMMA ApiTyping ==
  ASSUME TypeOK, NEW r \in Runs, ApiCall(r) \/ ApiStep(r) \/ ApiCrash(r)
  PROVE  TypeOK'
<1>0. RunsOK /\ KeysOK /\ ApiOK /\ JobsOK /\ RestartsOK
  BY DEF TypeOK
<1>1. \A s \in Statuses : SetStatus(r, s) => status' \in [Runs -> Statuses]
  BY <1>0, SetStatusAfter
<1>2. RunsOK'
  BY <1>0, <1>1 DEF ApiCall, ApiStep, ApiCrash, Ask, CancelRead, Enqueue, CancelQueued, CancelFlag,
                    RunsOK, runVars, Statuses, Active, Final
<1>3. KeysOK'
  BY <1>0 DEF ApiCall, ApiStep, ApiCrash, Enqueue, CancelQueued, CancelFlag, KeysOK, keyVars
<1>4. ApiOK'
  BY <1>0 DEF ApiCall, ApiStep, ApiCrash, Ask, CancelRead, Enqueue, CancelQueued, CancelFlag, ApiOK
<1>5. JobsOK'
  <2>1. CASE Enqueue(r)
    <3>1. 0 \in JobIds /\ "queued" \in Pcs
      BY <1>0, JobIdsFacts DEF Pcs
    <3>2. pc' \in [Runs -> [JobIds -> Pcs]]
      BY <1>0, <2>1, <3>1 DEF Enqueue, JobsOK
    <3> QED
      BY <1>0, <2>1, <3>2 DEF Enqueue, JobsOK
  <2>2. CASE UNCHANGED jobVars
    BY <2>2, FramesOK
  <2> QED
    BY <2>1, <2>2 DEF ApiCall, ApiStep, ApiCrash
<1>6. RestartsOK'
  <2>1. UNCHANGED procVars
    BY DEF ApiCall, ApiStep, ApiCrash
  <2>2. CASE UNCHANGED budget
    BY <2>1, <2>2, FramesOK
  <2>3. CASE Fault("cancelQueued")
    BY <1>0, <2>1, <2>3, FaultAfter DEF RestartsOK, FaultKinds, procVars
  <2>4. CASE Fault("apiCrash")
    BY <1>0, <2>1, <2>4, FaultAfter DEF RestartsOK, FaultKinds, procVars
  <2> QED
    BY <2>2, <2>3, <2>4 DEF ApiCall, ApiStep, ApiCrash, CancelRead
<1> QED
  BY <1>2, <1>3, <1>4, <1>5, <1>6 DEF TypeOK

\* A worker that stops leaves well-typed jobs outside the body.
LEMMA CutOffAfter ==
  ASSUME JobsOK, CutOff
  PROVE  /\ JobsOK'
         /\ \A r \in Runs, j \in JobIds :
               /\ pc'[r][j] \in {"none", "queued", "spent"}
               /\ pc'[r][j] # "spent" => pc'[r][j] = pc[r][j]
BY DEF JobsOK, CutOff, Pcs, Steps

LEMMA RecoverAfter ==
  ASSUME JobsOK, RestartsOK, Recover
  PROVE  /\ JobsOK'
         /\ \A r \in Runs, j \in JobIds : pc'[r][j] = pc[r][j] \/ pc'[r][j] = "queued"
BY DEF JobsOK, Recover, Pcs

LEMMA RestartTyping ==
  ASSUME TypeOK, Shutdown \/ Crash \/ Recover
  PROVE  TypeOK'
<1>0. RunsOK /\ KeysOK /\ ApiOK /\ JobsOK /\ RestartsOK
  BY DEF TypeOK
<1>1. RunsOK' /\ ApiOK'
  BY FramesOK DEF Shutdown, Crash, Recover
<1>2. KeysOK'
  BY <1>0 DEF Shutdown, Crash, Recover, KeysOK, keyVars
<1>3. JobsOK'
  BY <1>0, CutOffAfter, RecoverAfter DEF Shutdown, Crash
<1>4. RestartsOK'
  <2>1. /\ "shutdown" \in FaultKinds /\ "crash" \in FaultKinds
        /\ budget["shutdown"] \in Nat /\ budget["crash"] \in Nat /\ restarts \in Nat
    BY <1>0 DEF RestartsOK, FaultKinds
  <2>2. ASSUME NEW f \in {"shutdown", "crash"}, Fault(f), workerUp, ~workerUp',
               UNCHANGED restarts
        PROVE  RestartsOK'
    <3>1. f \in FaultKinds
      BY <2>1
    <3>2. /\ budget' \in [FaultKinds -> Nat]
          /\ budget'[f] = budget[f] - 1
          /\ \A g \in FaultKinds : g # f => budget'[g] = budget[g]
      BY <1>0, <2>2, <3>1, FaultAfter
    <3>3. /\ Faults["shutdown"] + Faults["crash"] \in Nat
          /\ budget["shutdown"] + budget["crash"] + restarts = Faults["shutdown"] + Faults["crash"]
      BY <1>0, <2>1, <2>2, ConstantsAssumption DEF RestartsOK, FaultKinds
    <3>4. budget'["shutdown"] + budget'["crash"] = budget["shutdown"] + budget["crash"] - 1
      BY <2>1, <2>2, <3>2
    <3>5. /\ workerUp' = FALSE /\ restarts' = restarts
          /\ budget'["shutdown"] \in Nat /\ budget'["crash"] \in Nat
      BY <1>0, <2>1, <2>2, <3>2 DEF RestartsOK
    <3>6. budget'["shutdown"] + budget'["crash"] + restarts' + 1
             = Faults["shutdown"] + Faults["crash"]
      BY <2>1, <3>3, <3>4, <3>5
    <3> QED
      BY <2>1, <3>2, <3>5, <3>6 DEF RestartsOK
  <2>3. CASE Shutdown
    BY <2>2, <2>3 DEF Shutdown
  <2>5. CASE Crash
    BY <2>2, <2>5 DEF Crash
  <2>4. CASE Recover
    BY <1>0, <2>1, <2>4 DEF Recover, RestartsOK
  <2> QED
    BY <2>3, <2>4, <2>5
<1> QED
  BY <1>1, <1>2, <1>3, <1>4 DEF TypeOK

LEMMA StepTyping ==
  ASSUME TypeOK, [Next]_vars
  PROVE  TypeOK'
<1>1. CASE \E r \in Runs : ApiCall(r) \/ ApiStep(r) \/ ApiCrash(r)
  BY <1>1, ApiTyping
<1>2. ASSUME NEW r \in Runs, LockExpires(r) \/ CancelExpires(r)
      PROVE  TypeOK'
  <2>1. KeysOK'
    BY <1>2 DEF LockExpires, CancelExpires, KeysOK, TypeOK
  <2>2. RestartsOK'
    <3>1. UNCHANGED procVars
      BY <1>2 DEF LockExpires, CancelExpires
    <3>2. CASE UNCHANGED budget
      BY <3>1, <3>2, FramesOK
    <3>3. CASE Fault("overrun")
      BY <3>1, <3>3, FaultAfter DEF RestartsOK, FaultKinds, procVars, TypeOK
    <3> QED
      BY <1>2, <3>2, <3>3 DEF LockExpires, CancelExpires
  <2> QED
    BY <1>2, <2>1, <2>2, FramesOK DEF LockExpires, CancelExpires, TypeOK
<1>3. ASSUME NEW r \in Runs, NEW j \in JobIds, JobStep(r, j) \/ JobError(r, j)
      PROVE  TypeOK'
  <2>1. RunsOK' /\ KeysOK' /\ JobsOK'
    BY <1>3, JobStepTyping
  <2>2. ApiOK' /\ UNCHANGED procVars
    BY <1>3, FramesOK DEF JobStep, JobError, WorkerFrame
  <2>3. RestartsOK'
    <3>1. CASE UNCHANGED budget
      BY <2>2, <3>1, FramesOK
    <3>2. CASE Fault("jobError")
      BY <2>2, <3>2, FaultAfter DEF RestartsOK, FaultKinds, procVars, TypeOK
    <3> QED
      BY <1>3, <3>1, <3>2 DEF JobStep, JobError
  <2> QED
    BY <2>1, <2>2, <2>3 DEF TypeOK
<1>4. CASE Shutdown \/ Crash \/ Recover
  BY <1>4, RestartTyping
<1>5. CASE UNCHANGED vars
  BY <1>5, FramesOK DEF vars, TypeOK
<1> QED
  BY <1>1, <1>2, <1>3, <1>4, <1>5 DEF Next

(***************************************************************************)
(* Every reachable state is well typed; in particular the worker has been  *)
(* restarted as often as it stopped, so a resume job's id is always new.   *)
(***************************************************************************)
THEOREM Typing == Spec => []TypeOK
<1>1. Init => TypeOK
  <2>1. Faults["shutdown"] \in Nat /\ Faults["crash"] \in Nat
    BY ConstantsAssumption DEF FaultKinds
  <2> QED
    BY <2>1, ConstantsAssumption
    DEF Init, TypeOK, RunsOK, KeysOK, ApiOK, JobsOK, RestartsOK, Statuses, Steps, Pcs
<1>2. TypeOK /\ [Next]_vars => TypeOK'
  BY StepTyping
<1> QED
  BY <1>1, <1>2, PTL DEF Spec

-----------------------------------------------------------------------------
\* Faults are spent, never regained.

Spent == \A f \in FaultKinds : budget[f] <= Faults[f]

LEMMA SpentStep ==
  ASSUME TypeOK, Spent, [Next]_vars
  PROVE  /\ Spent'
         /\ \A f \in FaultKinds : budget'[f] = Faults[f] => budget[f] = Faults[f] /\ ~Fault(f)
<1>1. budget \in [FaultKinds -> Nat] /\ Faults \in [FaultKinds -> Nat]
  BY ConstantsAssumption DEF TypeOK, RestartsOK
<1>2. budget' = budget \/ \E k \in FaultKinds : Fault(k)
  BY DEF Next, vars, ApiCall, ApiStep, ApiCrash, CancelRead, LockExpires, CancelExpires, JobStep, JobError,
         Shutdown, Crash, Recover, FaultKinds
<1>3. CASE budget' = budget
  BY <1>1, <1>3 DEF Spent, Fault
<1>4. ASSUME NEW k \in FaultKinds, Fault(k)
      PROVE  /\ Spent'
             /\ \A f \in FaultKinds : budget'[f] = Faults[f] => budget[f] = Faults[f] /\ ~Fault(f)
  <2>1. budget' = [budget EXCEPT ![k] = budget[k] - 1] /\ budget[k] > 0
    BY <1>4 DEF Fault
  <2>2. \A f \in FaultKinds : budget'[f] = IF f = k THEN budget[f] - 1 ELSE budget[f]
    BY <1>1, <2>1
  <2>3. \A f \in FaultKinds : budget[f] \in Nat /\ Faults[f] \in Nat /\ budget[f] <= Faults[f]
    BY <1>1 DEF Spent
  <2>4. \A f \in FaultKinds : Fault(f) => budget'[f] = budget[f] - 1
    BY <1>1 DEF Fault
  <2> QED
    BY <2>2, <2>3, <2>4 DEF Spent
<1> QED
  BY <1>2, <1>3, <1>4

LEMMA SpentAlways == Spec => [](TypeOK /\ Spent)
<1>1. Init => Spent
  BY ConstantsAssumption DEF Init, Spent
<1>2. TypeOK /\ Spent /\ [Next]_vars => Spent'
  BY SpentStep
<1> QED
  BY <1>1, <1>2, Typing, PTL DEF Spec

\* No job has outlived its lock.
InTime == Spared({"overrun"})

LEMMA InTimeBefore ==
  ASSUME TypeOK, Spent, [Next]_vars, InTime'
  PROVE  InTime /\ ~Fault("overrun")
BY SpentStep DEF InTime, Spared, FaultKinds

-----------------------------------------------------------------------------
\* Mutual exclusion.

LEMMA OneBodyStep ==
  ASSUME TypeOK, OneBody, [Next]_vars, ~Fault("overrun")
  PROVE  OneBody'
<1>0. JobsOK /\ KeysOK /\ RestartsOK
  BY DEF TypeOK
<1>1. ASSUME UNCHANGED <<pc, lock>>
      PROVE  OneBody'
  BY <1>1 DEF OneBody, InBody
<1>2. ASSUME UNCHANGED lock,
             \A q \in Runs, i \in JobIds : pc'[q][i] \in Body => pc[q][i] \in Body
      PROVE  OneBody'
  BY <1>2 DEF OneBody, InBody
<1>3. ASSUME NEW r \in Runs, NEW j \in JobIds, JobStep(r, j) \/ JobError(r, j)
      PROVE  OneBody'
  <2>0. Moves(r, j)
    BY <1>3, JobStepMoves
  <2>1. \A q \in Runs, i \in JobIds : q # r \/ i # j => pc'[q][i] = pc[q][i]
    BY <1>0, <2>0, JobGoesAfter DEF Moves
  <2>2. CASE Enters(r, j)
    BY <1>0, <2>1, <2>2 DEF Enters, OneBody, InBody, KeysOK
  <2>3. CASE Leaves(r, j)
    <3>1. "none" \notin Body
      BY DEF Body, Working, Final
    <3> QED
      BY <1>0, <2>1, <2>3, <3>1 DEF Leaves, OneBody, InBody, KeysOK
  <2>4. CASE Outside(r, j)
    BY <1>0, <2>1, <2>4 DEF Outside, OneBody, InBody, KeysOK
  <2>5. CASE Inside(r, j)
    BY <1>2, <2>1, <2>5 DEF Inside
  <2> QED
    BY <2>0, <2>2, <2>3, <2>4, <2>5 DEF Moves
<1>4. ASSUME NEW r \in Runs, ApiCall(r) \/ ApiStep(r) \/ ApiCrash(r)
      PROVE  OneBody'
  <2>1. CASE Enqueue(r)
    <3>1. UNCHANGED lock
      BY <1>4 DEF ApiCall, ApiStep, ApiCrash, keyVars
    <3>2. "queued" \notin Body
      BY DEF Body, Working, Final
    <3>3. \A q \in Runs, i \in JobIds : pc'[q][i] \in Body => pc[q][i] \in Body
      BY <1>0, <2>1, <3>2 DEF Enqueue, JobsOK
    <3> QED
      BY <1>2, <3>1, <3>3
  <2>2. CASE UNCHANGED <<pc, lock>>
    BY <1>1, <2>2
  <2> QED
    BY <1>4, <2>1, <2>2 DEF ApiCall, ApiStep, ApiCrash, keyVars, jobVars
<1>5. ASSUME NEW r \in Runs, LockExpires(r) \/ CancelExpires(r)
      PROVE  OneBody'
  BY <1>0, <1>5 DEF LockExpires, CancelExpires, OneBody, InBody, KeysOK, jobVars
<1>6. CASE Shutdown \/ Crash
  <2>1. \A q \in Runs, i \in JobIds : pc'[q][i] \notin Body
    BY <1>0, <1>6, CutOffAfter DEF Shutdown, Crash, Body, Working, Final
  <2> QED
    BY <2>1 DEF OneBody, InBody
<1>7. CASE Recover
  <2>1. \A q \in Runs, i \in JobIds : pc'[q][i] \in Body => pc[q][i] \in Body
    BY <1>0, <1>7, RecoverAfter DEF Body, Working, Final
  <2> QED
    BY <1>2, <1>7, <2>1 DEF Recover, keyVars
<1>8. CASE UNCHANGED vars
  BY <1>1, <1>8 DEF vars, keyVars, jobVars
<1> QED
  BY <1>3, <1>4, <1>5, <1>6, <1>7, <1>8 DEF Next

(***************************************************************************)
(* However many jobs restarts give a run, one of them at a time executes   *)
(* it, and it holds the lock, until a job outlives the ttl of its lock.    *)
(***************************************************************************)
THEOREM MutualExclusion == Spec => [](Spared({"overrun"}) => OneBody)
<1>1. Init => OneBody
  BY DEF Init, OneBody, InBody, Body, Working, Final
<1>2. TypeOK /\ Spent /\ (InTime => OneBody) /\ [Next]_vars => (InTime => OneBody)'
  BY InTimeBefore, OneBodyStep
<1> QED
  BY <1>1, <1>2, SpentAlways, PTL DEF Spec, InTime

-----------------------------------------------------------------------------
\* What a job may still record.

\* The place in the pipeline of the step a row is of; both endings of a step share it.
Rank == [t \in RowTypes \ Redone |->
            CASE t = "rewrite"                      -> 0
              [] t = "find_papers"                  -> 1
              [] t = "fetch"                        -> 2
              [] t = "chain"                        -> 3
              [] t \in {"passages", "no_passages"}  -> 4
              [] t \in {"read", "read_skipped"}     -> 5
              [] OTHER                              -> 6]

\* The rows of steps from a place on that the job did not find when it started.
Ahead(place, found) == {t \in RowTypes \ Redone : t \notin found /\ Rank[t] >= place}

MayRecord(from, step, found) ==
    CASE from = "step"                        -> Ahead(Rank[step], found) \cup Redone
      [] from = "check"                       -> Ahead(Rank[step] + 1, found) \cup Redone
      [] from \in {"gather", "empty", "both"} -> Redone
      [] from = "verify"                      -> {"verify", "error"}
      [] from = "consensus"                   -> {"consensus", "error"}
      [] from \in {"storing", "failing"}      -> {"error"}
      [] OTHER                                -> {}

ToRecord(r, j) == MayRecord(pc[r][j], at[r][j], done[r][j])

\* Inductive: what a job may still record is not recorded.
Unrecorded == \A r \in Runs, j \in JobIds : \A t \in ToRecord(r, j) : rows[r][t] = 0

LEMMA RankFacts ==
  /\ Rank["rewrite"] = 0 /\ Rank["find_papers"] = 1 /\ Rank["fetch"] = 2 /\ Rank["chain"] = 3
  /\ Rank["passages"] = 4 /\ Rank["no_passages"] = 4
  /\ Rank["read"] = 5 /\ Rank["read_skipped"] = 5 /\ Rank["write"] = 6
  /\ \A t \in RowTypes \ Redone : Rank[t] \in Nat
BY DEF Rank, RowTypes, Redone, Steps

\* MayRecord, one place at a time.
LEMMA MayRecordFacts ==
  ASSUME NEW step, NEW found
  PROVE  /\ MayRecord("step", step, found) = Ahead(Rank[step], found) \cup Redone
         /\ MayRecord("check", step, found) = Ahead(Rank[step] + 1, found) \cup Redone
         /\ \A from \in {"gather", "empty", "both"} : MayRecord(from, step, found) = Redone
         /\ MayRecord("verify", step, found) = {"verify", "error"}
         /\ MayRecord("consensus", step, found) = {"consensus", "error"}
         /\ \A from \in {"storing", "failing"} : MayRecord(from, step, found) = {"error"}
         /\ \A from \in Pcs \ (Working \cup {"failing"}) : MayRecord(from, step, found) = {}
BY DEF MayRecord, Pcs, Body, Working, Final

LEMMA MayRecordTypes ==
  ASSUME NEW from \in Pcs, NEW step, NEW found
  PROVE  /\ MayRecord(from, step, found) \subseteq RowTypes
         /\ from \in Working \cup {"failing"} => "error" \in MayRecord(from, step, found)
         /\ from \notin Body => MayRecord(from, step, found) = {}
<1>1. Redone \subseteq RowTypes /\ \A place : Ahead(place, found) \subseteq RowTypes
  BY DEF Redone, RowTypes, Ahead
<1>2. CASE from \in {"step", "check"}
  BY <1>1, <1>2, MayRecordFacts DEF Redone, Body, Working
<1>3. CASE from \in {"gather", "empty", "both"}
  BY <1>1, <1>3, MayRecordFacts DEF Redone, Body, Working
<1>4. CASE from \in {"verify", "consensus", "storing", "failing"}
  BY <1>4, MayRecordFacts DEF RowTypes, Body, Working
<1>5. CASE from \in Pcs \ (Working \cup {"failing"})
  BY <1>5, MayRecordFacts
<1> QED
  BY <1>2, <1>3, <1>4, <1>5 DEF Working

\* A step that is done is behind the job.
LEMMA AheadShrinks ==
  ASSUME NEW step \in Steps, NEW found,
         NEW place, place \in Nat, place > Rank[step]
  PROVE  /\ Ahead(place, found) \subseteq Ahead(Rank[step], found)
         /\ \A t \in RowTypes \ Redone :
               /\ Rank[t] = Rank[step] => t \notin Ahead(place, found)
               /\ Rank[t] = Rank[step] /\ t \notin found => t \in Ahead(Rank[step], found)
<1>1. step \in RowTypes \ Redone
  BY DEF Steps, RowTypes, Redone
<1>2. Rank[step] \in Nat /\ \A t \in RowTypes \ Redone : Rank[t] \in Nat
  BY <1>1, RankFacts
<1> QED
  BY <1>2 DEF Ahead

(***************************************************************************)
(* A step of a job records nothing or one of the rows it may still record, *)
(* and what it may record afterwards is less; or it loads the progress.    *)
(***************************************************************************)
Silent(r, j)     == UNCHANGED rows /\ ToRecord(r, j)' \subseteq ToRecord(r, j)
Records(r, j, t) == /\ t \in ToRecord(r, j) /\ Insert(r, t)
                    /\ ToRecord(r, j)' \subseteq ToRecord(r, j) \ {t}

\* The locals of a job are its own.
LEMMA LocalsAfter ==
  ASSUME TypeOK, NEW r \in Runs, NEW j \in JobIds, JobStep(r, j) \/ JobError(r, j)
  PROVE  \A q \in Runs, i \in JobIds : q # r \/ i # j =>
            ToRecord(q, i)' = ToRecord(q, i)
<1>0. JobsOK
  BY DEF TypeOK
<1>1. \A q \in Runs, i \in JobIds : q # r \/ i # j => pc'[q][i] = pc[q][i]
  BY <1>0, JobStepMoves, JobGoesAfter DEF Moves
<1>2. \A q \in Runs, i \in JobIds : q # r \/ i # j => at'[q][i] = at[q][i]
  <2>1. \/ UNCHANGED at
        \/ \E v : at' = [at EXCEPT ![r][j] = v]
    BY DEF JobStep, JobError, DropSpent, SelectRun, Acquire, MarkRunning, LoadProgress, PlainStep,
           FetchCancelled, ChainStep, PassagesStep, EndEmpty, ReadStep, CheckCancel, Gather,
           GatherStep, Store, StepFails, RecordError, Finish, Release, JobEnds, StepFrame
  <2> QED
    BY <1>0, <2>1 DEF JobsOK
<1>3. \A q \in Runs, i \in JobIds : q # r \/ i # j => done'[q][i] = done[q][i]
  <2>1. \/ UNCHANGED done
        \/ \E v : done' = [done EXCEPT ![r][j] = v]
    BY DEF JobStep, JobError, DropSpent, SelectRun, Acquire, MarkRunning, LoadProgress, PlainStep,
           FetchCancelled, ChainStep, PassagesStep, EndEmpty, ReadStep, CheckCancel, Gather,
           GatherStep, Store, StepFails, RecordError, Finish, Release, JobEnds, StepFrame
  <2> QED
    BY <1>0, <2>1 DEF JobsOK
<1> QED
  BY <1>1, <1>2, <1>3 DEF ToRecord

LEMMA JobStepRecords ==
  ASSUME TypeOK, NEW r \in Runs, NEW j \in JobIds, JobStep(r, j) \/ JobError(r, j)
  PROVE  \/ Silent(r, j)
         \/ pc[r][j] \in Body /\ \E t \in RowTypes : Records(r, j, t)
         \/ pc[r][j] \in Body /\ LoadProgress(r, j)
<1>0. JobsOK /\ at[r][j] \in Steps /\ pc[r][j] \in Pcs
  BY DEF TypeOK, JobsOK
<1>1. PICK to \in Pcs : JobGoes(r, j, to) /\ pc'[r][j] = to
  BY <1>0, JobStepMoves, JobGoesAfter DEF Moves
<1>2. ASSUME UNCHANGED rows, to \notin Working \cup {"failing"}
      PROVE  Silent(r, j)
  BY <1>1, <1>2, MayRecordFacts DEF Silent, ToRecord
<1>3. \A s \in Steps : Rank[s] \in Nat /\ s \in RowTypes \ Redone
  BY RankFacts DEF Steps, RowTypes, Redone
<1>4. ASSUME NEW s \in Steps, NEW t \in RowTypes \ Redone, AtStep(r, j, s), to = "check",
             UNCHANGED <<at, done>>, Insert(r, t), t \notin done[r][j], Rank[t] = Rank[s]
      PROVE  Records(r, j, t)
  <2>1. ToRecord(r, j) = Ahead(Rank[s], done[r][j]) \cup Redone
    BY <1>4, MayRecordFacts DEF AtStep, JobAt, ToRecord
  <2>2. ToRecord(r, j)' = Ahead(Rank[s] + 1, done[r][j]) \cup Redone
    BY <1>1, <1>4, MayRecordFacts DEF AtStep, JobAt, ToRecord
  <2>3. Rank[s] + 1 \in Nat /\ Rank[s] + 1 > Rank[s]
    BY <1>3
  <2>4. /\ Ahead(Rank[s] + 1, done[r][j]) \subseteq Ahead(Rank[s], done[r][j])
        /\ t \notin Ahead(Rank[s] + 1, done[r][j])
        /\ t \in Ahead(Rank[s], done[r][j])
    BY <1>4, <2>3, AheadShrinks
  <2> QED
    BY <1>4, <2>1, <2>2, <2>4 DEF Records
<1>5. ASSUME NEW s \in Steps, AtStep(r, j, s), to = "check", UNCHANGED <<at, done, rows>>
      PROVE  Silent(r, j)
  <2>1. ToRecord(r, j) = Ahead(Rank[s], done[r][j]) \cup Redone
    BY <1>5, MayRecordFacts DEF AtStep, JobAt, ToRecord
  <2>2. ToRecord(r, j)' = Ahead(Rank[s] + 1, done[r][j]) \cup Redone
    BY <1>1, <1>5, MayRecordFacts DEF AtStep, JobAt, ToRecord
  <2> QED
    BY <1>3, <1>5, <2>1, <2>2, AheadShrinks DEF Silent
<1>6. CASE DropSpent(r, j) \/ SelectRun(r, j) \/ Acquire(r, j) \/ MarkRunning(r, j)
  <2>1. UNCHANGED rows
    BY <1>6 DEF DropSpent, SelectRun, Acquire, MarkRunning, runVars
  <2>2. pc'[r][j] \in {"none", "selected", "locked", "loading"}
    BY <1>0, <1>6, JobGoesAfter DEF DropSpent, SelectRun, Acquire, MarkRunning, Pcs, Body
  <2> QED
    BY <1>1, <1>2, <2>1, <2>2 DEF Working
<1>7. CASE LoadProgress(r, j)
  BY <1>7 DEF LoadProgress, JobAt, Body
<1>8. CASE PlainStep(r, j)
  <2>1. PICK s \in {"rewrite", "find_papers", "fetch", "write"} :
           /\ AtStep(r, j, s)
           /\ IF Has(r, j, {s}) THEN UNCHANGED rows ELSE Insert(r, s)
    BY <1>8 DEF PlainStep
  <2>2. to = "check" /\ UNCHANGED <<at, done>> /\ s \in Steps /\ pc[r][j] \in Body
    BY <1>0, <1>1, <1>8, <2>1, JobGoesAfter
    DEF PlainStep, StepFrame, Steps, Pcs, Body, Working, AtStep, JobAt
  <2> QED
    BY <1>3, <1>4, <1>5, <2>1, <2>2 DEF Has
<1>9. CASE FetchCancelled(r, j)
  BY <1>0, <1>1, <1>2, <1>9, JobGoesAfter DEF FetchCancelled, Pcs, Body, Final, Working
<1>10. CASE ChainStep(r, j)
  <2>1. /\ AtStep(r, j, "chain") /\ to = "check" /\ UNCHANGED <<at, done>> /\ "chain" \in Steps
        /\ pc[r][j] \in Body
    BY <1>0, <1>1, <1>10, JobGoesAfter
    DEF ChainStep, StepFrame, Steps, Pcs, Body, Working, AtStep, JobAt
  <2>2. UNCHANGED rows \/ (Insert(r, "chain") /\ "chain" \notin done[r][j])
    BY <1>10 DEF ChainStep, Has
  <2> QED
    BY <1>3, <1>4, <1>5, <2>1, <2>2
<1>11. CASE PassagesStep(r, j)
  <2>1. /\ AtStep(r, j, "passages") /\ UNCHANGED <<at, done>> /\ "passages" \in Steps
        /\ to \in {"check", "empty"} /\ pc[r][j] \in Body
        /\ "passages" \in RowTypes \ Redone /\ "no_passages" \in RowTypes \ Redone
    BY <1>0, <1>1, <1>11, JobGoesAfter
    DEF PassagesStep, StepFrame, Steps, RowTypes, Redone, Pcs, Body, Working, AtStep, JobAt
  <2>2. \/ UNCHANGED rows
        \/ to = "check" /\ Insert(r, "passages") /\ "passages" \notin done[r][j]
        \/ to = "empty" /\ Insert(r, "no_passages") /\ "no_passages" \notin done[r][j]
    BY <1>0, <1>1, <1>11, JobGoesAfter DEF PassagesStep, Has, Pcs, Body, Working
  <2>3. CASE to = "check"
    BY <1>4, <1>5, <2>1, <2>2, <2>3, RankFacts
  <2>4. CASE to = "empty"
    <3>1. ToRecord(r, j) = Ahead(Rank["passages"], done[r][j]) \cup Redone
      BY <2>1, MayRecordFacts DEF AtStep, JobAt, ToRecord
    <3>2. ToRecord(r, j)' = Redone
      BY <1>1, <2>4, MayRecordFacts DEF ToRecord
    <3>3. UNCHANGED rows \/ (Insert(r, "no_passages") /\ "no_passages" \in Ahead(Rank["passages"], done[r][j]))
      BY <2>1, <2>2, <2>4, RankFacts DEF Ahead
    <3>4. CASE UNCHANGED rows
      BY <3>1, <3>2, <3>4 DEF Silent
    <3>5. CASE Insert(r, "no_passages") /\ "no_passages" \in Ahead(Rank["passages"], done[r][j])
      <4>1. Records(r, j, "no_passages")
        BY <2>1, <3>1, <3>2, <3>5 DEF Records
      <4> QED
        BY <2>1, <4>1
    <3> QED
      BY <3>3, <3>4, <3>5
  <2> QED
    BY <2>1, <2>3, <2>4
<1>12. CASE ReadStep(r, j)
  <2>1. /\ AtStep(r, j, "read") /\ UNCHANGED <<at, done>> /\ to = "check" /\ "read" \in Steps
        /\ "read" \in RowTypes \ Redone /\ "read_skipped" \in RowTypes \ Redone
        /\ pc[r][j] \in Body
    BY <1>0, <1>1, <1>12, JobGoesAfter
    DEF ReadStep, StepFrame, Steps, RowTypes, Redone, Pcs, Body, Working, AtStep, JobAt
  <2>2. \/ UNCHANGED rows
        \/ Insert(r, "read") /\ "read" \notin done[r][j]
        \/ Insert(r, "read_skipped") /\ "read_skipped" \notin done[r][j]
    BY <1>12 DEF ReadStep, Has
  <2> QED
    BY <1>4, <1>5, <2>1, <2>2, RankFacts
<1>13. CASE CheckCancel(r, j)
  <2>0. pc[r][j] = "check" /\ UNCHANGED <<rows, done>>
    BY <1>13 DEF CheckCancel, JobAt, runVars
  <2>1. ToRecord(r, j) = Ahead(Rank[at[r][j]] + 1, done[r][j]) \cup Redone
    BY <2>0, MayRecordFacts DEF ToRecord
  <2>2. CASE to \in {"cancelled", "gather"}
    <3>1. "cancelled" \in Pcs \ (Working \cup {"failing"})
      BY DEF Pcs, Body, Working, Final
    <3>2. CASE to = "cancelled"
      BY <1>2, <2>0, <3>1, <3>2
    <3>3. CASE to = "gather"
      <4>1. ToRecord(r, j)' = Redone
        BY <1>1, <3>3, MayRecordFacts DEF ToRecord
      <4> QED
        BY <2>0, <2>1, <4>1 DEF Silent
    <3> QED
      BY <2>2, <3>2, <3>3
  <2>3. CASE to = "step" /\ at[r][j] # "write" /\ at' = [at EXCEPT ![r][j] = After(r, at[r][j])]
    <3>1. at'[r][j] = After(r, at[r][j])
      BY <1>0, <2>3 DEF JobsOK
    <3>2. After(r, at[r][j]) \in Steps /\ Rank[After(r, at[r][j])] >= Rank[at[r][j]] + 1
      BY <1>0, <2>3, RankFacts DEF After, Steps
    <3>3. ToRecord(r, j)' = Ahead(Rank[After(r, at[r][j])], done[r][j]) \cup Redone
      BY <1>1, <2>0, <2>3, <3>1, MayRecordFacts DEF ToRecord
    <3>4. Ahead(Rank[After(r, at[r][j])], done[r][j]) \subseteq Ahead(Rank[at[r][j]] + 1, done[r][j])
      <4>1. Rank[After(r, at[r][j])] \in Nat /\ Rank[at[r][j]] + 1 \in Nat
        BY <1>0, <1>3, <3>2
      <4>2. \A t \in RowTypes \ Redone : Rank[t] \in Nat
        BY RankFacts
      <4> QED
        BY <3>2, <4>1, <4>2 DEF Ahead
    <3> QED
      BY <2>0, <2>1, <3>3, <3>4 DEF Silent
  <2>4. to \in {"cancelled", "gather"} \/
        (to = "step" /\ at[r][j] # "write" /\ at' = [at EXCEPT ![r][j] = After(r, at[r][j])])
    BY <1>0, <1>1, <1>13, JobGoesAfter DEF CheckCancel, JobsOK, Pcs, Body, Working, Final
  <2> QED
    BY <2>2, <2>3, <2>4
<1>14. CASE Gather(r, j)
  <2>1. pc[r][j] = "gather" /\ to \in {"verify", "both"} /\ UNCHANGED rows
    BY <1>0, <1>1, <1>14, JobGoesAfter DEF Gather, JobAt, Pcs, Body, Working
  <2> QED
    BY <1>1, <2>1, MayRecordFacts DEF Silent, ToRecord, Redone
<1>15. CASE GatherStep(r, j)
  <2>1. \/ pc[r][j] = "both" /\ Insert(r, "verify") /\ to = "consensus"
        \/ pc[r][j] = "both" /\ Insert(r, "consensus") /\ to = "verify"
        \/ pc[r][j] = "verify" /\ Insert(r, "verify") /\ to = "storing"
        \/ pc[r][j] = "consensus" /\ Insert(r, "consensus") /\ to = "storing"
    BY <1>0, <1>1, <1>15, JobGoesAfter DEF GatherStep, JobAt, Pcs, Body, Working
  <2>2. Records(r, j, "verify") \/ Records(r, j, "consensus")
    BY <1>1, <2>1, MayRecordFacts DEF Records, ToRecord, Redone
  <2> QED
    BY <2>1, <2>2 DEF RowTypes, Body, Working
<1>16. CASE EndEmpty(r, j) \/ RecordError(r, j)
  <2>1. /\ pc[r][j] \in {"empty", "failing"} /\ Insert(r, "error") /\ to \in {"done", "failed"}
    BY <1>0, <1>1, <1>16, JobGoesAfter DEF EndEmpty, RecordError, JobAt, Pcs, Body, Final
  <2>2. "error" \in ToRecord(r, j)
    BY <1>0, <2>1, MayRecordTypes DEF ToRecord, Working
  <2>3. ToRecord(r, j)' = {}
    BY <1>1, <2>1, MayRecordFacts DEF ToRecord, Working
  <2> QED
    BY <2>1, <2>2, <2>3 DEF Records, RowTypes, Body, Working
<1>17. CASE StepFails(r, j)
  <2>1. pc[r][j] \in Working /\ to = "failing" /\ UNCHANGED rows
    BY <1>0, <1>1, <1>17, JobGoesAfter DEF StepFails, Pcs, Body
  <2>2. "error" \in ToRecord(r, j)
    BY <1>0, <2>1, MayRecordTypes DEF ToRecord
  <2>3. ToRecord(r, j)' = {"error"}
    BY <1>1, <2>1, MayRecordFacts DEF ToRecord
  <2> QED
    BY <2>1, <2>2, <2>3 DEF Silent
<1>18. CASE Store(r, j) \/ Finish(r, j)
  <2>1. UNCHANGED rows /\ to \in Final \cup {"releasing"}
    BY <1>0, <1>1, <1>18, JobGoesAfter DEF Store, Finish, Pcs, Body, Final
  <2> QED
    BY <1>2, <2>1 DEF Final, Working
<1>19. CASE Release(r, j) \/ JobError(r, j)
  <2>1. UNCHANGED rows /\ to = "none"
    BY <1>0, <1>1, <1>19, JobEndsAfter, JobGoesAfter DEF Release, JobError, runVars, Pcs
  <2> QED
    BY <1>2, <2>1 DEF Working
<1> QED
  BY <1>6, <1>7, <1>8, <1>9, <1>10, <1>11, <1>12, <1>13, <1>14, <1>15, <1>16, <1>17, <1>18,
     <1>19 DEF JobStep

-----------------------------------------------------------------------------
\* No step is recorded twice.

LEMMA UnrecordedStep ==
  ASSUME TypeOK, OneBody, Unrecorded, NoStepTwice, [Next]_vars
  PROVE  Unrecorded' /\ NoStepTwice'
<1>0. JobsOK /\ RunsOK /\ RestartsOK /\ \A q \in Runs, i \in JobIds : pc[q][i] \in Pcs
  BY DEF TypeOK, JobsOK
\* A job that is not in the body records nothing.
<1>1. \A q \in Runs, i \in JobIds : ToRecord(q, i) \subseteq RowTypes
                                    /\ (pc[q][i] \notin Body => ToRecord(q, i) = {})
  BY <1>0, MayRecordTypes DEF ToRecord
<1>2. ASSUME UNCHANGED rows,
             \A q \in Runs, i \in JobIds : ToRecord(q, i)' \subseteq ToRecord(q, i)
      PROVE  Unrecorded' /\ NoStepTwice'
  BY <1>2 DEF Unrecorded, NoStepTwice
<1>3. ASSUME NEW r \in Runs, NEW j \in JobIds, JobStep(r, j) \/ JobError(r, j)
      PROVE  Unrecorded' /\ NoStepTwice'
  <2>1. \A q \in Runs, i \in JobIds : q # r \/ i # j => ToRecord(q, i)' = ToRecord(q, i)
    BY <1>3, LocalsAfter
  <2>2. CASE Silent(r, j)
    BY <1>2, <2>1, <2>2 DEF Silent
  \* Of the jobs of the run only this one is in the body.
  <2>3. ASSUME pc[r][j] \in Body
        PROVE  \A i \in JobIds : i # j => ToRecord(r, i)' = {}
    BY <1>1, <2>1, <2>3 DEF OneBody
  <2>4. CASE pc[r][j] \in Body /\ \E t \in RowTypes : Records(r, j, t)
    <3>1. PICK t \in RowTypes : Records(r, j, t)
      BY <2>4
    <3>2. /\ rows' \in [Runs -> [RowTypes -> Nat]] /\ rows'[r][t] = rows[r][t] + 1
          /\ \A q \in Runs, u \in RowTypes : q # r \/ u # t => rows'[q][u] = rows[q][u]
      BY <1>0, <3>1, InsertAfter DEF Records
    <3>3. rows[r][t] = 0
      BY <3>1 DEF Records, Unrecorded
    <3>4. NoStepTwice'
      BY <3>2, <3>3 DEF NoStepTwice
    <3>5. \A u \in ToRecord(r, j)' : u \in RowTypes /\ u # t /\ rows'[r][u] = 0
      BY <1>1, <3>1, <3>2 DEF Records, Unrecorded
    <3>6. \A q \in Runs \ {r}, i \in JobIds : \A u \in ToRecord(q, i)' : rows'[q][u] = 0
      BY <1>1, <2>1, <3>2 DEF Unrecorded
    <3>7. \A i \in JobIds : \A u \in ToRecord(r, i)' : rows'[r][u] = 0
      BY <2>3, <2>4, <3>5
    <3> QED
      BY <3>4, <3>6, <3>7 DEF Unrecorded
  <2>5. CASE pc[r][j] \in Body /\ LoadProgress(r, j)
    <3>1. /\ \A q \in Runs, u \in RowTypes : q # r => rows'[q][u] = rows[q][u]
          /\ \A u \in RowTypes : rows'[r][u] = IF u \in Redone THEN 0 ELSE rows[r][u]
      BY <1>0, <2>5 DEF LoadProgress, RunsOK
    <3>2. NoStepTwice'
      BY <3>1 DEF NoStepTwice
    <3>3. "step" \in Pcs /\ pc'[r][j] = "step" /\ done'[r][j] = Recorded(r) \ Redone
      BY <1>0, <2>5, JobGoesAfter DEF LoadProgress, JobsOK, Pcs, Body, Working
    <3>4. \A u \in ToRecord(r, j)' : u \in Redone \/ u \in RowTypes \ (Redone \cup Recorded(r))
      BY <3>3, MayRecordFacts DEF ToRecord, Ahead
    <3>5. Redone \subseteq RowTypes /\ \A u \in RowTypes : rows[r][u] \in Nat
      BY <1>0 DEF Redone, RowTypes, RunsOK
    <3>6. \A u \in ToRecord(r, j)' : rows'[r][u] = 0
      BY <3>1, <3>4, <3>5 DEF Recorded
    <3>7. \A q \in Runs \ {r}, i \in JobIds : \A u \in ToRecord(q, i)' : rows'[q][u] = 0
      BY <1>1, <2>1, <3>1 DEF Unrecorded
    <3>8. \A i \in JobIds : \A u \in ToRecord(r, i)' : rows'[r][u] = 0
      BY <2>3, <2>5, <3>6
    <3> QED
      BY <3>2, <3>7, <3>8 DEF Unrecorded
  <2> QED
    BY <1>3, <2>2, <2>4, <2>5, JobStepRecords
<1>4. ASSUME NEW r \in Runs, ApiCall(r) \/ ApiStep(r) \/ ApiCrash(r)
      PROVE  Unrecorded' /\ NoStepTwice'
  <2>1. UNCHANGED <<rows, at, done>>
    BY <1>4 DEF ApiCall, ApiStep, ApiCrash, Ask, Enqueue, CancelRead, CancelQueued, CancelFlag,
                runVars, jobVars
  <2>2. \A q \in Runs, i \in JobIds : pc'[q][i] = pc[q][i] \/ pc'[q][i] = "queued"
    BY <1>0, <1>4 DEF ApiCall, ApiStep, ApiCrash, Enqueue, jobVars, JobsOK
  <2>3. "queued" \in Pcs \ (Working \cup {"failing"})
    BY DEF Pcs, Body, Working, Final
  <2>4. ASSUME NEW q \in Runs, NEW i \in JobIds
        PROVE  ToRecord(q, i)' \subseteq ToRecord(q, i)
    <3>1. CASE pc'[q][i] = pc[q][i]
      BY <2>1, <3>1 DEF ToRecord
    <3>2. CASE pc'[q][i] = "queued"
      BY <2>3, <3>2, MayRecordFacts DEF ToRecord
    <3> QED
      BY <2>2, <3>1, <3>2
  <2> QED
    BY <1>2, <2>1, <2>4
<1>5. ASSUME NEW r \in Runs, LockExpires(r) \/ CancelExpires(r)
      PROVE  Unrecorded' /\ NoStepTwice'
  BY <1>2, <1>5 DEF LockExpires, CancelExpires, runVars, jobVars, ToRecord
<1>6. CASE Shutdown \/ Crash
  <2>1. \A q \in Runs, i \in JobIds : pc'[q][i] \in Pcs \ (Working \cup {"failing"})
    BY <1>0, <1>6, CutOffAfter DEF Shutdown, Crash, Pcs, Body, Working, Final
  <2>2. \A q \in Runs, i \in JobIds : ToRecord(q, i)' = {}
    BY <2>1, MayRecordFacts DEF ToRecord
  <2> QED
    BY <1>2, <1>6, <2>2 DEF Shutdown, Crash, runVars
<1>7. CASE Recover
  <2>1. \A q \in Runs, i \in JobIds : pc'[q][i] = pc[q][i] \/ pc'[q][i] = "queued"
    BY <1>0, <1>7, RecoverAfter
  <2>2. \A q \in Runs, i \in JobIds : ToRecord(q, i)' \subseteq ToRecord(q, i)
    BY <1>7, <2>1, MayRecordFacts DEF Recover, ToRecord, Pcs, Body, Working, Final
  <2> QED
    BY <1>2, <1>7, <2>2 DEF Recover, runVars
<1>8. CASE UNCHANGED vars
  BY <1>2, <1>8 DEF vars, runVars, jobVars, ToRecord
<1> QED
  BY <1>3, <1>4, <1>5, <1>6, <1>7, <1>8 DEF Next

(***************************************************************************)
(* "Keep completed steps": however often a run is cut off and resumed, and *)
(* by however many jobs, no step is recorded twice, until a job outlives   *)
(* the ttl of its lock.                                                    *)
(***************************************************************************)
THEOREM StepsOnce == Spec => [](Spared({"overrun"}) => NoStepTwice)
<1>1. Init => Unrecorded /\ NoStepTwice
  <2>1. ASSUME Init
        PROVE  \A r \in Runs, t \in RowTypes : rows[r][t] = 0
    BY <2>1 DEF Init
  <2>2. ASSUME Init
        PROVE  \A r \in Runs, j \in JobIds : ToRecord(r, j) = {}
    BY <2>2, MayRecordFacts DEF Init, ToRecord, Pcs, Body, Working, Final
  <2> QED
    BY <2>1, <2>2 DEF Unrecorded, NoStepTwice
<1>2. /\ TypeOK /\ Spent /\ (InTime => OneBody) /\ (InTime => Unrecorded /\ NoStepTwice)
      /\ [Next]_vars
      => (InTime => Unrecorded /\ NoStepTwice)'
  BY InTimeBefore, UnrecordedStep
<1> QED
  BY <1>1, <1>2, SpentAlways, MutualExclusion, PTL DEF Spec, InTime

-----------------------------------------------------------------------------
\* What the steps of a job do to the status of its run.

\* A step is of a job that exists, and no other job of any run moves with it.
LEMMA JobAlone ==
  ASSUME TypeOK, NEW r \in Runs, NEW j \in JobIds, JobStep(r, j) \/ JobError(r, j)
  PROVE  /\ pc[r][j] # "none" /\ workerUp
         /\ pc'[r][j] \in Pcs
         /\ \A q \in Runs, i \in JobIds : q # r \/ i # j => pc'[q][i] = pc[q][i]
         /\ UNCHANGED <<apiVars, procVars>>
<1>1. pc[r][j] # "none" /\ workerUp
  BY DEF JobStep, JobError, DropSpent, SelectRun, Acquire, MarkRunning, LoadProgress, PlainStep,
         FetchCancelled, ChainStep, PassagesStep, EndEmpty, ReadStep, CheckCancel, Gather,
         GatherStep, Store, StepFails, RecordError, Finish, Release, AtStep, JobAt, Body, Working, Final
<1>2. UNCHANGED <<apiVars, procVars>>
  BY DEF JobStep, JobError, WorkerFrame
<1>3. JobsOK
  BY DEF TypeOK
<1> QED
  BY <1>1, <1>2, <1>3, JobStepMoves, JobGoesAfter DEF Moves

\* The places of a job that is yet to end its run.
Under == Body \ {"releasing"}

\* A job marks its run, ends it, or leaves its status; where it goes then.
LEMMA JobStepStatus ==
  ASSUME TypeOK, NEW r \in Runs, NEW j \in JobIds, JobStep(r, j) \/ JobError(r, j)
  PROVE  \/ /\ pc[r][j] = "locked" /\ pc'[r][j] = "loading"
            /\ SetStatus(r, "running") /\ UNCHANGED keyVars
         \/ /\ pc[r][j] \in Final /\ pc'[r][j] = "releasing"
            /\ SetStatus(r, pc[r][j]) /\ UNCHANGED keyVars
         \/ /\ UNCHANGED status
            /\ \/ pc[r][j] = "queued" /\ status[r] \in Active /\ pc'[r][j] = "selected" /\ UNCHANGED keyVars
               \/ pc[r][j] = "queued" /\ status[r] \notin Active /\ pc'[r][j] = "none" /\ UNCHANGED keyVars
               \/ pc[r][j] = "spent" /\ pc'[r][j] = "none" /\ UNCHANGED keyVars
               \/ pc[r][j] = "selected" /\ ~lock[r] /\ pc'[r][j] = "locked"
                 /\ lock' = [lock EXCEPT ![r] = TRUE]
               \/ pc[r][j] = "selected" /\ lock[r] /\ pc'[r][j] = "none" /\ lock' = [lock EXCEPT ![r] = TRUE]
               \/ pc[r][j] \in Under /\ pc'[r][j] \in Under /\ UNCHANGED keyVars
               \/ pc[r][j] = "releasing" /\ pc'[r][j] = "none" /\ lock' = [lock EXCEPT ![r] = FALSE]
               \/ JobError(r, j) /\ pc'[r][j] = "none"
<1>0. JobsOK
  BY DEF TypeOK
<1>1. \A to \in Pcs : JobGoes(r, j, to) => pc'[r][j] = to
  BY <1>0, JobGoesAfter
<1>2. CASE DropSpent(r, j) \/ SelectRun(r, j)
  BY <1>1, <1>2 DEF DropSpent, SelectRun, JobAt, runVars, Pcs
<1>3. CASE Acquire(r, j)
  <2>1. CASE lock[r]
    BY <1>1, <1>3, <2>1 DEF Acquire, JobAt, runVars, Pcs
  <2>2. CASE ~lock[r]
    BY <1>1, <1>3, <2>2 DEF Acquire, JobAt, runVars, Pcs, Body
  <2> QED
    BY <2>1, <2>2
<1>4. CASE MarkRunning(r, j)
  BY <1>1, <1>4 DEF MarkRunning, JobAt, Pcs, Body
<1>5. CASE Finish(r, j)
  BY <1>1, <1>5 DEF Finish, Pcs, Body
<1>6. CASE Release(r, j) \/ JobError(r, j)
  <2>1. JobGoes(r, j, "none")
    BY <1>6 DEF Release, JobError, JobEnds
  <2> QED
    BY <1>1, <1>6, <2>1 DEF Release, JobError, JobAt, runVars, Pcs
<1>7. ASSUME NEW from \in Under, NEW to \in Under, pc[r][j] = from, JobGoes(r, j, to)
      PROVE  pc[r][j] \in Under /\ pc'[r][j] \in Under
  BY <1>1, <1>7 DEF Under, Pcs
<1>8. CASE LoadProgress(r, j) \/ PlainStep(r, j) \/ FetchCancelled(r, j)
  BY <1>7, <1>8 DEF LoadProgress, PlainStep, FetchCancelled, AtStep, StepFrame,
                    JobAt, Under, Body, Working, Final, runVars
<1>9. CASE ChainStep(r, j) \/ PassagesStep(r, j) \/ EndEmpty(r, j) \/ ReadStep(r, j)
  BY <1>7, <1>9 DEF ChainStep, PassagesStep, EndEmpty, ReadStep, AtStep, StepFrame, JobAt,
                    Under, Body, Working, Final
<1>10. CASE CheckCancel(r, j) \/ Gather(r, j) \/ GatherStep(r, j)
  BY <1>7, <1>10 DEF CheckCancel, Gather, GatherStep, StepFrame, JobAt, Under, Body, Working, Final, runVars
<1>11. CASE Store(r, j) \/ RecordError(r, j)
  BY <1>7, <1>11 DEF Store, RecordError, StepFrame, JobAt, Under, Body, Working, Final
<1>12. CASE StepFails(r, j)
  BY <1>7, <1>12 DEF StepFails, StepFrame, Under, Body, Working, Final
<1> QED
  BY <1>2, <1>3, <1>4, <1>5, <1>6, <1>8, <1>9, <1>10, <1>11, <1>12 DEF JobStep

-----------------------------------------------------------------------------
\* Done means answered, or a row says why not.

Told(r) == rows[r]["error"] > 0

\* Inductive: a job that ends as done has stored the answer or its reason, and a job that is
\* past MarkRunning works on a run that is not done.
EndsAnswered ==
    \A r \in Runs, j \in JobIds :
        /\ pc[r][j] = "done" => answered[r] \/ Told(r)
        /\ pc[r][j] = "timed_out" => answered[r]
        /\ pc[r][j] \in Body \ {"locked", "releasing"} => status[r] \notin {"done", "timed_out"}

Answered ==
    \A r \in Runs : /\ status[r] = "timed_out" => answered[r]
                    /\ status[r] = "done" => answered[r] \/ Told(r)

\* A step of a job forgets no answer; it forgets the reason for one only when it loads.
LEMMA JobStepKeeps ==
  ASSUME TypeOK, NEW r \in Runs, NEW j \in JobIds, JobStep(r, j) \/ JobError(r, j)
  PROVE  /\ \A q \in Runs : answered[q] => answered'[q]
         /\ \A q \in Runs : Told(q) => Told(q)' \/ (q = r /\ pc[r][j] = "loading" /\ LoadProgress(r, j))
<1>0. RunsOK /\ "error" \in RowTypes
  BY DEF TypeOK, RowTypes
<1>1. UNCHANGED answered \/ answered' = [answered EXCEPT ![r] = TRUE]
  BY DEF JobStep, JobError, DropSpent, SelectRun, Acquire, MarkRunning, LoadProgress, PlainStep,
         FetchCancelled, ChainStep, PassagesStep, EndEmpty, ReadStep, CheckCancel, Gather,
         GatherStep, Store, StepFails, RecordError, Finish, Release, StepFrame, runVars
<1>2. \A q \in Runs : answered[q] => answered'[q]
  BY <1>0, <1>1 DEF RunsOK
<1>3. CASE UNCHANGED rows
  BY <1>2, <1>3 DEF Told
<1>4. CASE \E t \in RowTypes : Insert(r, t)
  <2>1. PICK t \in RowTypes : Insert(r, t)
    BY <1>4
  <2>2. /\ rows'[r][t] = rows[r][t] + 1
        /\ \A q \in Runs, u \in RowTypes : q # r \/ u # t => rows'[q][u] = rows[q][u]
    BY <1>0, <2>1, InsertAfter
  <2>3. rows[r][t] \in Nat
    BY <1>0 DEF RunsOK
  <2>4. ASSUME NEW q \in Runs, Told(q)
        PROVE  Told(q)'
    BY <1>0, <2>2, <2>3, <2>4 DEF Told
  <2> QED
    BY <1>2, <2>4
<1>5. CASE LoadProgress(r, j)
  <2>1. pc[r][j] = "loading" /\ \A q \in Runs \ {r} : rows'[q] = rows[q]
    BY <1>0, <1>5 DEF LoadProgress, JobAt, RunsOK
  <2> QED
    BY <1>2, <1>5, <2>1 DEF Told
<1> QED
  BY <1>3, <1>4, <1>5, JobStepRecords DEF Silent, Records

\* What the job itself has on reaching its end.
LEMMA JobStepEnds ==
  ASSUME TypeOK, NEW r \in Runs, NEW j \in JobIds, JobStep(r, j) \/ JobError(r, j)
  PROVE  /\ pc'[r][j] = "done" => answered'[r] \/ Told(r)'
         /\ pc'[r][j] = "timed_out" => answered'[r]
<1>0. JobsOK /\ RunsOK /\ "error" \in RowTypes
  BY DEF TypeOK, RowTypes
<1>1. \A from \in Pcs : JobGoes(r, j, from) => pc'[r][j] = from
  BY <1>0, JobGoesAfter
<1>2. ASSUME NEW from \in Pcs \ {"done", "timed_out"}, JobGoes(r, j, from)
      PROVE  pc'[r][j] \notin {"done", "timed_out"}
  BY <1>1, <1>2
<1>3. CASE EndEmpty(r, j)
  <2>1. pc'[r][j] = "done"
    BY <1>1, <1>3 DEF EndEmpty, Pcs, Body, Final
  <2>2. Told(r)'
    BY <1>0, <1>3, InsertAfter DEF EndEmpty, Told, RunsOK
  <2> QED
    BY <2>1, <2>2
<1>4. CASE Store(r, j)
  BY <1>0, <1>4 DEF Store, RunsOK
<1>5. CASE DropSpent(r, j) \/ SelectRun(r, j) \/ Acquire(r, j) \/ MarkRunning(r, j)
           \/ LoadProgress(r, j) \/ PlainStep(r, j) \/ FetchCancelled(r, j) \/ ChainStep(r, j)
  BY <1>2, <1>5 DEF DropSpent, SelectRun, Acquire, MarkRunning, LoadProgress, PlainStep,
                    FetchCancelled, ChainStep, Pcs, Body, Working, Final
<1>6. CASE PassagesStep(r, j) \/ ReadStep(r, j) \/ CheckCancel(r, j) \/ Gather(r, j)
           \/ GatherStep(r, j)
  BY <1>2, <1>6 DEF PassagesStep, ReadStep, CheckCancel, Gather, GatherStep, Pcs, Body,
                    Working, Final
<1>7. CASE StepFails(r, j) \/ RecordError(r, j) \/ Finish(r, j)
  BY <1>2, <1>7 DEF StepFails, RecordError, Finish, Pcs, Body, Working, Final
<1>8. CASE Release(r, j) \/ JobError(r, j)
  BY <1>2, <1>8 DEF Release, JobError, JobEnds, Pcs
<1> QED
  BY <1>3, <1>4, <1>5, <1>6, <1>7, <1>8 DEF JobStep

\* A step of a job, which has its run to itself.
LEMMA EndsAnsweredJob ==
  ASSUME TypeOK, OneBody, EndsAnswered, Answered, NEW r \in Runs, NEW j \in JobIds,
         JobStep(r, j) \/ JobError(r, j)
  PROVE  EndsAnswered' /\ Answered'
<1>0. JobsOK /\ RunsOK /\ status \in [Runs -> Statuses]
  BY DEF TypeOK, RunsOK
<1>1. \A q \in Runs, i \in JobIds : q # r \/ i # j => pc'[q][i] = pc[q][i]
  BY JobAlone
<1>2. /\ \A q \in Runs : answered[q] => answered'[q]
      /\ \A q \in Runs : Told(q) => Told(q)' \/ (q = r /\ pc[r][j] = "loading")
  BY JobStepKeeps
<1>3. /\ {"loading", "locked", "releasing"} \cup Final \cup Under \subseteq Body
      /\ {"none", "queued", "spent", "selected"} \cap Body = {}
      /\ "locked" \notin Final /\ "releasing" \notin Final \cup Under /\ "loading" \notin Final
  BY DEF Under, Body, Working, Final
\* The other jobs of the run are not in the body while this one is.
<1>4. ASSUME pc[r][j] \in Body, NEW i \in JobIds, i # j
      PROVE  pc'[r][i] \notin Body
  BY <1>1, <1>4 DEF OneBody
\* What the step does to the status of the run.
<1>5. /\ \A q \in Runs \ {r} : status'[q] = status[q]
      /\ \/ status'[r] = status[r]
         \/ pc[r][j] = "locked" /\ status'[r] = "running"
         \/ pc[r][j] \in Final /\ pc'[r][j] = "releasing" /\ status'[r] = pc[r][j]
  <2>1. \/ status' = status
        \/ pc[r][j] = "locked" /\ SetStatus(r, "running")
        \/ pc[r][j] \in Final /\ pc'[r][j] = "releasing" /\ SetStatus(r, pc[r][j])
    BY JobStepStatus
  <2> QED
    BY <1>0, <2>1 DEF SetStatus
<1>6. pc'[r][j] \in Body \ {"locked", "releasing"} => status'[r] \notin {"done", "timed_out"}
  <2>1. \/ pc[r][j] = "locked" /\ SetStatus(r, "running")
        \/ pc'[r][j] \notin Body \ {"locked", "releasing"}
        \/ status' = status /\ pc[r][j] \in Under /\ pc[r][j] # "locked"
        \/ status' = status /\ pc[r][j] = "locked" /\ pc'[r][j] \in Under
    BY <1>3, JobStepStatus
  <2>2. pc[r][j] = "locked" => SetStatus(r, "running") \/ pc'[r][j] \notin Body
    <3>1. ASSUME pc[r][j] = "locked", JobStep(r, j)
          PROVE  MarkRunning(r, j)
      BY <3>1 DEF JobStep, DropSpent, SelectRun, Acquire, LoadProgress, PlainStep,
         FetchCancelled, ChainStep, PassagesStep, EndEmpty, ReadStep, CheckCancel, Gather,
         GatherStep, Store, StepFails, RecordError, Finish, Release, AtStep, JobAt, Working, Final
    <3>2. JobError(r, j) => pc'[r][j] = "none"
      BY <1>0, JobEndsAfter, JobGoesAfter DEF JobError, Pcs
    <3> QED
      BY <1>3, <3>1, <3>2 DEF MarkRunning
  <2> QED
    BY <1>0, <1>3, <2>1, <2>2 DEF EndsAnswered, SetStatus
<1>7. EndsAnswered'
  <2>1. ASSUME NEW q \in Runs, NEW i \in JobIds
        PROVE  /\ pc'[q][i] = "done" => answered'[q] \/ Told(q)'
               /\ pc'[q][i] = "timed_out" => answered'[q]
               /\ pc'[q][i] \in Body \ {"locked", "releasing"} => status'[q] \notin {"done", "timed_out"}
    <3>1. CASE q = r /\ i = j
      BY <1>6, <3>1, JobStepEnds
    <3>2. CASE q # r
      BY <1>1, <1>2, <1>5, <3>2 DEF EndsAnswered
    <3>3. CASE q = r /\ i # j /\ pc[r][j] \in Body
      BY <1>3, <1>4, <3>3 DEF Final
    <3>4. CASE q = r /\ i # j /\ pc[r][j] \notin Body
      BY <1>1, <1>2, <1>3, <1>5, <3>4 DEF EndsAnswered
    <3> QED
      BY <3>1, <3>2, <3>3, <3>4
  <2> QED
    BY <2>1 DEF EndsAnswered
<1>8. Answered'
  <2>1. ASSUME NEW q \in Runs, status'[q] \in {"done", "timed_out"}
        PROVE  /\ status'[q] = "timed_out" => answered'[q]
               /\ status'[q] = "done" => answered'[q] \/ Told(q)'
    <3>1. CASE q = r /\ pc[r][j] \in Final /\ status'[r] = pc[r][j]
      BY <1>2, <1>3, <3>1 DEF EndsAnswered
    <3>2. CASE status'[q] = status[q]
      <4>1. q = r => pc[r][j] # "loading"
        BY <1>3, <2>1, <3>2 DEF EndsAnswered
      <4> QED
        BY <1>2, <3>2, <4>1 DEF Answered
    <3> QED
      BY <1>5, <2>1, <3>1, <3>2
  <2> QED
    BY <2>1 DEF Answered
<1> QED
  BY <1>7, <1>8

LEMMA EndsAnsweredStep ==
  ASSUME TypeOK, OneBody, EndsAnswered, Answered, [Next]_vars
  PROVE  EndsAnswered' /\ Answered'
<1>0. JobsOK /\ RunsOK /\ RestartsOK
  BY DEF TypeOK
<1>1. ASSUME UNCHANGED <<answered, rows>>,
             \A q \in Runs : status'[q] \in {"done", "timed_out"} => status'[q] = status[q],
             \A q \in Runs, i \in JobIds :
                pc'[q][i] = pc[q][i] \/ pc'[q][i] \in {"queued", "none", "spent"}
      PROVE  EndsAnswered' /\ Answered'
  <2>1. {"queued", "none", "spent"} \cap Body = {}
    BY DEF Body, Working, Final
  <2> QED
    BY <1>1, <2>1 DEF EndsAnswered, Answered, Told
<1>2. ASSUME NEW r \in Runs, NEW j \in JobIds, JobStep(r, j) \/ JobError(r, j)
      PROVE  EndsAnswered' /\ Answered'
  BY <1>2, EndsAnsweredJob
<1>3. ASSUME NEW r \in Runs, ApiCall(r) \/ ApiStep(r) \/ ApiCrash(r)
      PROVE  EndsAnswered' /\ Answered'
  <2>1. UNCHANGED <<answered, rows>>
    BY <1>3 DEF ApiCall, ApiStep, ApiCrash, Ask, Enqueue, CancelRead, CancelQueued, CancelFlag,
                runVars
  <2>2. \A q \in Runs : status'[q] = status[q] \/ status'[q] \in {"queued", "cancelled"}
    BY <1>0, <1>3 DEF ApiCall, ApiStep, ApiCrash, Ask, Enqueue, CancelRead, CancelQueued,
                      CancelFlag, runVars, SetStatus, RunsOK
  <2>3. \A q \in Runs, i \in JobIds : pc'[q][i] = pc[q][i] \/ pc'[q][i] = "queued"
    BY <1>0, <1>3 DEF ApiCall, ApiStep, ApiCrash, Enqueue, jobVars, JobsOK
  <2> QED
    BY <1>1, <2>1, <2>2, <2>3
<1>4. ASSUME NEW r \in Runs, LockExpires(r) \/ CancelExpires(r)
      PROVE  EndsAnswered' /\ Answered'
  BY <1>1, <1>4 DEF LockExpires, CancelExpires, runVars, jobVars
<1>5. CASE Shutdown \/ Crash
  <2>1. UNCHANGED runVars /\ CutOff
    BY <1>5 DEF Shutdown, Crash
  <2>2. \A q \in Runs, i \in JobIds : pc'[q][i] \in {"none", "queued", "spent"}
    BY <1>0, <2>1, CutOffAfter
  <2> QED
    BY <1>1, <2>1, <2>2 DEF runVars
<1>6. CASE Recover
  <2>1. \A q \in Runs, i \in JobIds : pc'[q][i] = pc[q][i] \/ pc'[q][i] = "queued"
    BY <1>0, <1>6, RecoverAfter
  <2> QED
    BY <1>1, <1>6, <2>1 DEF Recover, runVars
<1>7. CASE UNCHANGED vars
  BY <1>1, <1>7 DEF vars, runVars, jobVars
<1> QED
  BY <1>2, <1>3, <1>4, <1>5, <1>6, <1>7 DEF Next

(***************************************************************************)
(* The three together: however many jobs restarts and retries give a run,  *)
(* it is executed as by one, until one of them outlives its lock.          *)
(***************************************************************************)
THEOREM RunsAsByOneJob == Spec => []ExecutedOnce
<1>1. TypeOK /\ (Spared({"overrun"}) => OneBody) /\ (Spared({"overrun"}) => NoStepTwice) => ExecutedOnce
  BY DEF ExecutedOnce
<1> QED
  BY <1>1, Typing, MutualExclusion, StepsOnce, PTL

(***************************************************************************)
(* Whatever cuts a run off between its last steps, a run that says it is   *)
(* done has its answer stored, or the row that says why it has none; also  *)
(* a resumed run of whose recorded passages none is left.                  *)
(***************************************************************************)
THEOREM DoneIsAnswered == Spec => []DoneHasAnswer
<1>1. Init => EndsAnswered /\ Answered
  BY DEF Init, EndsAnswered, Answered, Body, Working, Final
<1>2. /\ TypeOK /\ Spent /\ (InTime => OneBody) /\ (InTime => EndsAnswered /\ Answered)
      /\ [Next]_vars
      => (InTime => EndsAnswered /\ Answered)'
  BY InTimeBefore, EndsAnsweredStep
<1>3. (InTime => EndsAnswered /\ Answered) => DoneHasAnswer
  BY DEF InTime, Answered, Told, DoneHasAnswer
<1> QED
  BY <1>1, <1>2, <1>3, SpentAlways, MutualExclusion, PTL DEF Spec, InTime

-----------------------------------------------------------------------------
\* Nobody is asked about before it is asked.

Unasked == \A r \in Runs : status[r] = "none" => r \notin enqueuing /\ \A j \in JobIds : pc[r][j] = "none"

\* A worker that is down executes nothing.
DownIsIdle == ~workerUp => \A r \in Runs, j \in JobIds : pc[r][j] \in {"none", "queued", "spent"}

\* While nothing races: a resumed run has no other job, one that no restart has touched has the
\* job it was asked with, and a job that has read the status of its run has it to itself.
Alone(r) ==
    /\ \A j \in JobIds \ {0} : pc[r][j] # "none" =>
          j = 1 /\ restarts = 1 /\ r \notin enqueuing /\ pc[r][0] \in {"none", "spent"}
    /\ restarts = 0 /\ r \in enqueuing => status[r] = "queued" /\ pc[r][0] = "none"
    /\ restarts = 0 /\ pc[r][0] \in {"queued", "selected"} => status[r] = "queued"
    /\ \A j \in JobIds : pc[r][j] \in Under \cup {"selected"} => status[r] \in Active

ThreadInv == Unasked /\ DownIsIdle /\ (NoRace => cancelling = {} /\ \A r \in Runs : Alone(r))

LEMMA NoRaceBefore ==
  ASSUME TypeOK, Spent, [Next]_vars, NoRace'
  PROVE  NoRace /\ ~Fault("cancelQueued") /\ restarts <= restarts' /\ restarts' \in 0..1 /\ restarts \in 0..1
<1>1. \A f \in FaultKinds : budget'[f] = Faults[f] => budget[f] = Faults[f] /\ ~Fault(f)
  BY SpentStep
<1>2. "cancelQueued" \in FaultKinds /\ restarts \in Nat
  BY DEF FaultKinds, TypeOK, RestartsOK
<1>3. restarts' = restarts \/ restarts' = restarts + 1
  BY DEF Next, vars, procVars, ApiCall, ApiStep, ApiCrash, LockExpires, CancelExpires, JobStep, JobError,
         WorkerFrame, Shutdown, Crash, Recover
<1> QED
  BY <1>1, <1>2, <1>3 DEF NoRace, Spared

LEMMA AloneStays ==
  ASSUME TypeOK, NEW r \in Runs, Alone(r), status'[r] = status[r],
         \A j \in JobIds : pc'[r][j] = pc[r][j],
         r \in enqueuing' => r \in enqueuing, restarts' = restarts
  PROVE  Alone(r)'
BY JobIdsFacts DEF Alone, TypeOK

\* A step of a job of the run.
LEMMA AloneJob ==
  ASSUME TypeOK, NEW r \in Runs, NEW j \in JobIds, JobStep(r, j) \/ JobError(r, j), Alone(r)
  PROVE  Alone(r)'
<1>1. /\ pc[r][j] # "none"
      /\ \A i \in JobIds : i # j => pc'[r][i] = pc[r][i]
      /\ enqueuing' = enqueuing /\ restarts' = restarts
  BY JobAlone DEF apiVars, procVars
<1>2. 0 \in JobIds /\ status \in [Runs -> Statuses]
  BY JobIdsFacts DEF TypeOK, RunsOK
<1>3. /\ "none" \notin Under \cup {"selected"} /\ "spent" \notin Under \cup {"selected"}
      /\ "queued" \notin Under \cup {"selected"} /\ "releasing" \notin Under \cup {"selected"}
      /\ Final \cup {"locked", "loading"} \subseteq Under
      /\ "queued" \notin Under /\ "selected" \notin Under
  BY DEF Under, Body, Working, Final
<1>4. CASE j # 0
  <2>1. j = 1 /\ restarts = 1 /\ r \notin enqueuing /\ pc[r][0] \in {"none", "spent"} /\ pc'[r][0] = pc[r][0]
    BY <1>1, <1>2, <1>4 DEF Alone
  <2>2. \A i \in JobIds \ {0} : pc'[r][i] # "none" => i = 1
    BY <1>1, <2>1 DEF Alone
  <2>3. ASSUME NEW i \in JobIds, pc'[r][i] \in Under \cup {"selected"}
        PROVE  status'[r] \in Active
    <3>1. i = j
      BY <1>1, <1>3, <2>1, <2>2, <2>3
    <3> QED
      BY <1>2, <1>3, <2>3, <3>1, JobStepStatus DEF Alone, SetStatus, Active
  <2> QED
    BY <1>1, <1>3, <2>1, <2>2, <2>3 DEF Alone
<1>5. CASE j = 0
  <2>1. ASSUME NEW i \in JobIds \ {0}, pc'[r][i] # "none"
        PROVE  i = 1 /\ restarts' = 1 /\ r \notin enqueuing' /\ pc[r][0] = "spent" /\ pc'[r][0] = "none"
               /\ status'[r] = status[r]
    <3>1. pc[r][i] # "none"
      BY <1>1, <1>5, <2>1
    <3>2. i = 1 /\ restarts = 1 /\ r \notin enqueuing /\ pc[r][0] = "spent"
      BY <1>1, <1>5, <3>1 DEF Alone
    <3>3. pc'[r][0] = "none" /\ status'[r] = status[r]
      BY <1>3, <1>5, <3>2, JobStepStatus DEF JobError, Body, Working, Final
    <3> QED
      BY <1>1, <3>2, <3>3
  <2>2. ASSUME restarts' = 0
        PROVE  /\ r \in enqueuing' => status'[r] = "queued" /\ pc'[r][0] = "none"
               /\ pc'[r][0] \in {"queued", "selected"} => status'[r] = "queued"
    <3>1. r \notin enqueuing'
      BY <1>1, <1>5, <2>2 DEF Alone
    <3>2. pc'[r][0] \in {"queued", "selected"} => status'[r] = "queued"
      BY <1>1, <1>2, <1>3, <1>5, <2>2, JobStepStatus DEF Alone
    <3> QED
      BY <3>1, <3>2
  <2>3. ASSUME NEW i \in JobIds, pc'[r][i] \in Under \cup {"selected"}
        PROVE  status'[r] \in Active
    <3>1. CASE i = 0
      BY <1>2, <1>3, <1>5, <2>3, <3>1, JobStepStatus DEF Alone, SetStatus, Active
    <3>2. CASE i # 0
      <4>1. pc'[r][i] # "none" /\ pc'[r][i] = pc[r][i]
        BY <1>1, <1>3, <1>5, <2>3, <3>2
      <4>2. status'[r] = status[r] /\ pc[r][i] \in Under \cup {"selected"}
        BY <2>1, <2>3, <3>2, <4>1
      <4> QED
        BY <4>2 DEF Alone
    <3> QED
      BY <3>1, <3>2
  <2> QED
    BY <2>1, <2>2, <2>3 DEF Alone
<1> QED
  BY <1>4, <1>5

\* A request of the API.
LEMMA AloneApi ==
  ASSUME TypeOK, Spent, Unasked, NEW r \in Runs, ApiCall(r) \/ ApiStep(r) \/ ApiCrash(r),
         ~Fault("cancelQueued"),
         cancelling = {}, NEW q \in Runs, Alone(q)
  PROVE  Alone(q)' /\ cancelling' = {}
<1>0. /\ 0 \in JobIds /\ restarts \in Nat /\ status \in [Runs -> Statuses] /\ pc \in [Runs -> [JobIds -> Pcs]]
      /\ restarts' = restarts
  BY JobIdsFacts DEF TypeOK, RunsOK, JobsOK, RestartsOK, ApiCall, ApiStep, ApiCrash, procVars
<1>1. cancelling' = {}
  BY DEF ApiCall, ApiStep, ApiCrash, Ask, CancelRead, Enqueue, CancelQueued, CancelFlag
<1>2. CASE Ask(r) /\ q = r /\ UNCHANGED jobVars
  <2>1. status'[r] = "queued" /\ pc' = pc /\ \A j \in JobIds : pc[r][j] = "none"
    BY <1>0, <1>2 DEF Ask, SetStatus, jobVars, Unasked
  <2> QED
    BY <1>0, <1>1, <1>2, <2>1 DEF Alone, Under, Body, Working, Final
<1>3. CASE Enqueue(r) /\ q = r
  <2>1. /\ status' = status /\ r \in enqueuing /\ r \notin enqueuing'
        /\ pc' = [pc EXCEPT ![r][0] = IF @ = "none" THEN "queued" ELSE @]
    BY <1>3 DEF Enqueue, runVars
  <2>2. \A j \in JobIds \ {0} : pc'[r][j] = pc[r][j] /\ pc[r][j] = "none"
    BY <1>0, <1>3, <2>1 DEF Alone
  <2>3. pc'[r][0] = "queued" \/ pc'[r][0] = pc[r][0]
    BY <1>0, <2>1
  <2>4. restarts = 0 => status[r] = "queued"
    BY <1>3, <2>1 DEF Alone
  <2>5. "queued" \notin Under \cup {"selected"} /\ "none" \notin Under \cup {"selected"}
    BY DEF Under, Body, Working, Final
  <2> QED
    BY <1>0, <1>1, <1>3, <2>1, <2>2, <2>3, <2>4, <2>5 DEF Alone
<1>4. CASE status'[q] = status[q] /\ (\A j \in JobIds : pc'[q][j] = pc[q][j])
        /\ (q \in enqueuing' => q \in enqueuing)
  BY <1>0, <1>1, <1>4, AloneStays
<1>5. CASE q # r
  <2>1. status'[q] = status[q] /\ (q \in enqueuing' => q \in enqueuing)
          /\ \A j \in JobIds : pc'[q][j] = pc[q][j]
    BY <1>0, <1>5 DEF ApiCall, ApiStep, ApiCrash, Ask, CancelRead, Enqueue, CancelQueued, CancelFlag,
                      SetStatus, runVars, jobVars
  <2> QED
    BY <1>4, <2>1
<1>6. CASE q = r
  <2>1. CASE (CancelRead(r) \/ CancelQueued(r) \/ CancelFlag(r) \/ ApiCrash(r)) /\ UNCHANGED jobVars
    BY <1>4, <1>6, <2>1 DEF ApiCrash, CancelRead, CancelQueued, CancelFlag, runVars, jobVars
  <2> QED
    BY <1>2, <1>3, <1>6, <2>1 DEF ApiCall, ApiStep, ApiCrash
<1> QED
  BY <1>5, <1>6

\* A worker that stops, and its restart.
LEMMA AloneRestart ==
  ASSUME TypeOK, DownIsIdle, Shutdown \/ Crash \/ Recover, restarts \in 0..1, restarts' \in 0..1,
         NEW r \in Runs, Alone(r)
  PROVE  Alone(r)'
<1>0. JobsOK /\ RestartsOK /\ 0 \in JobIds /\ pc[r] \in [JobIds -> Pcs]
  BY JobIdsFacts DEF TypeOK, JobsOK
<1>1. "queued" \notin Under \cup {"selected"} /\ "none" \notin Under \cup {"selected"}
        /\ "spent" \notin Under \cup {"selected"}
  BY DEF Under, Body, Working, Final
<1>2. CASE Shutdown \/ Crash
  <2>1. UNCHANGED <<status, restarts, enqueuing>> /\ CutOff
    BY <1>2 DEF Shutdown, Crash, runVars, apiVars
  <2>2. \A j \in JobIds : /\ pc'[r][j] \in {"none", "queued", "spent"}
                          /\ pc'[r][j] # "spent" => pc'[r][j] = pc[r][j]
                          /\ pc[r][j] = "none" => pc'[r][j] = "none"
                          /\ pc[r][j] = "spent" => pc'[r][j] = "spent"
    BY <1>0, <2>1, CutOffAfter DEF CutOff, Body, Working, Final
  <2> QED
    BY <1>0, <1>1, <2>1, <2>2 DEF Alone
<1>3. CASE Recover
  <2>1. restarts = 0 /\ restarts' = 1 /\ UNCHANGED <<status, enqueuing>> /\ ~workerUp
    BY <1>3 DEF Recover, runVars, apiVars
  <2>2. \A j \in JobIds : pc'[r][j] = IF \/ status[r] = "queued" /\ j = 0 /\ pc[r][j] = "none"
                                         \/ status[r] = "running" /\ j = 1
                                      THEN "queued" ELSE pc[r][j]
    BY <1>3, <2>1 DEF Recover
  <2>3. \A j \in JobIds \ {0} : pc[r][j] = "none"
    BY <2>1 DEF Alone
  <2>4. \A j \in JobIds : pc[r][j] \in {"none", "queued", "spent"}
    BY <2>1 DEF DownIsIdle
  <2>5. ASSUME NEW j \in JobIds \ {0}, pc'[r][j] # "none"
        PROVE  j = 1 /\ r \notin enqueuing' /\ pc'[r][0] \in {"none", "spent"}
    <3>1. status[r] = "running" /\ j = 1
      BY <2>2, <2>3, <2>5
    <3>2. r \notin enqueuing /\ pc[r][0] # "queued"
      BY <1>0, <2>1, <3>1 DEF Alone
    <3> QED
      BY <1>0, <2>1, <2>2, <2>4, <3>1, <3>2
  <2>6. \A j \in JobIds : pc'[r][j] \notin Under \cup {"selected"}
    BY <1>1, <2>2, <2>4
  <2> QED
    BY <2>1, <2>5, <2>6 DEF Alone
<1> QED
  BY <1>2, <1>3

LEMMA UnaskedStep ==
  ASSUME TypeOK, Unasked, DownIsIdle, [Next]_vars
  PROVE  Unasked' /\ DownIsIdle'
<1>0. JobsOK /\ RestartsOK /\ status \in [Runs -> Statuses] /\ 0 \in JobIds
  BY JobIdsFacts DEF TypeOK, RunsOK
<1>1. ASSUME NEW r \in Runs, NEW j \in JobIds, JobStep(r, j) \/ JobError(r, j) PROVE Unasked' /\ DownIsIdle'
  <2>1. /\ pc[r][j] # "none" /\ workerUp
        /\ \A q \in Runs, i \in JobIds : q # r \/ i # j => pc'[q][i] = pc[q][i]
        /\ enqueuing' = enqueuing /\ workerUp' = workerUp
    BY <1>1, JobAlone DEF apiVars, procVars
  <2>2. status[r] # "none" /\ status'[r] # "none" /\ \A q \in Runs \ {r} : status'[q] = status[q]
    <3>1. status[r] # "none"
      BY <2>1 DEF Unasked
    <3>2. status' = status \/ SetStatus(r, "running") \/ (pc[r][j] \in Final /\ SetStatus(r, pc[r][j]))
      BY <1>1, JobStepStatus
    <3> QED
      BY <1>0, <3>1, <3>2 DEF SetStatus, Final
  <2> QED
    BY <2>1, <2>2 DEF Unasked, DownIsIdle
<1>2. ASSUME NEW r \in Runs, ApiCall(r) \/ ApiStep(r) \/ ApiCrash(r) PROVE Unasked' /\ DownIsIdle'
  <2>1. CASE Ask(r) /\ UNCHANGED <<jobVars, procVars>>
    BY <1>0, <2>1 DEF Ask, SetStatus, jobVars, procVars, Unasked, DownIsIdle
  <2>2. CASE Enqueue(r) /\ UNCHANGED procVars
    <3>1. status' = status /\ r \in enqueuing /\ enqueuing' = enqueuing \ {r} /\ workerUp' = workerUp
      BY <2>2 DEF Enqueue, runVars, procVars
    <3>2. \A q \in Runs, j \in JobIds : pc'[q][j] = pc[q][j] \/ (q = r /\ pc'[q][j] = "queued")
      BY <1>0, <2>2 DEF Enqueue, JobsOK
    <3> QED
      BY <3>1, <3>2 DEF Unasked, DownIsIdle
  <2>3. CASE CancelQueued(r) /\ UNCHANGED <<jobVars, procVars>>
    BY <1>0, <2>3 DEF CancelQueued, SetStatus, jobVars, procVars, Unasked, DownIsIdle
  <2>4. CASE (CancelRead(r) \/ CancelFlag(r) \/ ApiCrash(r)) /\ UNCHANGED <<jobVars, procVars>>
    BY <2>4 DEF CancelRead, CancelFlag, ApiCrash, runVars, jobVars, procVars, Unasked, DownIsIdle
  <2> QED
    BY <1>2, <2>1, <2>2, <2>3, <2>4 DEF ApiCall, ApiStep, ApiCrash
<1>3. CASE Shutdown \/ Crash
  <2>1. UNCHANGED <<status, enqueuing>> /\ CutOff
    BY <1>3 DEF Shutdown, Crash, runVars, apiVars
  <2>2. \A r \in Runs, j \in JobIds : /\ pc'[r][j] \in {"none", "queued", "spent"}
                                      /\ pc[r][j] = "none" => pc'[r][j] = "none"
    BY <1>0, <2>1, CutOffAfter DEF CutOff, Body, Working, Final
  <2> QED
    BY <2>1, <2>2 DEF Unasked, DownIsIdle
<1>4. CASE Recover
  BY <1>0, <1>4 DEF Recover, runVars, apiVars, Unasked, DownIsIdle
<1>5. CASE UNCHANGED <<status, enqueuing, pc, workerUp>>
  BY <1>5 DEF Unasked, DownIsIdle
<1> QED
  BY <1>1, <1>2, <1>3, <1>4, <1>5 DEF Next, LockExpires, CancelExpires, vars, runVars, apiVars, jobVars,
     procVars

LEMMA ThreadInvStep ==
  ASSUME TypeOK, Spent, ThreadInv, [Next]_vars
  PROVE  ThreadInv'
<1>1. Unasked' /\ DownIsIdle'
  BY UnaskedStep DEF ThreadInv
<1> SUFFICES ASSUME NoRace' PROVE cancelling' = {} /\ \A r \in Runs : Alone(r)'
  BY <1>1 DEF ThreadInv
<1>2. /\ NoRace /\ ~Fault("cancelQueued") /\ restarts' \in 0..1 /\ restarts \in 0..1
      /\ cancelling = {} /\ (\A r \in Runs : Alone(r)) /\ Unasked /\ DownIsIdle
  BY NoRaceBefore DEF ThreadInv
<1>3. ASSUME NEW r \in Runs, NEW j \in JobIds, JobStep(r, j) \/ JobError(r, j)
      PROVE  cancelling' = {} /\ \A q \in Runs : Alone(q)'
  <2>1. /\ cancelling' = cancelling /\ enqueuing' = enqueuing /\ restarts' = restarts
        /\ \A q \in Runs \ {r}, i \in JobIds : pc'[q][i] = pc[q][i]
    BY <1>3, JobAlone DEF apiVars, procVars
  <2>2. \A q \in Runs \ {r} : status'[q] = status[q]
    <3>1. status' = status \/ SetStatus(r, "running") \/ SetStatus(r, pc[r][j])
      BY <1>3, JobStepStatus
    <3> QED
      BY <3>1 DEF SetStatus, TypeOK, RunsOK
  <2>3. \A q \in Runs \ {r} : Alone(q)'
    BY <1>2, <2>1, <2>2, AloneStays
  <2> QED
    BY <1>2, <1>3, <2>1, <2>3, AloneJob
<1>4. ASSUME NEW r \in Runs, ApiCall(r) \/ ApiStep(r) \/ ApiCrash(r)
      PROVE  cancelling' = {} /\ \A q \in Runs : Alone(q)'
  <2>1. \A q \in Runs : Alone(q)' /\ cancelling' = {}
    BY <1>2, <1>4, AloneApi
  <2> QED
    BY <2>1
<1>5. CASE Shutdown \/ Crash \/ Recover
  <2>1. cancelling' = {}
    BY <1>2, <1>5 DEF Shutdown, Crash, Recover, apiVars
  <2> QED
    BY <1>2, <1>5, <2>1, AloneRestart
<1>6. CASE UNCHANGED <<status, enqueuing, cancelling, pc, restarts>>
  BY <1>2, <1>6, AloneStays
<1> QED
  BY <1>3, <1>4, <1>5, <1>6 DEF Next, LockExpires, CancelExpires, vars, runVars, apiVars, jobVars, procVars

\* What a step does to the status of a run that is final, or to any run.
LEMMA FinalKept ==
  ASSUME TypeOK, Spent, ThreadInv, NoRace, [Next]_vars, NEW q \in Runs
  PROVE  \/ status'[q] = status[q]
         \/ status[q] \in Active /\ status'[q] \in Active \cup Final
         \/ Ask(q) /\ status'[q] = "queued" /\ \A p \in Runs \ {q} : status'[p] = status[p]
<1>0. status \in [Runs -> Statuses] /\ Alone(q) /\ cancelling = {}
  BY DEF TypeOK, RunsOK, ThreadInv
<1>1. ASSUME NEW r \in Runs, NEW j \in JobIds, JobStep(r, j) \/ JobError(r, j)
      PROVE  status'[q] = status[q] \/ (status[q] \in Active /\ status'[q] \in Active \cup Final)
  <2>1. CASE q # r
    <3>1. status' = status \/ SetStatus(r, "running") \/ SetStatus(r, pc[r][j])
      BY <1>1, JobStepStatus
    <3> QED
      BY <1>0, <2>1, <3>1 DEF SetStatus
  <2>2. CASE q = r
    <3>1. \/ status' = status
          \/ pc[r][j] = "locked" /\ SetStatus(r, "running")
          \/ pc[r][j] \in Final /\ SetStatus(r, pc[r][j])
      BY <1>1, JobStepStatus
    <3>2. pc[r][j] \in Final \cup {"locked"} => status[r] \in Active
      BY <1>0, <2>2 DEF Alone, Under, Body, Final, Working
    <3> QED
      BY <1>0, <2>2, <3>1, <3>2 DEF SetStatus, Active
  <2> QED
    BY <2>1, <2>2
<1>2. ASSUME NEW r \in Runs, ApiCall(r) \/ ApiStep(r) \/ ApiCrash(r)
      PROVE  \/ status'[q] = status[q]
             \/ Ask(q) /\ status'[q] = "queued" /\ \A p \in Runs \ {q} : status'[p] = status[p]
  <2>1. ~CancelQueued(r)
    BY <1>0 DEF CancelQueued
  <2>2. status' = status \/ Ask(r)
    BY <1>2, <2>1 DEF ApiCall, ApiStep, ApiCrash, CancelRead, Enqueue, CancelFlag, runVars
  <2> QED
    BY <1>0, <2>2 DEF Ask, SetStatus
<1> QED
  BY <1>1, <1>2 DEF Next, LockExpires, CancelExpires, Shutdown, Crash, Recover, vars, runVars

LEMMA OneRunStep ==
  ASSUME TypeOK, Spent, ThreadInv, OneRunPerThread, [Next]_vars
  PROVE  OneRunPerThread'
<1> SUFFICES ASSUME NoRace', NEW r \in Runs, NEW q \in Runs, ThreadOf[r] = ThreadOf[q],
                    status'[r] \in Active, status'[q] \in Active
             PROVE  r = q
  BY DEF OneRunPerThread
<1>1. NoRace
  BY NoRaceBefore
<1>2. \/ status[r] \in Active
      \/ Ask(r) /\ status'[r] = "queued" /\ \A p \in Runs \ {r} : status'[p] = status[p]
  BY <1>1, FinalKept
<1>3. \/ status[q] \in Active
      \/ Ask(q) /\ status'[q] = "queued" /\ \A p \in Runs \ {q} : status'[p] = status[p]
  BY <1>1, FinalKept
<1>4. CASE status[r] \in Active /\ status[q] \in Active
  BY <1>1, <1>4 DEF OneRunPerThread
<1>5. ASSUME NEW a \in Runs, NEW b \in Runs, ThreadOf[a] = ThreadOf[b], Ask(a), status'[b] \in Active,
             \A p \in Runs \ {a} : status'[p] = status[p]
      PROVE  a = b
  BY <1>5 DEF Ask, Siblings
<1> QED
  BY <1>2, <1>3, <1>4, <1>5

\* The invariant of a thread's runs.
LEMMA ThreadInvariance == Spec => [](TypeOK /\ Spent /\ ThreadInv /\ OneRunPerThread)
<1>1. Init => Spent /\ ThreadInv /\ OneRunPerThread
  <2> SUFFICES ASSUME Init PROVE Spent /\ ThreadInv /\ OneRunPerThread
    OBVIOUS
  <2>1. Spent
    BY ConstantsAssumption DEF Init, Spent
  <2>2. \A r \in Runs, j \in JobIds : pc[r][j] = "none"
    BY DEF Init
  <2>3. Unasked /\ DownIsIdle /\ cancelling = {}
    BY <2>2 DEF Init, Unasked, DownIsIdle
  <2>4. 0 \in JobIds
    BY ConstantsAssumption DEF JobIds, FaultKinds
  <2>5. \A r \in Runs : Alone(r)
    BY <2>2, <2>4 DEF Init, Alone, Under, Body, Working, Final
  <2>6. OneRunPerThread
    BY DEF Init, OneRunPerThread, Active
  <2> QED
    BY <2>1, <2>3, <2>5, <2>6 DEF ThreadInv
<1>2. TypeOK /\ Spent /\ ThreadInv /\ OneRunPerThread
        /\ [Next]_vars => (Spent /\ ThreadInv /\ OneRunPerThread)'
  BY SpentStep, ThreadInvStep, OneRunStep
<1> QED
  BY <1>1, <1>2, Typing, PTL DEF Spec

(***************************************************************************)
(* The questions of a thread are answered one after the other: while no    *)
(* request cancels a queued run and no second restart doubles a job, no    *)
(* interleaving of the API, the worker, one restart and late deliveries of *)
(* a job makes a second run of a thread active (follow_up's 409).          *)
(***************************************************************************)
THEOREM QuestionsInTurn == Spec => []OneRunPerThread
BY ThreadInvariance, PTL

(***************************************************************************)
(* Under the same conditions the end a viewer was told is final: no job    *)
(* that read an earlier status marks the run running again (_finish).      *)
(***************************************************************************)
THEOREM EndsForGood == Spec => FinalStays
<1>1. ASSUME TypeOK, Spent, ThreadInv, [Next]_vars
      PROVE  [NoRace => \A r \in Runs : status[r] \in Final => status'[r] = status[r]]_vars
  <2>1. ASSUME NoRace, NEW r \in Runs, status[r] \in Final PROVE status'[r] = status[r]
    <3>1. status[r] # "none" /\ status[r] \notin Active
      BY <2>1 DEF Final, Active
    <3> QED
      BY <1>1, <2>1, <3>1, FinalKept DEF Ask
  <2> QED
    BY <2>1
<1> QED
  BY <1>1, ThreadInvariance, PTL DEF Spec, FinalStays

-----------------------------------------------------------------------------
\* Restarts of the worker that lose no run.

Orderly == Spared({"crash", "jobError"})

\* As long as nothing but orderly stops end jobs, a lock is held by a job, and a run that is
\* running although a job is done with it has another one under way (a job may have outlived
\* its lock); so a running run has a job.
Carried(r) ==
    /\ lock[r] => InBody(r)
    /\ status[r] = "running" /\ (\E j \in JobIds : pc[r][j] = "releasing") =>
          \E k \in JobIds : pc[r][k] \in Under
    /\ workerUp /\ status[r] = "running" => Live(r)

CarriedInv == Orderly => \A r \in Runs : Carried(r)

LEMMA OrderlyBefore ==
  ASSUME TypeOK, Spent, [Next]_vars, Orderly'
  PROVE  Orderly /\ ~Fault("crash") /\ ~Fault("jobError")
BY SpentStep DEF Orderly, Spared, FaultKinds

LEMMA CarriedJob ==
  ASSUME TypeOK, NEW r \in Runs, NEW j \in JobIds, JobStep(r, j), Carried(r)
  PROVE  Carried(r)'
<1>1. /\ pc[r][j] # "none" /\ workerUp' = workerUp /\ workerUp
      /\ \A i \in JobIds : i # j => pc'[r][i] = pc[r][i]
  BY JobAlone DEF procVars
<1>2. /\ status \in [Runs -> Statuses] /\ lock \in [Runs -> BOOLEAN]
  BY DEF TypeOK, RunsOK, KeysOK
<1>3. /\ "none" \notin Body /\ "spent" \notin Body /\ "queued" \notin Body /\ "selected" \notin Body
      /\ "releasing" \in Body /\ "locked" \in Body /\ "loading" \in Body /\ Final \subseteq Body
      /\ Under \subseteq Body /\ "releasing" \notin Under /\ "running" \notin Final
        /\ "releasing" \notin Final
  BY DEF Under, Body, Working, Final
<1>4. CASE pc[r][j] = "locked" /\ pc'[r][j] = "loading" /\ SetStatus(r, "running") /\ UNCHANGED keyVars
  <2>1. pc'[r][j] \in Under
    BY <1>4 DEF Under, Body
  <2>2. InBody(r)' /\ Live(r)'
    BY <1>3, <2>1 DEF InBody, Live
  <2> QED
    BY <2>1, <2>2 DEF Carried
<1>5. CASE pc[r][j] \in Final /\ pc'[r][j] = "releasing" /\ SetStatus(r, pc[r][j]) /\ UNCHANGED keyVars
  <2>1. status'[r] = pc[r][j] /\ status'[r] # "running" /\ InBody(r)'
    BY <1>2, <1>3, <1>5 DEF SetStatus, InBody
  <2> QED
    BY <2>1 DEF Carried
<1>6. CASE UNCHANGED status /\ pc[r][j] \in {"queued", "spent"} /\ UNCHANGED keyVars
           /\ (pc'[r][j] = "none" \/ pc'[r][j] = "selected")
           /\ (pc[r][j] = "queued" /\ pc'[r][j] = "none" => status[r] # "running")
  <2>1. InBody(r)' <=> InBody(r)
    BY <1>1, <1>3, <1>6 DEF InBody
  <2>2. ASSUME status[r] = "running" PROVE Live(r)'
    <3>1. PICK i \in JobIds : pc[r][i] \in Body \cup {"queued", "selected"}
      BY <1>1, <2>2 DEF Carried, Live
    <3>2. CASE i # j
      BY <1>1, <3>1, <3>2 DEF Live
    <3>3. CASE i = j
      <4>1. pc'[r][j] = "selected"
        BY <1>3, <1>6, <2>2, <3>1, <3>3
      <4> QED
        BY <4>1 DEF Live
    <3> QED
      BY <3>2, <3>3
  <2> QED
    BY <1>1, <1>3, <1>6, <2>1, <2>2 DEF Carried, keyVars
<1>7. CASE UNCHANGED status /\ pc[r][j] = "selected" /\ ~lock[r] /\ pc'[r][j] = "locked"
  BY <1>1, <1>3, <1>7 DEF Carried, InBody, Live
<1>8. CASE UNCHANGED status /\ pc[r][j] = "selected" /\ lock[r] /\ pc'[r][j] = "none"
  <2>1. PICK i \in JobIds : pc[r][i] \in Body
    BY <1>8 DEF Carried, InBody
  <2>2. pc'[r][i] \in Body
    BY <1>1, <1>3, <1>8, <2>1
  <2>3. ASSUME status[r] = "running", NEW i1 \in JobIds, pc'[r][i1] = "releasing"
        PROVE  \E k \in JobIds : pc'[r][k] \in Under
    <3>1. pc[r][i1] = "releasing"
      BY <1>1, <1>8, <2>3
    <3>2. PICK k \in JobIds : pc[r][k] \in Under
      BY <2>3, <3>1 DEF Carried
    <3> QED
      BY <1>1, <1>3, <1>8, <3>2
  <2> QED
    BY <1>1, <1>8, <2>2, <2>3 DEF Carried, InBody, Live
<1>9. CASE UNCHANGED status /\ pc[r][j] \in Under /\ pc'[r][j] \in Under /\ UNCHANGED keyVars
  BY <1>1, <1>3, <1>9 DEF Carried, InBody, Live
<1>10. CASE UNCHANGED status /\ pc[r][j] = "releasing" /\ pc'[r][j] = "none"
            /\ lock' = [lock EXCEPT ![r] = FALSE]
  <2>1. ASSUME status[r] = "running"
        PROVE  \E k \in JobIds : pc'[r][k] \in Under
    <3>1. PICK k \in JobIds : pc[r][k] \in Under
      BY <1>10, <2>1 DEF Carried
    <3> QED
      BY <1>1, <1>3, <1>10, <3>1
  <2> QED
    BY <1>1, <1>2, <1>3, <1>10, <2>1 DEF Carried, Live
<1>11. ~JobError(r, j)
  <2>1. budget' = budget /\ budget["jobError"] \in Nat
    BY DEF JobStep, TypeOK, RestartsOK, FaultKinds
  <2>2. Fault("jobError") => budget'["jobError"] = budget["jobError"] - 1
    BY DEF Fault, TypeOK, RestartsOK, FaultKinds
  <2> QED
    BY <2>1, <2>2 DEF JobError
<1>12. \/ pc[r][j] = "locked" /\ pc'[r][j] = "loading" /\ SetStatus(r, "running") /\ UNCHANGED keyVars
       \/ pc[r][j] \in Final /\ pc'[r][j] = "releasing" /\ SetStatus(r, pc[r][j]) /\ UNCHANGED keyVars
       \/ /\ UNCHANGED status
          /\ \/ pc[r][j] = "queued" /\ status[r] \in Active /\ pc'[r][j] = "selected" /\ UNCHANGED keyVars
             \/ pc[r][j] = "queued" /\ status[r] \notin Active /\ pc'[r][j] = "none" /\ UNCHANGED keyVars
             \/ pc[r][j] = "spent" /\ pc'[r][j] = "none" /\ UNCHANGED keyVars
             \/ pc[r][j] = "selected" /\ ~lock[r] /\ pc'[r][j] = "locked"
             \/ pc[r][j] = "selected" /\ lock[r] /\ pc'[r][j] = "none"
             \/ pc[r][j] \in Under /\ pc'[r][j] \in Under /\ UNCHANGED keyVars
             \/ pc[r][j] = "releasing" /\ pc'[r][j] = "none" /\ lock' = [lock EXCEPT ![r] = FALSE]
  BY <1>11, JobStepStatus
<1>13. CASE UNCHANGED status /\ pc[r][j] = "queued" /\ status[r] \notin Active /\ pc'[r][j] = "none"
         /\ UNCHANGED keyVars
  BY <1>6, <1>13 DEF Active
<1> QED
  BY <1>4, <1>5, <1>6, <1>7, <1>8, <1>9, <1>10, <1>12, <1>13

LEMMA CarriedStep ==
  ASSUME TypeOK, Spent, DownIsIdle, CarriedInv, [Next]_vars
  PROVE  CarriedInv'
<1> SUFFICES ASSUME Orderly', NEW q \in Runs PROVE Carried(q)'
  BY DEF CarriedInv
<1>1. Orderly /\ ~Fault("crash") /\ ~Fault("jobError") /\ Carried(q)
  BY OrderlyBefore DEF CarriedInv
<1>2. /\ JobsOK /\ RestartsOK /\ status \in [Runs -> Statuses] /\ lock \in [Runs -> BOOLEAN] /\ 0 \in JobIds
      /\ ~workerUp => restarts + 1 \in JobIds
  BY JobIdsFacts DEF TypeOK, RunsOK, KeysOK
<1>3. ASSUME \A j \in JobIds : pc'[q][j] = pc[q][j], status'[q] = status[q] \/ status'[q] # "running",
             lock'[q] = lock[q] \/ ~lock'[q], workerUp' = workerUp
      PROVE  Carried(q)'
  BY <1>1, <1>3 DEF Carried, InBody, Live
<1>4. ASSUME NEW r \in Runs, NEW j \in JobIds, JobStep(r, j) PROVE Carried(q)'
  <2>1. CASE q = r
    BY <1>1, <1>4, <2>1, CarriedJob
  <2>2. CASE q # r
    <3>1. workerUp' = workerUp /\ \A i \in JobIds : pc'[q][i] = pc[q][i]
      BY <1>4, <2>2, JobAlone DEF procVars
    <3>2. status'[q] = status[q]
      <4>1. status' = status \/ SetStatus(r, "running") \/ SetStatus(r, pc[r][j])
        BY <1>4, JobStepStatus
      <4> QED
        BY <1>2, <2>2, <4>1 DEF SetStatus
    <3>3. lock'[q] = lock[q]
      BY <1>2, <1>4, <2>2, JobStepMoves DEF Moves, Enters, Leaves, Outside, Inside
    <3> QED
      BY <1>3, <3>1, <3>2, <3>3
  <2> QED
    BY <2>1, <2>2
<1>5. ASSUME NEW r \in Runs, ApiCall(r) \/ ApiStep(r) \/ ApiCrash(r) PROVE Carried(q)'
  <2>1. status'[q] = status[q] \/ status'[q] # "running"
    BY <1>2, <1>5 DEF ApiCall, ApiStep, ApiCrash, Ask, CancelRead, Enqueue, CancelQueued, CancelFlag,
       SetStatus, runVars
  <2>2. lock' = lock /\ workerUp' = workerUp
    BY <1>5 DEF ApiCall, ApiStep, ApiCrash, keyVars, procVars
  <2>3. \A j \in JobIds : pc'[q][j] = pc[q][j] \/ (pc[q][j] = "none" /\ pc'[q][j] = "queued")
    BY <1>2, <1>5 DEF ApiCall, ApiStep, ApiCrash, Enqueue, jobVars, JobsOK
  <2>4. "none" \notin Body /\ "queued" \notin Body /\ "releasing" # "queued"
    BY DEF Body, Working, Final
  <2>5. InBody(q)' <=> InBody(q)
    BY <2>3, <2>4 DEF InBody
  <2>6. Live(q) => Live(q)'
    BY <2>3, <2>4 DEF Live
  <2>7. /\ \A j \in JobIds : pc'[q][j] = "releasing" => pc[q][j] = "releasing"
        /\ \A j \in JobIds : pc[q][j] \in Under => pc'[q][j] \in Under
    BY <2>3, <2>4 DEF Under
  <2> QED
    BY <1>1, <2>1, <2>2, <2>5, <2>6, <2>7 DEF Carried
<1>6. CASE Shutdown
  <2>1. ~workerUp' /\ CutOff /\ lock' = [r \in Runs |-> lock[r] /\ ~InBody(r)]
    BY <1>6 DEF Shutdown
  <2>2. \A j \in JobIds : pc'[q][j] # "releasing"
    BY <1>2, <2>1, CutOffAfter
  <2>3. ~lock'[q]
    BY <1>1, <2>1 DEF Carried
  <2> QED
    BY <2>1, <2>2, <2>3 DEF Carried
<1>7. CASE Recover
  <2>1. ~workerUp /\ lock' = lock /\ status' = status
    BY <1>7 DEF Recover, keyVars, runVars
  <2>2. \A j \in JobIds : pc[q][j] \in {"none", "queued", "spent"}
          /\ (pc'[q][j] = pc[q][j] \/ pc'[q][j] = "queued")
    BY <1>2, <1>7, <2>1, RecoverAfter DEF DownIsIdle
  <2>3. ~InBody(q)
    BY <2>2 DEF InBody, Body, Working, Final
  <2>4. status[q] = "running" => pc'[q][restarts + 1] = "queued"
    BY <1>2, <1>7, <2>1 DEF Recover
  <2> QED
    BY <1>1, <1>2, <2>1, <2>2, <2>3, <2>4 DEF Carried, Live
<1>8. ASSUME NEW r \in Runs, LockExpires(r) \/ CancelExpires(r) PROVE Carried(q)'
  <2>1. UNCHANGED <<pc, status, workerUp>> /\ (lock'[q] = lock[q] \/ ~lock'[q])
    BY <1>2, <1>8 DEF LockExpires, CancelExpires, runVars, jobVars, procVars
  <2> QED
    BY <1>3, <2>1
<1>9. CASE UNCHANGED vars
  BY <1>3, <1>9 DEF vars, runVars, keyVars, jobVars, procVars
<1> QED
  BY <1>1, <1>4, <1>5, <1>6, <1>7, <1>8, <1>9 DEF Next, JobError, Crash

(***************************************************************************)
(* However often the worker is stopped and started in order, a running run *)
(* has a job that carries it on: the one that marked it, or the one that   *)
(* recover gave it (arq_worker.py:183).                                    *)
(***************************************************************************)
THEOREM RunsAreCarriedOn == Spec => []RunningHasJob
<1>1. Init => CarriedInv
  BY DEF Init, CarriedInv, Carried
<1>2. TypeOK /\ Spent /\ DownIsIdle /\ CarriedInv /\ [Next]_vars => CarriedInv'
  BY CarriedStep
<1>3. CarriedInv => RunningHasJob
  BY DEF CarriedInv, Carried, Orderly, RunningHasJob
<1>4. ThreadInv => DownIsIdle
  BY DEF ThreadInv
<1> QED
  BY <1>1, <1>2, <1>3, <1>4, ThreadInvariance, PTL DEF Spec
=============================================================================
