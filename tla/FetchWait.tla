------------------------------ MODULE FetchWait ------------------------------
(***************************************************************************)
(* FETCH, the step in which a research run queues its papers for full text *)
(* and waits for them (backend/agent/run.py: FetchPlan and step_fetch).    *)
(*                                                                         *)
(* The pipeline works on the papers meanwhile (FullText has the detail): it*)
(* commits the end of a paper, then publishes it.  The run hears of it by  *)
(* message or by looking into the table now and then.                      *)
(***************************************************************************)
EXTENDS Integers, FiniteSets

CONSTANTS
    Hits,         \* the papers FIND_PAPERS selected
    Rank,         \* [Hits -> Nat]: their order, best first
    Share,        \* fetch_target_quick or _deep, in percent
    Spare,        \* fetch_spare
    MaxRestarts   \* bound: how often a restart of the worker begins the step anew

ASSUME ConstantsAssumption ==
    /\ IsFiniteSet(Hits)
    /\ Rank \in [Hits -> Nat]
    /\ \A p, q \in Hits : Rank[p] = Rank[q] => p = q
    /\ Share \in 0..100
    /\ Spare \in Nat
    /\ MaxRestarts \in Nat

\* papers.state: "idle" is any state from which a paper can be queued, "fetched" any
\* between the PDF and the end.
Ended  == {"ready", "abstract_only"}
States == {"idle", "queued", "fetched"} \cup Ended

\* fetch_goal: the share, rounded up.
Minimum == (Cardinality(Hits) * Share + 99) \div 100

Waiting == {"deciding", "receiving", "polling", "aiming", "asking", "updating", "pushing",
            "checking"}
InStep  == Waiting \cup {"selected", "starting", "subscribing", "demoting"}

VARIABLES
    state,         \* papers.state
    unpublished,   \* papers whose end is committed and not published yet
    urgent,        \* papers this run has pushed to fetch:urgent, still in the list
    mail,          \* messages the subscription has received and the run has not read
    subscribed,    \* the run has its subscription
    clock,         \* 0, then 1 from budget_stop on, 2 from mandatory_stop on
    restarts,      \* restarts so far
    pc,            \* where the run is
    looping,       \* it has begun to wait
    changed,       \* it has heard of something in this turn of the loop
    candidates,    \* FetchPlan: the hits without full text
    ready,         \*   how many hits have full text
    goal,          \*   how many should have
    queued,        \*   the candidates that were queued
    pending,       \*   those that have not finished
    failed,        \*   those that finished without full text
    seen,          \* the states enqueue_fulltext has read of its papers
    left           \* papers still to demote

paperVars == <<state, unpublished>>
planVars  == <<candidates, ready, goal, queued, pending, failed>>
mailVars  == <<mail, subscribed>>
timeVars  == <<clock, restarts>>
loopVars  == <<looping, changed>>
vars == <<paperVars, urgent, mailVars, timeVars, pc, loopVars, planVars, seen, left>>

PapersOK ==
    /\ state \in [Hits -> States]
    /\ unpublished \in SUBSET {p \in Hits : state[p] \in Ended}
    /\ urgent \in SUBSET Hits

MailOK ==
    /\ mail \in SUBSET (Hits \X Ended)
    /\ subscribed \in BOOLEAN

ControlOK ==
    /\ clock \in 0..2
    /\ restarts \in 0..MaxRestarts
    /\ pc \in InStep \cup {"over", "cancelled"}
    /\ looping \in BOOLEAN
    /\ changed \in BOOLEAN

PlanOK ==
    /\ candidates \in SUBSET Hits
    /\ ready \in Nat
    /\ goal \in Nat
    /\ queued \in SUBSET candidates
    /\ pending \in SUBSET queued
    /\ failed \in SUBSET queued

\* While a batch is queued, its papers are pending; what is left to demote is.
BatchOK ==
    /\ \E batch \in SUBSET pending : seen \in [batch -> States]
    /\ left \in SUBSET pending
    /\ pc # "demoting" => left = {}
    /\ pc \notin {"updating", "pushing"} => DOMAIN seen = {}

TypeOK == PapersOK /\ MailOK /\ ControlOK /\ PlanOK /\ BatchOK

NoOne == [p \in {} |-> "idle"]

Init ==
    /\ state \in [Hits -> States]
    /\ unpublished = {} /\ urgent = {}
    /\ mail = {} /\ subscribed = FALSE
    /\ clock = 0 /\ restarts = 0
    /\ pc = "selected" /\ looping = FALSE /\ changed = FALSE
    /\ candidates = {} /\ ready = 0 /\ goal = 0
    /\ queued = {} /\ pending = {} /\ failed = {}
    /\ seen = NoOne /\ left = {}

-----------------------------------------------------------------------------
\* The pipeline, other clients and time.

SetState(p, s) == state' = [state EXCEPT ![p] = s]

\* Somebody else requests the paper, in bulk.
Request(p) ==
    /\ state[p] = "idle"
    /\ SetState(p, "queued")
    /\ UNCHANGED <<unpublished, urgent>>

\* The fetcher takes the paper's urgent job.
Pop(p) ==
    /\ p \in urgent
    /\ urgent' = urgent \ {p}
    /\ UNCHANGED paperVars

Fetch(p) ==
    /\ state[p] = "queued"
    /\ SetState(p, "fetched")
    /\ UNCHANGED <<unpublished, urgent>>

\* A failure that is not final, or an eviction of the PDF: nobody is told.
FallBack(p) ==
    /\ state[p] \in {"queued", "fetched"}
    /\ SetState(p, "idle")
    /\ UNCHANGED <<unpublished, urgent>>

\* The end is committed; _publish_done comes after that.
End(p) ==
    /\ \/ state[p] = "fetched" /\ SetState(p, "ready")
       \/ state[p] \in {"queued", "fetched"} /\ SetState(p, "abstract_only")
    /\ unpublished' = unpublished \cup {p}
    /\ UNCHANGED urgent

PaperMoves(p) ==
    /\ Request(p) \/ Pop(p) \/ Fetch(p) \/ FallBack(p) \/ End(p)
    /\ UNCHANGED mailVars

\* PUBLISH reaches whoever has subscribed before.
Publish(p) ==
    /\ p \in unpublished
    /\ unpublished' = unpublished \ {p}
    /\ mail' = IF subscribed /\ p \in candidates THEN mail \cup {<<p, state[p]>>} ELSE mail
    /\ UNCHANGED <<state, urgent, subscribed>>

\* The process dies between the commit and the PUBLISH.
NeverPublish(p) ==
    /\ p \in unpublished
    /\ unpublished' = unpublished \ {p}
    /\ UNCHANGED <<state, urgent, mailVars>>

Tick ==
    /\ pc \in InStep /\ clock < 2
    /\ clock' = clock + 1
    /\ UNCHANGED restarts

Environment ==
    \/ /\ \E p \in Hits : PaperMoves(p) \/ Publish(p) \/ NeverPublish(p)
       /\ UNCHANGED <<timeVars, pc, loopVars, planVars, seen, left>>
    \/ /\ Tick
       /\ UNCHANGED <<paperVars, urgent, mailVars, pc, loopVars, planVars, seen, left>>

-----------------------------------------------------------------------------
\* FetchPlan.

Reached   == ready >= Minimum
Exhausted == pending = {} /\ queued = candidates

\* The k best papers of a set.
Best(k, papers) == {p \in papers : Cardinality({q \in papers : Rank[q] < Rank[p]}) < k}

NextBatch ==
    IF ready >= goal THEN {}
    ELSE Best(goal - ready + Spare - Cardinality(pending), candidates \ queued)

FinishUnasked(withText, without) ==       \* mutant of Finish: counts papers that are not pending
    /\ pending' = pending \ (withText \cup without)
    /\ ready' = ready + Cardinality(withText)
    /\ failed' = failed \cup (pending \cap without)

\* finish, for the papers found ready and those found without full text.
Finish(withText, without) ==
    /\ pending' = pending \ (withText \cup without)
    /\ ready' = ready + Cardinality(pending \cap withText)
    /\ failed' = failed \cup (pending \cap without)

PlanFrame == UNCHANGED <<candidates, goal, queued>>

-----------------------------------------------------------------------------
\* step_fetch.

Goes(from, to) == pc = from /\ pc' = to
RunFrame == UNCHANGED <<unpublished, timeVars>>

\* The hits, with the states the search or load_hits has read, and a new plan.
Select ==
    /\ Goes("selected", "starting")
    /\ candidates' = {p \in Hits : state[p] # "ready"}
    /\ ready' = Cardinality({p \in Hits : state[p] = "ready"})
    /\ goal' = Minimum
    /\ queued' = {} /\ pending' = {} /\ failed' = {}
    /\ UNCHANGED <<state, urgent, mailVars, loopVars, seen, left>>

\* Nothing to fetch, or no time left for more than the minimum.
Start ==
    /\ Goes("starting", IF candidates = {} \/ (Reached /\ clock > 0) THEN "over" ELSE "subscribing")
    /\ UNCHANGED <<state, urgent, mailVars, loopVars, planVars, seen, left>>

Subscribe ==
    /\ Goes("subscribing", "aiming")
    /\ subscribed' = TRUE
    /\ UNCHANGED <<state, urgent, mail, loopVars, planVars, seen, left>>

\* update_goal: time left, so keep going past the minimum.
Aim ==
    /\ Goes("aiming", "asking")
    /\ goal' = IF Reached /\ clock = 0 /\ goal < Cardinality(Hits) THEN Cardinality(Hits) ELSE goal
    /\ UNCHANGED <<candidates, ready, queued, pending, failed>>
    /\ UNCHANGED <<state, urgent, mailVars, loopVars, seen, left>>

\* enqueue: the next batch, and the SELECT of enqueue_fulltext; or no batch is left.
Ask ==
    \/ /\ NextBatch # {}
       /\ Goes("asking", "updating")
       /\ queued' = queued \cup NextBatch
       /\ pending' = pending \cup NextBatch
       /\ seen' = [p \in NextBatch |-> state[p]]
       /\ UNCHANGED <<state, urgent, mailVars, loopVars, candidates, ready, goal, failed, left>>
    \/ /\ NextBatch = {}
       /\ Goes("asking", IF looping THEN "checking" ELSE "deciding")
       /\ UNCHANGED <<state, urgent, mailVars, loopVars, planVars, seen, left>>

SeenAs(states) == {p \in DOMAIN seen : seen[p] \in states}

\* enqueue_fulltext: the UPDATE, then the RPUSH.
Update ==
    /\ Goes("updating", "pushing")
    /\ state' = [p \in Hits |-> IF p \in SeenAs({"idle", "queued"}) /\ state[p] = "idle"
                                THEN "queued" ELSE state[p]]
    /\ UNCHANGED <<urgent, mailVars, loopVars, planVars, seen, left>>

\* What it says of papers that have ended is taken at once.
Push ==
    /\ Goes("pushing", "asking")
    /\ urgent' = urgent \cup SeenAs({"idle", "queued"})
    /\ Finish(SeenAs({"ready"}), SeenAs({"abstract_only"}))
    /\ PlanFrame
    /\ seen' = NoOne
    /\ UNCHANGED <<state, mailVars, loopVars, left>>

StopPastBudget == clock > 0               \* mutant of StopTime: the minimum is not mandatory

\* fetch_stop_at
StopTime == IF Reached THEN clock > 0 ELSE clock > 1

KeepWaitingAnyTime == ready < goal /\ ~Exhausted    \* mutant of KeepWaiting: looks at no clock

KeepWaiting == ready < goal /\ ~Exhausted /\ ~StopTime

\* On leaving the loop the subscription is given up.
Decide ==
    \/ /\ KeepWaiting
       /\ Goes("deciding", "receiving")
       /\ looping' = TRUE
       /\ UNCHANGED <<state, urgent, mailVars, changed, planVars, seen, left>>
    \/ /\ ~KeepWaiting
       /\ Goes("deciding", "demoting")
       /\ mail' = {} /\ subscribed' = FALSE
       /\ left' = pending
       /\ UNCHANGED <<state, urgent, loopVars, planVars, seen>>

\* get_message, with a timeout of a second.
Receive ==
    /\ Goes("receiving", "polling")
    /\ \/ \E m \in mail :
            /\ mail' = mail \ {m}
            /\ Finish({m[1]} \cap {p \in Hits : m[2] = "ready"},
                      {m[1]} \cap {p \in Hits : m[2] = "abstract_only"})
            /\ changed' = (m[1] \in pending)
       \/ /\ mail = {}
          /\ changed' = FALSE
          /\ UNCHANGED <<mail, ready, pending, failed>>
    /\ PlanFrame
    /\ UNCHANGED <<state, urgent, subscribed, looping, seen, left>>

NotYetDue ==
    /\ Goes("polling", IF changed THEN "aiming" ELSE "checking")
    /\ changed' = FALSE
    /\ UNCHANGED <<state, urgent, mailVars, looping, planVars, seen, left>>

\* The rows that are read of the pending papers.
InTable(s) == {p \in pending : state[p] = s}

PollReady ==                              \* mutant of Poll: does not look for abstract_only
    /\ Goes("polling", IF changed \/ InTable("ready") # {} THEN "aiming" ELSE "checking")
    /\ Finish(InTable("ready"), {})
    /\ changed' = FALSE
    /\ PlanFrame
    /\ UNCHANGED <<state, urgent, mailVars, looping, seen, left>>

\* Five seconds after the last look: the pending papers that have ended.
Poll ==
    /\ Goes("polling", IF changed \/ \E p \in pending : state[p] \in Ended THEN "aiming"
                                                                         ELSE "checking")
    /\ Finish(InTable("ready"), InTable("abstract_only"))
    /\ changed' = FALSE
    /\ PlanFrame
    /\ UNCHANGED <<state, urgent, mailVars, looping, seen, left>>

\* check_cancel: the user may have cancelled the run by now.  RunCancelled leaves the step
\* through the finally clause.
CheckCancel ==
    \/ /\ Goes("checking", "deciding")
       /\ UNCHANGED <<state, urgent, mailVars, loopVars, planVars, seen, left>>
    \/ /\ Goes("checking", "cancelled")
       /\ mail' = {} /\ subscribed' = FALSE
       /\ UNCHANGED <<state, urgent, loopVars, planVars, seen, left>>

DemoteOne ==                              \* mutant of Demote: only the first paper is moved
    /\ \/ /\ left # {}
          /\ Goes("demoting", "over")
          /\ \E p \in left : urgent' = urgent \ {p} /\ left' = {}
       \/ left = {} /\ Goes("demoting", "over") /\ UNCHANGED <<urgent, left>>
    /\ UNCHANGED <<state, mailVars, loopVars, planVars, seen>>

\* demote_fulltext, paper by paper; then the row of the step.
Demote ==
    /\ \/ \E p \in left :
            /\ Goes("demoting", "demoting")
            /\ urgent' = urgent \ {p}
            /\ left' = left \ {p}
       \/ left = {} /\ Goes("demoting", "over") /\ UNCHANGED <<urgent, left>>
    /\ UNCHANGED <<state, mailVars, loopVars, planVars, seen>>

RunStep ==
    /\ \/ Select \/ Start \/ Subscribe \/ Aim \/ Ask \/ Update \/ Push \/ Decide
       \/ Receive \/ NotYetDue \/ Poll \/ CheckCancel \/ Demote
    /\ RunFrame

\* The worker restarts, and the run with it: the deadline of a resumed run may be later,
\* and the safety stop begins anew.
Restart ==
    /\ pc \in InStep /\ restarts < MaxRestarts
    /\ restarts' = restarts + 1
    /\ clock' \in 0..1
    /\ pc' = "selected" /\ looping' = FALSE /\ changed' = FALSE
    /\ mail' = {} /\ subscribed' = FALSE
    /\ candidates' = {} /\ ready' = 0 /\ goal' = 0
    /\ queued' = {} /\ pending' = {} /\ failed' = {}
    /\ seen' = NoOne /\ left' = {}
    /\ UNCHANGED <<paperVars, urgent>>

-----------------------------------------------------------------------------
Next == Environment \/ RunStep \/ Restart

Spec == Init /\ [][Next]_vars

(***************************************************************************)
(* The event loop runs the job, and the loop looks into the table at least *)
(* every five seconds.  The pipeline need not get anywhere, a message need *)
(* not arrive, and time need not pass.                                     *)
(***************************************************************************)
Fairness == WF_vars(RunStep) /\ SF_vars(Poll /\ RunFrame)

FairSpec == Spec /\ Fairness
-----------------------------------------------------------------------------
\* Properties.

Succeeded == queued \ (pending \cup failed)

(***************************************************************************)
(* Every paper that was queued is counted once, whichever of the message,  *)
(* the look into the table and the answer of enqueue_fulltext is first, or *)
(* late, or comes twice: it is pending, or failed, or counts as ready.     *)
(***************************************************************************)
CountedOnce ==
    pc # "selected" =>
        /\ pending \cap failed = {}
        /\ ready = Cardinality(Hits \ candidates) + Cardinality(Succeeded)

(***************************************************************************)
(* The plan says of no paper what the papers table does not say.           *)
(***************************************************************************)
PlanIsTrue ==
    pc # "selected" =>
        /\ \A p \in (Hits \ candidates) \cup Succeeded : state[p] = "ready"
        /\ \A p \in failed : state[p] = "abstract_only"

\* What the plan says of the papers is so, of each paper once.
PlanAddsUp == TypeOK /\ CountedOnce /\ PlanIsTrue

(***************************************************************************)
(* The minimum is mandatory: short of it the step ends only at the safety  *)
(* stop or when no more paper can be fetched.                              *)
(***************************************************************************)
MinimumIsMandatory ==
    pc = "over" => \/ Cardinality({p \in Hits : state[p] = "ready"}) >= Minimum
                   \/ clock = 2
                   \/ candidates \subseteq {p \in Hits : state[p] \in Ended}

(***************************************************************************)
(* "Fetches this run no longer waits for must not delay the next run's     *)
(* urgent fetches" (run.py:602): what a run leaves in the urgent list is   *)
(* the jobs of papers that have ended, which the fetcher skips.            *)
(***************************************************************************)
OnlySkippedLeft == \A p \in urgent : state[p] \in Ended

NothingLeftUrgent == pc = "over" /\ restarts = 0 => OnlySkippedLeft

\* The same, of a run however it left the step.
NothingLeftUrgentEver == pc \in {"over", "cancelled"} /\ restarts = 0 => OnlySkippedLeft

(***************************************************************************)
(* A run does not wait for nothing: once all its candidates have ended, it *)
(* leaves the step, even if every message was lost and no time passed.     *)
(***************************************************************************)
SettledEnds ==
    (pc \in InStep \ {"selected"} /\ \A p \in candidates : state[p] \in Ended) ~> pc \notin InStep

(***************************************************************************)
(* And it leaves when its time has come: at the safety stop, and with the  *)
(* minimum reached at the end of the budget.                               *)
(***************************************************************************)
StopsInTime == (pc \in InStep /\ StopTime) ~> (pc \notin InStep \/ ~StopTime)
=============================================================================
