---------------------------- MODULE Conversation ----------------------------
(***************************************************************************)
(* What a thread remembers: the numbers of the papers it has cited and the *)
(* running summary of its older turns (backend/agent/threads.py, and of    *)
(* agent/run.py the beginning of _run, _store, _finish, update_summary).   *)
(*                                                                         *)
(* A turn is answered by a run (Runs has its life).  When its status is    *)
(* final the next question is accepted, while the run still folds an older *)
(* turn into the summary.                                                  *)
(***************************************************************************)
EXTENDS Integers, Sequences, FiniteSets, FiniteSetsExt

CONSTANTS
    Papers,      \* papers that answers cite
    MaxTurns,    \* bound: turns of the thread
    Window,      \* thread_full_turns
    MaxFaults    \* bound: faults and overlaps, of each kind at most one

FaultKinds == {"crash", "foldLost", "haste", "twoRuns"}

ASSUME ConstantsAssumption ==
    /\ IsFiniteSet(Papers)
    /\ MaxTurns \in Nat
    /\ Window \in Nat
    /\ MaxFaults \in Nat

Turns == 1..MaxTurns

VARIABLES
    status,     \* research_runs.status of each turn ("none": not asked yet)
    answer,     \* the papers its stored answer cites, in order
    numbers,    \* thread_citations: paper -> number
    summary,    \* threads.summary: the turns folded into it, in order
    pc,         \* where the run of a turn is
    told,       \* the conversation_context it has read: [summary, verbatim]
    draft,      \* the papers its verified answer cites
    existing,   \* the numbers its transaction has read
    fold,       \* update_summary of the run: [pc, turn, previous]
    faults      \* the faults and overlaps that have happened

threadVars == <<status, answer, numbers, summary>>
runVars    == <<pc, told, draft, existing>>
vars == <<threadVars, runVars, fold, faults>>

RunPcs  == {"none", "asked", "reading", "answering", "numbering", "storing", "finishing", "over"}
FoldPcs == {"idle", "selecting", "chosen", "asking"}

\* Answers cite each paper once, in order (dict.fromkeys).
Citations == {s \in UNION {[1..n -> Papers] : n \in 0..Cardinality(Papers)} :
                 \A i, j \in DOMAIN s : s[i] = s[j] => i = j}
Cited(s)  == {s[i] : i \in DOMAIN s}

NumbersOK(f) == \E known \in SUBSET Papers : f \in [known -> Nat \ {0}]

RowsOK ==
    /\ status \in [Turns -> {"none", "running", "done", "failed"}]
    /\ answer \in [Turns -> Citations]
    /\ NumbersOK(numbers)
    /\ summary \in Seq(Turns)

RunsOK ==
    /\ pc \in [Turns -> RunPcs]
    /\ told \in [Turns -> [summary: Seq(Turns), verbatim: SUBSET Turns]]
    /\ draft \in [Turns -> Citations]
    /\ DOMAIN existing = Turns /\ \A t \in Turns : NumbersOK(existing[t])
    /\ \A t \in Turns : pc[t] \notin {"none", "over"} <=> status[t] = "running"

FoldsOK ==
    /\ fold \in [Turns -> [pc: FoldPcs, turn: Turns \cup {0}, previous: Seq(Turns)]]
    /\ \A t \in Turns : fold[t].pc \in {"chosen", "asking"} => fold[t].turn \in Turns
    /\ \A t \in Turns : fold[t].pc # "idle" => status[t] = "done"

TypeOK == RowsOK /\ RunsOK /\ FoldsOK /\ faults \in SUBSET FaultKinds

NoNumbers == [p \in {} |-> 0]
NoContext == [summary |-> <<>>, verbatim |-> {}]
NoFold    == [pc |-> "idle", turn |-> 0, previous |-> <<>>]

Init ==
    /\ status = [t \in Turns |-> "none"]
    /\ answer = [t \in Turns |-> <<>>]
    /\ numbers = NoNumbers
    /\ summary = <<>>
    /\ pc = [t \in Turns |-> "none"]
    /\ told = [t \in Turns |-> NoContext]
    /\ draft = [t \in Turns |-> <<>>]
    /\ existing = [t \in Turns |-> NoNumbers]
    /\ fold = [t \in Turns |-> NoFold]
    /\ faults = {}

Fault(kind) ==
    /\ kind \notin faults
    /\ Cardinality(faults) < MaxFaults
    /\ faults' = faults \cup {kind}

Goes(t, from, to) == pc[t] = from /\ pc' = [pc EXCEPT ![t] = to]

\* A run that is over, or cut off, has no locals.
Forget(t) ==
    /\ told' = [told EXCEPT ![t] = NoContext]
    /\ draft' = [draft EXCEPT ![t] = <<>>]
    /\ existing' = [existing EXCEPT ![t] = NoNumbers]

-----------------------------------------------------------------------------
\* follow_up: the next turn; 409 while a run of the thread is active.  That two can be
\* active all the same is shown with Runs.

Asked   == {t \in Turns : status[t] # "none"}
Running == {t \in Turns : status[t] = "running"}

FollowUp(t) ==
    /\ t = Cardinality(Asked) + 1
    /\ IF Running = {} THEN UNCHANGED faults ELSE Fault("twoRuns")
    /\ status' = [status EXCEPT ![t] = "running"]
    /\ Goes(t, "none", "asked")
    /\ UNCHANGED <<answer, numbers, summary, told, draft, existing, fold>>

-----------------------------------------------------------------------------
\* conversation_context, at the beginning of _run: the summary, then the last turns.

Answered == {t \in Turns : status[t] = "done"}

Last(n, turns) == {t \in turns : Cardinality({u \in turns : u > t}) < n}

Before(t) == {u \in Answered : u < t}

\* The context is read while an earlier run still folds.
Folding == \E u \in Turns : fold[u].pc # "idle"

Hasty == IF Folding THEN Fault("haste") ELSE UNCHANGED faults

ReadSummary(t) ==
    /\ Goes(t, "asked", "reading")
    /\ told' = [told EXCEPT ![t] = [summary |-> summary, verbatim |-> {}]]
    /\ Hasty
    /\ UNCHANGED <<threadVars, draft, existing, fold>>

ReadTurns(t) ==
    /\ Goes(t, "reading", "answering")
    /\ told' = [told EXCEPT ![t].verbatim = Last(Window, Before(t))]
    /\ UNCHANGED <<threadVars, draft, existing, fold, faults>>

\* The steps from REWRITE to VERIFY.
Answer(t) ==
    /\ Goes(t, "answering", "numbering")
    /\ \E cited \in Citations : draft' = [draft EXCEPT ![t] = cited]
    /\ UNCHANGED <<threadVars, told, existing, fold, faults>>

\* No passages: done, and nothing is stored.
AnswerNothing(t) ==
    /\ Goes(t, "answering", "finishing")
    /\ UNCHANGED <<threadVars, told, draft, existing, fold, faults>>

\* Cancelled, or an exception in any step; the transaction of _store is rolled back.
Fails(t) ==
    /\ status[t] = "running"
    /\ pc' = [pc EXCEPT ![t] = "over"]
    /\ status' = [status EXCEPT ![t] = "failed"]
    /\ Forget(t)
    /\ UNCHANGED <<answer, numbers, summary, fold, faults>>

-----------------------------------------------------------------------------
\* _store: one transaction.

Highest(f) == Max({0} \cup {f[p] : p \in DOMAIN f})

Place(p, s) == CHOOSE i \in DOMAIN s : s[i] = p

NumberFromOne(known, cited) ==            \* mutant of NumberCitations: starts anew
    LET new == Cited(cited) \ DOMAIN known
    IN  [p \in new |-> Cardinality({q \in new : Place(q, cited) <= Place(p, cited)})]

\* number_citations: the papers that have no number yet get the next ones, in order.
NumberCitations(known, cited) ==
    LET new == Cited(cited) \ DOMAIN known
    IN  [p \in new |-> Highest(known) + Cardinality({q \in new : Place(q, cited) <= Place(p, cited)})]

ReadNumbers(t) ==
    /\ Goes(t, "numbering", "storing")
    /\ existing' = [existing EXCEPT ![t] = numbers]
    /\ UNCHANGED <<threadVars, told, draft, fold, faults>>

\* INSERT ... ON CONFLICT DO NOTHING: UNIQUE(thread_id, arxiv_id) and (thread_id, number).
Inserted(rows) ==
    {p \in DOMAIN rows : p \notin DOMAIN numbers /\ \A q \in DOMAIN numbers : numbers[q] # rows[p]}

StoreOverwrites(t) ==                     \* mutant of Store: ON CONFLICT DO UPDATE of all that is cited
    /\ Goes(t, "storing", "finishing")
    /\ answer' = [answer EXCEPT ![t] = draft[t]]
    /\ numbers' = [p \in DOMAIN numbers \cup Cited(draft[t]) |->
                     IF p \in Cited(draft[t]) THEN Place(p, draft[t]) ELSE numbers[p]]
    /\ UNCHANGED <<status, summary, told, draft, existing, fold, faults>>

Store(t) ==
    /\ Goes(t, "storing", "finishing")
    /\ answer' = [answer EXCEPT ![t] = draft[t]]
    /\ LET rows == NumberCitations(existing[t], draft[t])
       IN  numbers' = [p \in DOMAIN numbers \cup Inserted(rows) |->
                         IF p \in DOMAIN numbers THEN numbers[p] ELSE rows[p]]
    /\ UNCHANGED <<status, summary, told, draft, existing, fold, faults>>

-----------------------------------------------------------------------------
\* _finish: the status is final and published; then update_summary.

Finish(t) ==
    /\ Goes(t, "finishing", "over")
    /\ status' = [status EXCEPT ![t] = "done"]
    /\ fold' = [fold EXCEPT ![t].pc = "selecting"]
    /\ Forget(t)
    /\ UNCHANGED <<answer, numbers, summary, faults>>

FoldSelectNewest(t) ==                    \* mutant of FoldSelect: runs[-full_turns]
    /\ fold[t].pc = "selecting"
    /\ fold' = [fold EXCEPT ![t] =
           IF Cardinality(Answered) <= Window THEN NoFold
           ELSE [NoFold EXCEPT !.pc = "chosen",
                               !.turn = CHOOSE u \in Last(Window, Answered) :
                                           \A v \in Last(Window, Answered) : u <= v]]
    /\ UNCHANGED <<threadVars, runVars, faults>>

\* The turn that has just left the window.
FoldSelect(t) ==
    /\ fold[t].pc = "selecting"
    /\ fold' = [fold EXCEPT ![t] =
           IF Cardinality(Answered) <= Window THEN NoFold
           ELSE [NoFold EXCEPT !.pc = "chosen",
                               !.turn = CHOOSE u \in Answered :
                                           Cardinality({v \in Answered : v > u}) = Window]]
    /\ UNCHANGED <<threadVars, runVars, faults>>

FoldPrevious(t) ==
    /\ fold[t].pc = "chosen"
    /\ fold' = [fold EXCEPT ![t].pc = "asking", ![t].previous = summary]
    /\ UNCHANGED <<threadVars, runVars, faults>>

\* The light model's new summary replaces the old one.
FoldWrite(t) ==
    /\ fold[t].pc = "asking"
    /\ summary' = Append(fold[t].previous, fold[t].turn)
    /\ fold' = [fold EXCEPT ![t] = NoFold]
    /\ UNCHANGED <<status, answer, numbers, runVars, faults>>

\* An exception, which is logged, or a restart: a run that is done is not resumed.
FoldLost(t) ==
    /\ fold[t].pc # "idle"
    /\ Fault("foldLost")
    /\ fold' = [fold EXCEPT ![t] = NoFold]
    /\ UNCHANGED <<threadVars, runVars>>

-----------------------------------------------------------------------------
\* A run that is cut off is resumed: it reads its context again, and what it verifies again
\* may cite other papers.
CutOff(t) ==
    /\ pc[t] \notin {"none", "asked", "over"}
    /\ Fault("crash")
    /\ pc' = [pc EXCEPT ![t] = "asked"]
    /\ Forget(t)
    /\ UNCHANGED <<threadVars, fold>>

Next ==
    \E t \in Turns :
        \/ FollowUp(t) \/ ReadSummary(t) \/ ReadTurns(t)
        \/ Answer(t) \/ AnswerNothing(t) \/ Fails(t) \/ ReadNumbers(t) \/ Store(t) \/ Finish(t)
        \/ FoldSelect(t) \/ FoldPrevious(t) \/ FoldWrite(t) \/ FoldLost(t)
        \/ CutOff(t)

Spec == Init /\ [][Next]_vars
-----------------------------------------------------------------------------
\* Properties.  Some hold as long as faults of the given kinds have not happened.

Spared(kinds) == kinds \cap faults = {}

(***************************************************************************)
(* "A paper keeps its number" (agent/text.py): a number, once given, names *)
(* its paper in all later answers of the thread, and no other paper,       *)
(* restarts and two runs of the thread included.                           *)
(***************************************************************************)
NumbersStay ==
    [][/\ \A p \in DOMAIN numbers : p \in DOMAIN numbers' /\ numbers'[p] = numbers[p]
       /\ \A p, q \in DOMAIN numbers' : numbers'[p] = numbers'[q] => p = q]_vars

(***************************************************************************)
(* "Stable per-thread numbering, in order of first citation": what an      *)
(* answer cites has a number, and a paper that a later turn was the first  *)
(* to cite has a greater one, unless two runs of the thread stored at once *)
(* or a resumed run cited other papers than at first.                      *)
(***************************************************************************)
CitedEarlier(t) == UNION {Cited(answer[u]) : u \in 1..(t - 1)}

CitedInOrder ==
    Spared({"twoRuns"}) =>
        \A t \in Answered : \A p \in Cited(answer[t]) :
            /\ p \in DOMAIN numbers
            /\ Spared({"crash"}) /\ p \notin CitedEarlier(t) =>
                 \A q \in CitedEarlier(t) : numbers[q] < numbers[p]

\* Typed, and what an answer cites is numbered in the order of the thread.
NumbersInOrder == TypeOK /\ CitedInOrder

(***************************************************************************)
(* A run is told of every answered turn: "the running summary for older    *)
(* turns plus the last full_turns turns verbatim", each once and in order, *)
(* if the question waited for the summary and no summary was lost.         *)
(***************************************************************************)
InOrder(turns) == CHOOSE s \in [1..Cardinality(turns) -> turns] :
                      \A i, j \in DOMAIN s : i < j => s[i] < s[j]

ContextComplete ==
    Spared({"haste", "foldLost", "twoRuns"}) =>
        \A t \in Turns : pc[t] \in {"answering", "numbering", "storing", "finishing"} =>
            /\ told[t].verbatim = Last(Window, Before(t))
            /\ told[t].summary = InOrder(Before(t) \ Last(Window, Before(t)))

(***************************************************************************)
(* No turn is both in the summary a run is told and told verbatim, even if *)
(* summaries are late, lost or overwrite each other.                       *)
(***************************************************************************)
NoTurnToldTwice ==
    Spared({"twoRuns"}) =>
        \A t \in Turns : {told[t].summary[i] : i \in DOMAIN told[t].summary} \cap told[t].verbatim = {}

\* What a run is told: every turn that it should be told of, and none of them twice.
TurnsAreToldOnce == ContextComplete /\ NoTurnToldTwice
=============================================================================
