-------------------------- MODULE FetchWaitProofs --------------------------
(***************************************************************************)
(* Proofs about FetchWait, for any papers, any share, any number of spares *)
(* and of restarts: its types, and that the bookkeeping of the step agrees *)
(* with the papers table, that the minimum is mandatory, and that nothing  *)
(* of a finished step is left in the urgent queue.                         *)
(***************************************************************************)
EXTENDS FetchWait, FiniteSetTheorems, TLAPS

-----------------------------------------------------------------------------
\* Sets of papers are finite, and the minimum is a number.

LEMMA HitsFinite ==
  ASSUME NEW S \in SUBSET Hits
  PROVE  IsFiniteSet(S) /\ Cardinality(S) \in Nat
BY ConstantsAssumption, FS_Subset, FS_CardinalityType

LEMMA MinimumNat == Minimum \in Nat
<1> DEFINE n == Cardinality(Hits)
<1>1. n \in Nat
  BY ConstantsAssumption, FS_CardinalityType
<1>2. Share \in Nat
  BY ConstantsAssumption
<1> HIDE DEF n
<1>3. n * Share \in Nat
  BY <1>1, <1>2
<1> DEFINE m == n * Share
<1> HIDE DEF m
<1>4. (m + 99) \div 100 \in Nat
  BY <1>3 DEF m
<1> QED
  BY <1>4 DEF Minimum, m, n

\* The number of papers in a union of two sets that have none in common.
LEMMA CountBoth ==
  ASSUME NEW S \in SUBSET Hits, NEW T \in SUBSET Hits, S \cap T = {}
  PROVE  Cardinality(S \cup T) = Cardinality(S) + Cardinality(T)
<1>1. Cardinality(S \cup T) = Cardinality(S) + Cardinality(T) - Cardinality(S \cap T)
  BY HitsFinite, FS_Union
<1>2. Cardinality(S \cap T) = 0
  BY FS_EmptySet
<1> QED
  BY <1>1, <1>2, HitsFinite

-----------------------------------------------------------------------------
\* Types.

\* What finish does to the sets of the plan.
LEMMA FinishOK ==
  ASSUME PlanOK, NEW withText, NEW without, Finish(withText, without), PlanFrame
  PROVE  PlanOK' /\ pending' \subseteq pending
<1>1. Cardinality(pending \cap withText) \in Nat
  BY HitsFinite DEF PlanOK
<1> QED
  BY <1>1 DEF Finish, PlanOK, PlanFrame

\* With nothing under way in a batch or left to demote, BatchOK survives any plan.
LEMMA NoBatchOK ==
  ASSUME DOMAIN seen' = {}, seen' = seen \/ seen' = NoOne, BatchOK, left' = {}
  PROVE  BatchOK'
<1>1. \E batch \in SUBSET pending' : seen' \in [batch -> States]
  <2>1. seen' \in [{} -> States]
    BY DEF BatchOK, NoOne
  <2> QED
    BY <2>1
<1> QED
  BY <1>1 DEF BatchOK

\* A step of the environment.
LEMMA EnvironmentTyping ==
  ASSUME TypeOK, Environment
  PROVE  TypeOK'
<1>1. PlanOK' /\ BatchOK'
  BY DEF Environment, TypeOK, PlanOK, BatchOK, planVars
<1>2. CASE UNCHANGED <<timeVars, loopVars>> /\ \E p \in Hits : PaperMoves(p) \/ Publish(p) \/ NeverPublish(p)
  <2>1. PICK p \in Hits : PaperMoves(p) \/ Publish(p) \/ NeverPublish(p)
    BY <1>2
  <2>2. PapersOK'
    BY <2>1 DEF TypeOK, PapersOK, PaperMoves, Publish, NeverPublish, Request, Pop, Fetch,
                FallBack, End, SetState, paperVars, States, Ended
  <2>3. MailOK'
    <3>1. CASE Publish(p)
      BY <3>1 DEF TypeOK, PapersOK, MailOK, Publish
    <3>2. CASE UNCHANGED mailVars
      BY <3>2 DEF TypeOK, MailOK, mailVars
    <3> QED
      BY <2>1, <3>1, <3>2 DEF PaperMoves, NeverPublish
  <2>4. ControlOK'
    BY <1>2 DEF Environment, TypeOK, ControlOK, timeVars, loopVars, Tick
  <2> QED
    BY <1>1, <2>2, <2>3, <2>4 DEF TypeOK
<1>3. CASE Tick /\ UNCHANGED <<paperVars, urgent, mailVars, pc, loopVars>>
  <2>1. PapersOK' /\ MailOK'
    BY <1>3 DEF TypeOK, PapersOK, MailOK, paperVars, mailVars
  <2>2. ControlOK'
    BY <1>3 DEF Tick, TypeOK, ControlOK, loopVars
  <2> QED
    BY <1>1, <2>1, <2>2 DEF TypeOK
<1> QED
  BY <1>2, <1>3 DEF Environment

\* Where the run is and what of its locals a step changes: one fact for each step.
LEMMA ControlTyping ==
  ASSUME TypeOK, RunStep
  PROVE  ControlOK'
<1>1. UNCHANGED timeVars /\ clock \in 0..2 /\ restarts \in 0..MaxRestarts
  BY DEF RunStep, RunFrame, TypeOK, ControlOK
<1>2. pc' \in InStep \cup {"over", "cancelled"}
  BY DEF RunStep, Select, Start, Subscribe, Aim, Ask, Update, Push, Decide, Receive, NotYetDue,
         Poll, CheckCancel, Demote, Goes, InStep, Waiting
<1>3. looping' \in BOOLEAN
  BY DEF RunStep, Select, Start, Subscribe, Aim, Ask, Update, Push, Decide, Receive, NotYetDue,
         Poll, CheckCancel, Demote, loopVars, TypeOK, ControlOK
<1>4. changed' \in BOOLEAN
  <2>1. CASE Receive
    <3>1. (\E m \in mail : changed' = (m[1] \in pending)) \/ changed' = FALSE
      BY <2>1 DEF Receive
    <3>2. ASSUME NEW m \in mail, changed' = (m[1] \in pending)
          PROVE  changed' = TRUE \/ changed' = FALSE
      <4>1. m[1] \in pending \/ ~(m[1] \in pending)
        OBVIOUS
      <4>2. (m[1] \in pending) = TRUE \/ (m[1] \in pending) = FALSE
        BY <4>1, SMT
      <4> QED
        BY <3>2, <4>2, Zenon
    <3> QED
      BY <3>1, <3>2
  <2>2. CASE UNCHANGED changed \/ changed' = FALSE
    BY <2>2 DEF TypeOK, ControlOK
  <2> QED
    BY <2>1, <2>2 DEF RunStep, Select, Start, Subscribe, Aim, Ask, Update, Push, Decide,
         NotYetDue, Poll, CheckCancel, Demote, loopVars
<1> QED
  BY <1>1, <1>2, <1>3, <1>4 DEF ControlOK, timeVars

\* The papers and the messages: a batch is queued, a message is read, copies are moved.
LEMMA PapersTyping ==
  ASSUME TypeOK, RunStep
  PROVE  PapersOK' /\ MailOK'
<1>1. UNCHANGED unpublished
  BY DEF RunStep, RunFrame
<1>2. \A p \in Hits : state'[p] # state[p] => state[p] = "idle"
  BY DEF RunStep, Select, Start, Subscribe, Aim, Ask, Update, Push, Decide, Receive, NotYetDue,
         Poll, CheckCancel, Demote, TypeOK, PapersOK
<1>3. state' \in [Hits -> States]
  BY DEF RunStep, Select, Start, Subscribe, Aim, Ask, Update, Push, Decide, Receive, NotYetDue,
         Poll, CheckCancel, Demote, TypeOK, PapersOK, States
<1>4. urgent' \in SUBSET Hits
  <2>1. DOMAIN seen \subseteq Hits
    BY DEF TypeOK, BatchOK, PlanOK
  <2> QED
    BY <2>1 DEF RunStep, Select, Start, Subscribe, Aim, Ask, Update, Push, Decide, Receive,
         NotYetDue, Poll, CheckCancel, Demote, TypeOK, PapersOK, SeenAs
<1>5. MailOK'
  BY DEF RunStep, Select, Start, Subscribe, Aim, Ask, Update, Push, Decide, Receive, NotYetDue,
         Poll, CheckCancel, Demote, TypeOK, MailOK, mailVars
<1>6. unpublished' \in SUBSET {p \in Hits : state'[p] \in Ended}
  BY <1>1, <1>2 DEF TypeOK, PapersOK, Ended
<1> QED
  BY <1>3, <1>4, <1>5, <1>6 DEF PapersOK

\* The plan and the batch that is under way, step by step.
LEMMA PlanTyping ==
  ASSUME TypeOK, RunStep
  PROVE  PlanOK' /\ BatchOK'
<1> USE DEF TypeOK
<1>1. CASE Select
  <2>1. PlanOK'
    <3>1. Cardinality({p \in Hits : state[p] = "ready"}) \in Nat
      BY HitsFinite
    <3> QED
      BY <1>1, <3>1, MinimumNat DEF Select, PlanOK
  <2> QED
    BY <1>1, <2>1, NoBatchOK DEF Select, Goes, BatchOK
<1>2. CASE Start \/ Subscribe \/ Decide \/ NotYetDue \/ CheckCancel \/ Update
  <2>1. UNCHANGED <<planVars, seen>>
    BY <1>2 DEF Start, Subscribe, Decide, NotYetDue, CheckCancel, Update
  <2>2. PlanOK'
    BY <2>1 DEF PlanOK, planVars
  <2> QED
    BY <1>2, <2>1, <2>2 DEF BatchOK, PlanOK, planVars, Start, Subscribe, Decide, NotYetDue,
                            CheckCancel, Update, Goes
<1>3. CASE Aim
  <2>1. Cardinality(Hits) \in Nat
    BY HitsFinite
  <2> QED
    BY <1>3, <2>1 DEF Aim, Goes, PlanOK, BatchOK
<1>4. CASE Ask
  <2>1. CASE NextBatch = {}
    BY <1>4, <2>1 DEF Ask, Goes, PlanOK, BatchOK, planVars
  <2>2. CASE NextBatch # {}
    <3>1. NextBatch \subseteq candidates
      BY DEF NextBatch, Best
    <3>2. PlanOK'
      BY <1>4, <2>2, <3>1 DEF Ask, PlanOK
    <3>3. seen' \in [NextBatch -> States] /\ NextBatch \in SUBSET pending'
      BY <1>4, <2>2, <3>1 DEF Ask, PlanOK, PapersOK
    <3>4. UNCHANGED left /\ pc = "asking" /\ pc' = "updating"
      BY <1>4, <2>2 DEF Ask, Goes
    <3> QED
      BY <3>2, <3>3, <3>4 DEF BatchOK
  <2> QED
    BY <2>1, <2>2
<1>5. CASE Push
  <2>1. PlanOK'
    BY <1>5, FinishOK DEF Push
  <2> QED
    BY <1>5, <2>1, NoBatchOK DEF Push, Goes, BatchOK, NoOne
<1>6. CASE Receive \/ Poll
  <2>1. PICK S, T : Finish(S, T) \/ UNCHANGED <<ready, pending, failed>>
    BY <1>6 DEF Receive, Poll
  <2>2. PlanOK'
    BY <1>6, <2>1, FinishOK DEF Receive, Poll, PlanFrame, PlanOK
  <2>3. DOMAIN seen = {} /\ left = {} /\ UNCHANGED <<seen, left>>
    BY <1>6 DEF Receive, Poll, Goes, BatchOK
  <2> QED
    BY <1>6, <2>2, <2>3, NoBatchOK
<1>7. CASE Demote
  BY <1>7 DEF Demote, Goes, PlanOK, BatchOK, planVars
<1> QED
  BY <1>1, <1>2, <1>3, <1>4, <1>5, <1>6, <1>7 DEF RunStep

\* A restart forgets all of the step.
LEMMA RestartTyping ==
  ASSUME TypeOK, Restart
  PROVE  TypeOK'
<1>1. PapersOK' /\ MailOK'
  BY DEF TypeOK, PapersOK, MailOK, Restart, paperVars
<1>2. ControlOK' /\ PlanOK'
  <2>1. MaxRestarts \in Nat
    BY ConstantsAssumption
  <2>2. clock' \in 0..2 /\ restarts' \in 0..MaxRestarts
    BY <2>1 DEF TypeOK, ControlOK, Restart
  <2>3. pc' = "selected" /\ looping' = FALSE /\ changed' = FALSE
    BY DEF Restart
  <2>4. PlanOK'
    BY DEF Restart, PlanOK
  <2> QED
    BY <2>2, <2>3, <2>4 DEF ControlOK, InStep
<1>3. BatchOK'
  BY DEF TypeOK, BatchOK, Restart, NoOne
<1> QED
  BY <1>1, <1>2, <1>3 DEF TypeOK

LEMMA TypingInit == Init => TypeOK
<1> SUFFICES ASSUME Init PROVE TypeOK
  OBVIOUS
<1>1. PapersOK /\ MailOK /\ PlanOK
  BY DEF Init, PapersOK, MailOK, PlanOK
<1>2. ControlOK
  <2>1. MaxRestarts \in Nat
    BY ConstantsAssumption
  <2>2. clock \in 0..2 /\ restarts \in 0..MaxRestarts
    BY <2>1 DEF Init
  <2>3. pc = "selected" /\ looping = FALSE /\ changed = FALSE
    BY DEF Init
  <2> QED
    BY <2>2, <2>3 DEF ControlOK, InStep
<1>3. BatchOK
  BY DEF Init, BatchOK, NoOne
<1> QED
  BY <1>1, <1>2, <1>3 DEF TypeOK

LEMMA TypingStep ==
  ASSUME TypeOK, [Next]_vars
  PROVE  TypeOK'
<1>1. CASE UNCHANGED vars
  BY <1>1 DEF vars, paperVars, mailVars, timeVars, loopVars, planVars, TypeOK, PapersOK, MailOK,
              ControlOK, PlanOK, BatchOK
<1> QED
  BY <1>1, EnvironmentTyping, ControlTyping, PapersTyping, PlanTyping, RestartTyping
     DEF Next, TypeOK

(***************************************************************************)
(* Every reachable state is well typed: only papers that were queued are   *)
(* pending or failed, a batch is pending while it is queued, and nothing   *)
(* is left to demote before the run has stopped waiting.                   *)
(***************************************************************************)
THEOREM Typing == Spec => []TypeOK
BY TypingInit, TypingStep, PTL DEF Spec

-----------------------------------------------------------------------------
\* What the run has been told, and not taken in yet, is so.

MailTrue == \A m \in mail : state[m[1]] = m[2]
SeenTrue == \A p \in DOMAIN seen : seen[p] \in Ended => state[p] = seen[p]

\* The papers that are known to have full text, and what the plan says of them.
Known == (Hits \ candidates) \cup Succeeded
Told  == /\ \A p \in Known : state[p] = "ready"
         /\ \A p \in failed : state[p] = "abstract_only"
Tally == /\ pending \cap failed = {}
         /\ ready = Cardinality(Hits \ candidates) + Cardinality(Succeeded)

(***************************************************************************)
(* The inductive invariant behind CountedOnce and PlanIsTrue: a message or *)
(* an answer is taken in long after it was true, so it has to be true of   *)
(* the table still.                                                        *)
(***************************************************************************)
PlanInv ==
    /\ MailTrue /\ SeenTrue
    /\ pc # "selected" => Told /\ Tally

\* The end of a paper is final.
LEMMA EndsStay ==
  ASSUME TypeOK, [Next]_vars
  PROVE  \A p \in Hits : state[p] \in Ended => state'[p] = state[p]
<1>1. CASE Environment
  BY <1>1 DEF Environment, PaperMoves, Publish, NeverPublish, Request, Pop, Fetch, FallBack, End,
              SetState, paperVars, Ended, TypeOK, PapersOK
<1>2. CASE RunStep
  BY <1>2 DEF RunStep, Select, Start, Subscribe, Aim, Ask, Update, Push, Decide, Receive,
              NotYetDue, Poll, CheckCancel, Demote, Ended, TypeOK, PapersOK
<1>3. CASE Restart \/ UNCHANGED vars
  BY <1>3 DEF Restart, paperVars, vars
<1> QED
  BY <1>1, <1>2, <1>3 DEF Next

\* What the run is told stays true, and nothing else is added to it.
LEMMA TrueStep ==
  ASSUME TypeOK, MailTrue, SeenTrue, [Next]_vars
  PROVE  MailTrue' /\ SeenTrue'
<1>1. DOMAIN seen \subseteq Hits /\ mail \subseteq Hits \X Ended
  BY DEF TypeOK, BatchOK, PlanOK, MailOK
<1>2. MailTrue'
  <2>1. \/ mail' \subseteq mail
        \/ \E p \in unpublished :
              mail' \subseteq mail \cup {<<p, state[p]>>} /\ UNCHANGED state
    BY DEF Next, vars, Environment, PaperMoves, Publish, NeverPublish, mailVars, RunStep, Select,
           Start, Subscribe, Aim, Ask, Update, Push, Decide, Receive, NotYetDue, Poll,
           CheckCancel, Demote, Restart
  <2>2. CASE mail' \subseteq mail
    BY <1>1, <2>2, EndsStay DEF MailTrue
  <2>3. ASSUME NEW p \in unpublished, mail' \subseteq mail \cup {<<p, state[p]>>}, UNCHANGED state
        PROVE  MailTrue'
    BY <2>3 DEF MailTrue
  <2> QED
    BY <2>1, <2>2, <2>3
<1>3. SeenTrue'
  <2>1. CASE Ask /\ RunFrame /\ NextBatch # {}
    BY <2>1 DEF Ask, SeenTrue
  <2>2. CASE UNCHANGED seen \/ seen' = NoOne
    BY <1>1, <2>2, EndsStay DEF SeenTrue, NoOne
  <2> QED
    BY <2>1, <2>2 DEF Next, vars, Environment, RunStep, Select, Start, Subscribe, Aim, Ask,
       Update, Push, Decide, Receive, NotYetDue, Poll, CheckCancel, Demote, Restart
<1> QED
  BY <1>2, <1>3

-----------------------------------------------------------------------------
\* The plan.

\* finish keeps the plan true and each paper counted once, if what it is told is so.
LEMMA FinishCounts ==
  ASSUME PlanOK, PlanOK', Told, Tally, PlanFrame,
         NEW withText, NEW without, Finish(withText, without),
         \A p \in pending \cap withText : state'[p] = "ready",
         \A p \in pending \cap without : state'[p] = "abstract_only",
         \A p \in Hits : state[p] \in Ended => state'[p] = state[p]
  PROVE  Told' /\ Tally'
<1>1. UNCHANGED <<candidates, queued>>
  BY DEF PlanFrame
<1>2. pending \cap withText \cap without = {}
  OBVIOUS
<1>3. Succeeded' = Succeeded \cup (pending \cap withText)
  BY <1>1, <1>2 DEF Succeeded, Finish, Tally, PlanOK
<1>4. Succeeded \cap (pending \cap withText) = {}
  BY DEF Succeeded
<1>5. Told'
  BY <1>1, <1>3 DEF Told, Known, Finish, PlanOK, Ended, Succeeded
<1>6. (pending \cap failed = {})'
  BY DEF Tally, Finish
<1>7. Cardinality(Succeeded') = Cardinality(Succeeded) + Cardinality(pending \cap withText)
  BY <1>3, <1>4, CountBoth DEF Succeeded, PlanOK
<1>8. Cardinality(Hits \ candidates) \in Nat /\ Cardinality(Succeeded) \in Nat
      /\ Cardinality(pending \cap withText) \in Nat
  BY HitsFinite DEF Succeeded, PlanOK
<1>9. ready' = Cardinality(Hits \ candidates') + Cardinality(Succeeded')
  BY <1>1, <1>7, <1>8 DEF Tally, Finish
<1> QED
  BY <1>5, <1>6, <1>9 DEF Tally

\* A step that leaves the plan alone keeps it true.
LEMMA FrameCounts ==
  ASSUME PlanOK, Told, Tally, UNCHANGED <<candidates, ready, queued, pending, failed>>,
         \A p \in Hits : state[p] \in Ended => state'[p] = state[p]
  PROVE  Told' /\ Tally'
BY DEF Told, Known, Tally, Succeeded, PlanOK, Ended

\* A new batch is pending, and counts for nothing yet.
LEMMA BatchCounts ==
  ASSUME PlanOK, Told, Tally, Ask, NextBatch # {}
  PROVE  Told' /\ Tally'
<1>1. NextBatch \subseteq candidates \ queued
  BY DEF NextBatch, Best
<1>2. Succeeded' = Succeeded
  BY <1>1 DEF Ask, Succeeded, PlanOK
<1> QED
  BY <1>1, <1>2 DEF Ask, Told, Known, Tally, PlanOK

\* A new plan counts the papers that have full text.
LEMMA SelectCounts ==
  ASSUME TypeOK, Select
  PROVE  Told' /\ Tally'
<1>1. Succeeded' = {} /\ failed' = {} /\ pending' = {}
  BY DEF Select, Succeeded
<1>2. Hits \ candidates' = {p \in Hits : state[p] = "ready"} /\ UNCHANGED state
  BY DEF Select
<1>3. ready' = Cardinality(Hits \ candidates') /\ ready' \in Nat
  BY <1>2, HitsFinite DEF Select
<1> QED
  BY <1>1, <1>2, <1>3, FS_EmptySet DEF Told, Known, Tally

\* Every step of the run keeps the plan.
LEMMA RunCounts ==
  ASSUME TypeOK, PlanOK', MailTrue, SeenTrue, pc # "selected" => Told /\ Tally, RunStep,
         \A p \in Hits : state[p] \in Ended => state'[p] = state[p]
  PROVE  Told' /\ Tally'
<1>0. PlanOK /\ DOMAIN seen \subseteq Hits
  BY DEF TypeOK, BatchOK, PlanOK
<1>1. CASE Select
  BY <1>1, SelectCounts
<1>2. CASE Start \/ Subscribe \/ Aim \/ Update \/ Decide \/ NotYetDue \/ CheckCancel \/ Demote
  <2>1. pc # "selected" /\ UNCHANGED <<candidates, ready, queued, pending, failed>>
    BY <1>2 DEF Start, Subscribe, Aim, Update, Decide, NotYetDue, CheckCancel, Demote, Goes, planVars
  <2> QED
    BY <1>0, <2>1, FrameCounts
<1>3. CASE Ask
  <2>1. CASE NextBatch # {}
    BY <1>0, <1>3, <2>1, BatchCounts DEF Ask, Goes
  <2>2. CASE NextBatch = {}
    BY <1>0, <1>3, <2>2, FrameCounts DEF Ask, Goes, planVars
  <2> QED
    BY <2>1, <2>2
<1>4. CASE Push
  <2>1. \A p \in SeenAs({"ready"}) : state'[p] = "ready"
    BY <1>0, <1>4 DEF Push, SeenTrue, SeenAs, Ended
  <2>2. \A p \in SeenAs({"abstract_only"}) : state'[p] = "abstract_only"
    BY <1>0, <1>4 DEF Push, SeenTrue, SeenAs, Ended
  <2>3. pc # "selected" /\ PlanFrame /\ Finish(SeenAs({"ready"}), SeenAs({"abstract_only"}))
    BY <1>4 DEF Push, Goes
  <2> QED
    BY <1>0, <2>1, <2>2, <2>3, FinishCounts
<1>5. CASE Receive
  <2>0. pc # "selected" /\ PlanFrame /\ UNCHANGED state
    BY <1>5 DEF Receive, Goes
  <2>1. CASE UNCHANGED <<ready, pending, failed>>
    BY <1>0, <2>0, <2>1, FrameCounts DEF PlanFrame
  <2>2. ASSUME NEW m \in mail,
               Finish({m[1]} \cap {p \in Hits : m[2] = "ready"},
                      {m[1]} \cap {p \in Hits : m[2] = "abstract_only"})
        PROVE  Told' /\ Tally'
    <3>1. state'[m[1]] = m[2]
      BY <2>0 DEF MailTrue
    <3> QED
      BY <1>0, <2>0, <2>2, <3>1, FinishCounts
  <2> QED
    BY <1>5, <2>1, <2>2 DEF Receive
<1>6. CASE Poll
  BY <1>0, <1>6, FinishCounts DEF Poll, Goes, InTable
<1> QED
  BY <1>1, <1>2, <1>3, <1>4, <1>5, <1>6 DEF RunStep

LEMMA PlanInvStep ==
  ASSUME TypeOK, PlanInv, [Next]_vars
  PROVE  PlanInv'
<1>1. MailTrue' /\ SeenTrue'
  BY TrueStep DEF PlanInv
<1>2. \A p \in Hits : state[p] \in Ended => state'[p] = state[p]
  BY EndsStay
<1>3. PlanOK /\ PlanOK'
  BY TypingStep DEF TypeOK
<1>4. CASE RunStep
  BY <1>1, <1>2, <1>3, <1>4, RunCounts DEF PlanInv
<1>5. CASE Environment \/ UNCHANGED vars
  <2>1. UNCHANGED <<pc, planVars>>
    BY <1>5 DEF Environment, vars
  <2> QED
    BY <1>1, <1>2, <1>3, <2>1, FrameCounts DEF PlanInv, planVars
<1>6. CASE Restart
  BY <1>1, <1>6 DEF Restart, PlanInv
<1> QED
  BY <1>4, <1>5, <1>6 DEF Next

LEMMA PlanInvAlways == Spec => []PlanInv
<1>1. Init => PlanInv
  BY DEF Init, PlanInv, MailTrue, SeenTrue, NoOne
<1> QED
  BY <1>1, PlanInvStep, Typing, PTL DEF Spec

(***************************************************************************)
(* A paper that was queued counts once: it is pending, or failed, or it is *)
(* one of those the plan counts as ready, in whatever order and however    *)
(* often its end is heard of.                                              *)
(***************************************************************************)
THEOREM PapersCountOnce == Spec => []CountedOnce
<1>1. PlanInv => CountedOnce
  BY DEF PlanInv, Tally, CountedOnce
<1> QED
  BY <1>1, PlanInvAlways, PTL

(***************************************************************************)
(* The plan says of no paper what the papers table does not say, although  *)
(* it is told by messages and answers that are read late.                  *)
(***************************************************************************)
THEOREM PlanAgrees == Spec => []PlanIsTrue
<1>1. PlanInv => PlanIsTrue
  BY DEF PlanInv, Told, Known, PlanIsTrue
<1> QED
  BY <1>1, PlanInvAlways, PTL

(***************************************************************************)
(* What the plan says of the papers is so, and it counts none twice.       *)
(***************************************************************************)
THEOREM PlanAlwaysAddsUp == Spec => []PlanAddsUp
<1>1. TypeOK /\ CountedOnce /\ PlanIsTrue => PlanAddsUp
  BY DEF PlanAddsUp
<1> QED
  BY <1>1, Typing, PapersCountOnce, PlanAgrees, PTL

-----------------------------------------------------------------------------
\* Why the step ends.

Justified == ready >= Minimum \/ clock = 2 \/ (pending = {} /\ queued = candidates)

\* Inductive: the goal is never below the minimum, and the run stops waiting for a reason.
EndInv ==
    /\ pc # "selected" => goal >= Minimum
    /\ pc \in {"demoting", "over"} => Justified

LEMMA EndInvStep ==
  ASSUME TypeOK, EndInv, [Next]_vars
  PROVE  EndInv'
<1>0. Minimum \in Nat /\ goal \in Nat /\ ready \in Nat /\ clock \in 0..2
  BY MinimumNat DEF TypeOK, PlanOK, ControlOK
<1>1. CASE Environment \/ UNCHANGED vars
  <2>1. UNCHANGED <<pc, planVars>>
    BY <1>1 DEF Environment, vars
  <2>2. clock = 2 => clock' = 2
    BY <1>1 DEF Environment, Tick, timeVars, vars
  <2> QED
    BY <2>1, <2>2 DEF EndInv, Justified, planVars
<1>2. CASE Restart
  BY <1>2 DEF Restart, EndInv
<1>3. CASE RunStep
  <2>1. UNCHANGED clock
    BY <1>3 DEF RunStep, RunFrame, timeVars
  <2>2. CASE Select
    BY <1>0, <2>2 DEF Select, Goes, EndInv
  <2>3. CASE Start
    <3>1. UNCHANGED planVars /\ pc = "starting"
          /\ (pc' = "over" => candidates = {} \/ Reached)
      BY <2>3 DEF Start, Goes
    <3>2. candidates = {} => pending = {} /\ queued = candidates
      BY DEF TypeOK, PlanOK
    <3>3. pc' \in {"over", "subscribing"}
      BY <2>3 DEF Start, Goes
    <3> QED
      BY <2>1, <3>1, <3>2, <3>3 DEF EndInv, Justified, Reached, planVars
  <2>4. CASE Aim
    <3>1. Cardinality(Hits) \in Nat
      BY HitsFinite
    <3>2. goal' = goal \/ (goal < Cardinality(Hits) /\ goal' = Cardinality(Hits))
      BY <2>4 DEF Aim
    <3> QED
      BY <1>0, <2>4, <3>1, <3>2 DEF Aim, Goes, EndInv
  <2>5. CASE Decide
    <3>1. UNCHANGED planVars /\ pc = "deciding" /\ pc' \in {"receiving", "demoting"}
      BY <2>5 DEF Decide, Goes
    <3>2. pc' = "demoting" => ready >= goal \/ Exhausted \/ StopTime
      BY <1>0, <2>5 DEF Decide, Goes, KeepWaiting
    <3>3. pc' = "demoting" => Justified
      BY <1>0, <3>1, <3>2 DEF EndInv, Justified, Exhausted, StopTime, Reached
    <3> QED
      BY <2>1, <3>1, <3>3 DEF EndInv, Justified, planVars
  <2>6. CASE Demote
    BY <2>1, <2>6 DEF Demote, Goes, EndInv, Justified, planVars
  <2>7. CASE Subscribe \/ Ask \/ Update \/ Push \/ Receive \/ NotYetDue \/ Poll \/ CheckCancel
    BY <2>7 DEF Subscribe, Ask, Update, Push, Receive, NotYetDue, Poll, CheckCancel, Goes,
                planVars, PlanFrame, EndInv
  <2> QED
    BY <1>3, <2>2, <2>3, <2>4, <2>5, <2>6, <2>7 DEF RunStep
<1> QED
  BY <1>1, <1>2, <1>3 DEF Next

(***************************************************************************)
(* The minimum is mandatory, for any number of papers and any share: a run *)
(* that leaves the step short of it has come to its safety stop, or no     *)
(* paper is left that could still be fetched.                              *)
(***************************************************************************)
THEOREM MinimumHolds == Spec => []MinimumIsMandatory
<1>1. Init => EndInv
  BY DEF Init, EndInv
<1>2. TypeOK /\ PlanInv /\ EndInv => MinimumIsMandatory
  <2> SUFFICES ASSUME TypeOK, PlanInv, EndInv, pc = "over"
               PROVE  \/ Cardinality({p \in Hits : state[p] = "ready"}) >= Minimum
                      \/ clock = 2
                      \/ candidates \subseteq {p \in Hits : state[p] \in Ended}
    BY DEF MinimumIsMandatory
  <2> DEFINE Found == {p \in Hits : state[p] = "ready"}
  <2>1. PlanOK /\ Told /\ Tally /\ Justified
    BY DEF TypeOK, PlanInv, EndInv
  <2>2. CASE ready >= Minimum
    <3>1. Known \subseteq Found /\ Found \subseteq Hits
      BY <2>1 DEF Told, Known, Succeeded, PlanOK
    <3>2. Cardinality(Known) = ready
      BY <2>1, CountBoth DEF Known, Tally, Succeeded, PlanOK
    <3>3. Cardinality(Known) <= Cardinality(Found)
      BY <3>1, HitsFinite, FS_Subset
    <3>4. Cardinality(Found) \in Nat /\ ready \in Nat /\ Minimum \in Nat
      BY <2>1, <3>1, HitsFinite, MinimumNat DEF PlanOK
    <3> HIDE DEF Found
    <3>5. Cardinality(Found) >= Minimum
      BY <2>2, <3>2, <3>3, <3>4
    <3> QED
      BY <3>5 DEF Found
  <2>3. CASE pending = {} /\ queued = candidates
    BY <2>1, <2>3 DEF Told, Known, Succeeded, Ended, PlanOK
  <2> QED
    BY <2>1, <2>2, <2>3 DEF Justified
<1> QED
  BY <1>1, <1>2, EndInvStep, PlanInvAlways, Typing, PTL DEF Spec

-----------------------------------------------------------------------------
\* The urgent queue.

\* Inductive: what the run has in the urgent queue is pending, or left to demote, or has ended.
UrgentInv ==
    restarts = 0 =>
        /\ pc \in {"selected", "starting"} => urgent = {}
        /\ pc # "cancelled" =>
             \A p \in urgent : \/ state[p] \in Ended
                               \/ p \in (IF pc \in {"demoting", "over"} THEN left ELSE pending)

LEMMA UrgentStep ==
  ASSUME TypeOK, SeenTrue, MailTrue, UrgentInv, [Next]_vars
  PROVE  UrgentInv'
<1>0. /\ \A p \in Hits : state[p] \in Ended => state'[p] = state[p]
      /\ urgent \subseteq Hits /\ DOMAIN seen \subseteq pending /\ pending \subseteq Hits
      /\ restarts \in Nat
  <2>1. MaxRestarts \in Nat
    BY ConstantsAssumption
  <2> QED
    BY <2>1, EndsStay DEF TypeOK, PapersOK, PlanOK, BatchOK, ControlOK
<1>1. CASE Environment \/ UNCHANGED vars
  <2>1. UNCHANGED <<pc, restarts, pending, left>> /\ urgent' \subseteq urgent
    BY <1>1 DEF Environment, Tick, PaperMoves, Publish, NeverPublish, Request, Pop, Fetch,
                FallBack, End, vars, timeVars, planVars
  <2> QED
    BY <1>0, <2>1 DEF UrgentInv
<1>2. CASE Restart
  <2>1. restarts' # 0
    BY <1>0, <1>2 DEF Restart
  <2> QED
    BY <2>1 DEF UrgentInv
<1>3. CASE RunStep /\ restarts = 0
  <2>1. CASE Select \/ Start \/ Subscribe \/ Aim \/ Update \/ NotYetDue \/ CheckCancel
    <3>1. UNCHANGED urgent
      BY <2>1 DEF Select, Start, Subscribe, Aim, Update, NotYetDue, CheckCancel
    <3> QED
      BY <1>0, <1>3, <2>1, <3>1 DEF UrgentInv, Select, Start, Subscribe, Aim, Update, NotYetDue,
                               CheckCancel, Goes, planVars
  <2>2. CASE Ask
    BY <1>0, <1>3, <2>2 DEF Ask, Goes, UrgentInv, planVars
  <2>3. CASE Push
    <3>1. /\ pc = "pushing" /\ pc' = "asking" /\ UNCHANGED state
          /\ urgent' = urgent \cup SeenAs({"idle", "queued"})
          /\ pending' = pending \ (SeenAs({"ready"}) \cup SeenAs({"abstract_only"}))
      BY <2>3 DEF Push, Goes, Finish
    <3>2. SeenAs({"idle", "queued"}) \subseteq pending'
      BY <1>0, <3>1 DEF SeenAs
    <3>3. \A p \in SeenAs({"ready"}) \cup SeenAs({"abstract_only"}) : state[p] \in Ended
      BY DEF SeenAs, SeenTrue, Ended
    <3> QED
      BY <1>3, <3>1, <3>2, <3>3 DEF UrgentInv
  <2>4. CASE Decide
    BY <1>0, <1>3, <2>4 DEF Decide, Goes, UrgentInv, planVars
  <2>5. CASE Receive
    <3>1. \A p \in pending \ pending' : state[p] \in Ended
      BY <2>5 DEF Receive, Finish, MailTrue, TypeOK, MailOK
    <3>2. pc = "receiving" /\ pc' = "polling" /\ UNCHANGED <<state, urgent>>
      BY <2>5 DEF Receive, Goes
    <3> QED
      BY <1>3, <3>1, <3>2 DEF UrgentInv
  <2>6. CASE Poll
    <3>1. \A p \in pending \ pending' : state[p] \in Ended
      BY <2>6 DEF Poll, Finish, InTable, Ended
    <3>2. pc = "polling" /\ pc' \in {"aiming", "checking"} /\ UNCHANGED <<state, urgent>>
      BY <2>6 DEF Poll, Goes
    <3> QED
      BY <1>3, <3>1, <3>2 DEF UrgentInv
  <2>7. CASE Demote
    BY <1>0, <1>3, <2>7 DEF Demote, Goes, UrgentInv
  <2> QED
    BY <1>3, <2>1, <2>2, <2>3, <2>4, <2>5, <2>6, <2>7 DEF RunStep
<1>4. CASE RunStep /\ restarts # 0
  BY <1>4 DEF RunStep, RunFrame, timeVars, UrgentInv
<1> QED
  BY <1>1, <1>2, <1>3, <1>4 DEF Next

(***************************************************************************)
(* What a run that was not restarted leaves in the urgent queue when it    *)
(* ends the step are jobs of papers that have ended, which the fetcher     *)
(* skips.                                                                  *)
(***************************************************************************)
THEOREM UrgentIsCleared == Spec => []NothingLeftUrgent
<1>1. Init => UrgentInv
  BY DEF Init, UrgentInv
<1>2. TypeOK /\ UrgentInv => NothingLeftUrgent
  BY DEF TypeOK, BatchOK, UrgentInv, NothingLeftUrgent, OnlySkippedLeft
<1>3. PlanInv => SeenTrue /\ MailTrue
  BY DEF PlanInv
<1> QED
  BY <1>1, <1>2, <1>3, UrgentStep, PlanInvAlways, Typing, PTL DEF Spec
=============================================================================
