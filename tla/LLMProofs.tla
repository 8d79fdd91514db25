----------------------------- MODULE LLMProofs ------------------------------
(***************************************************************************)
(* Proofs about LLM, for any processes, calls, models, limits and caps:    *)
(* its types, that the cache holds only right answers, that a call sends a *)
(* bounded number of requests, and that the daily counter, which counts    *)
(* first and takes back later, implements the quota that grants and        *)
(* refuses at once.                                                        *)
(***************************************************************************)
EXTENDS LLM, FiniteSetTheorems, TLAPS

-----------------------------------------------------------------------------
\* The line of calls that wait for the limiter's lock.

\* A call that is nowhere in a line twice is taken out of it, and the others stay.
LEMMA LeavesLine ==
  ASSUME NEW S, NEW s \in Seq(S), NEW e, NEW k \in 1..Len(s), s[k] = e,
         \A i, j \in 1..Len(s) : s[i] = s[j] => i = j
  PROVE  RemoveFirst(s, e) = SubSeq(s, 1, k - 1) \o SubSeq(s, k + 1, Len(s))
<1> DEFINE I == {i \in 1..Len(s) : s[i] = e}
<1>1. I = {k}
  OBVIOUS
<1>2. Min(I) = k
  <2>1. k \in I /\ \A y \in I : k =< y
    BY <1>1
  <2>2. \A x \in I : x = k
    BY <1>1
  <2> HIDE DEF I
  <2> QED
    BY <2>1, <2>2 DEF Min
<1>3. SelectInSeq(s, LAMBDA v : v = e) = k
  BY <1>1, <1>2 DEF SelectInSeq
<1>4. \E i \in 1..Len(s) : s[i] = e
  OBVIOUS
<1> QED
  BY <1>3, <1>4 DEF RemoveFirst, RemoveAt

\* Nobody waits twice.
Once(s) == \A i, j \in 1..Len(s) : s[i] = s[j] => i = j

\* The line t is s but for one call.
Without(t, s, e) == \A x : (\E i \in 1..Len(t) : t[i] = x) <=> x # e /\ \E i \in 1..Len(s) : s[i] = x

\* Who waits in a line one call has left.
LEMMA LineWithout ==
  ASSUME NEW S, NEW s \in Seq(S), NEW e, Once(s),
         NEW t, t = RemoveFirst(s, e)
  PROVE  /\ t \in Seq(S)
         /\ Once(t)
         /\ Without(t, s, e)
<1>1. CASE \E k \in 1..Len(s) : s[k] = e
  <2>1. PICK k \in 1..Len(s) : s[k] = e
    BY <1>1
  <2>2. t = SubSeq(s, 1, k - 1) \o SubSeq(s, k + 1, Len(s))
    BY <2>1, LeavesLine DEF Once
  <2> DEFINE u == SubSeq(s, 1, k - 1)
             v == SubSeq(s, k + 1, Len(s))
  <2>3. u \in Seq(S) /\ Len(u) = k - 1 /\ v \in Seq(S) /\ Len(v) = Len(s) - k
    OBVIOUS
  <2>4. \A i \in 1..(k - 1) : u[i] = s[i]
    OBVIOUS
  <2>5. \A i \in 1..(Len(s) - k) : v[i] = s[k + i]
    OBVIOUS
  <2>6. t = u \o v
    BY <2>2
  <2> HIDE DEF u, v
  <2>7. t \in Seq(S) /\ Len(t) = Len(s) - 1
    <3>1. t \in Seq(S) /\ Len(t) = Len(u) + Len(v)
      <4>1. u \in Seq(S) /\ v \in Seq(S)
        BY <2>3
      <4> QED
        BY ONLY <2>6, <4>1
    <3> QED
      BY <2>3, <3>1
  <2>8. \A i \in 1..Len(t) : t[i] = IF i <= Len(u) THEN u[i] ELSE v[i - Len(u)]
    BY <2>3, <2>6
  <2>9. \A i \in 1..Len(t) : t[i] = IF i < k THEN s[i] ELSE s[i + 1]
    BY <2>3, <2>4, <2>5, <2>7, <2>8
  <2>10. Once(t)
    <3> SUFFICES ASSUME NEW i \in 1..Len(t), NEW j \in 1..Len(t), t[i] = t[j] PROVE i = j
      BY DEF Once
    <3> QED
      BY <2>7, <2>9 DEF Once
  <2>11. ASSUME NEW x, NEW i \in 1..Len(t), t[i] = x
        PROVE  x # e /\ \E j \in 1..Len(s) : s[j] = x
    BY <2>1, <2>7, <2>9, <2>11 DEF Once
  <2>12. ASSUME NEW x, x # e, NEW j \in 1..Len(s), s[j] = x
        PROVE  \E i \in 1..Len(t) : t[i] = x
    <3>1. CASE j < k
      <4>1. j \in 1..Len(t) /\ t[j] = x
        BY <2>7, <2>9, <2>12, <3>1
      <4> QED
        BY <4>1
    <3>2. CASE j > k
      <4>1. j - 1 \in 1..Len(t) /\ t[j - 1] = x
        BY <2>7, <2>9, <2>12, <3>2
      <4> QED
        BY <4>1
    <3> QED
      BY <2>1, <2>12, <3>1, <3>2
  <2> QED
    BY <2>7, <2>10, <2>11, <2>12 DEF Without
<1>2. CASE ~\E k \in 1..Len(s) : s[k] = e
  <2>1. t = s
    BY <1>2 DEF RemoveFirst
  <2> QED
    BY <1>2, <2>1 DEF Without
<1> QED
  BY <1>1, <1>2

-----------------------------------------------------------------------------
\* Types.

CallRecords ==
    [at : Places, model : Models, retry : Nat, over : Nat, thinks : BOOLEAN,
     attempt : 1..2, answer : Answers \cup {None}, sends : Nat]

\* A call that gave up on its model has gone over to the light one.
CallOK(c) ==
    /\ call[c].model \in {AskedOf[c], Light}
    /\ call[c].retry <= Retries /\ call[c].over <= call[c].retry
    /\ call[c].at = "answered" => call[c].answer \in Answers

SharedOK ==
    /\ cache \in [Keys -> Answers \cup {None}]
    /\ used \in [Models -> Int]
    /\ slots \in [Models -> Nat] /\ \A m \in Models : slots[m] <= Rate[m]

\* In the line of a process are the calls of it that are at the lock, each once.
LineOf(p) ==
    /\ Once(line[p])
    /\ \A i \in 1..Len(line[p]) : ProcOf[line[p][i]] = p /\ At(line[p][i], "lock")
LineOK ==
    /\ line \in [Procs -> Seq(Calls)]
    /\ \A p \in Procs : LineOf(p)
    /\ \A c \in Calls : At(c, "lock") => \E i \in 1..Len(line[ProcOf[c]]) : line[ProcOf[c]][i] = c

LocalOK ==
    /\ noThinking \in [Procs -> SUBSET RejectsThinking]
    /\ cuts \in Nat

HistoryOK ==
    /\ granted \in [Models -> Nat]
    /\ refused \in [Models -> BOOLEAN]

Typed ==
    /\ call \in [Calls -> CallRecords] /\ \A c \in Calls : CallOK(c)
    /\ SharedOK /\ LineOK /\ LocalOK /\ HistoryOK

LEMMA FreshTyped ==
  ASSUME NEW c \in Calls, NEW how \in Places
  PROVE  /\ Fresh(c) \in CallRecords /\ Ends(c, how) \in CallRecords
         /\ Ends(c, how).at = how
         /\ Ends(c, how).model = AskedOf[c] /\ Ends(c, how).retry = 0 /\ Ends(c, how).over = 0
         /\ Ends(c, how).answer = None /\ Ends(c, how).sends = 0 /\ Ends(c, how).attempt = 1
         /\ Fresh(c).model = AskedOf[c] /\ Fresh(c).retry = 0 /\ Fresh(c).over = 0
         /\ Fresh(c).answer = None /\ Fresh(c).sends = 0 /\ Fresh(c).attempt = 1
<1>1. AskedOf[c] \in Models
  BY ConstantsAssumption
<1>2. None \in Answers \cup {None}
  OBVIOUS
<1>3. "idle" \in Places
  BY DEF Places
<1> HIDE DEF None, Answers, Places, Models
<1>4. Fresh(c) \in CallRecords
  BY <1>1, <1>2, <1>3 DEF Fresh, CallRecords
<1>5. Ends(c, how) \in CallRecords
  BY <1>4 DEF Ends, CallRecords
<1>6. /\ Fresh(c).model = AskedOf[c] /\ Fresh(c).retry = 0 /\ Fresh(c).over = 0
      /\ Fresh(c).answer = None /\ Fresh(c).sends = 0 /\ Fresh(c).attempt = 1
  BY DEF Fresh
<1>7. /\ Ends(c, how).at = how
      /\ Ends(c, how).model = Fresh(c).model /\ Ends(c, how).retry = Fresh(c).retry
      /\ Ends(c, how).over = Fresh(c).over /\ Ends(c, how).answer = Fresh(c).answer
      /\ Ends(c, how).sends = Fresh(c).sends /\ Ends(c, how).attempt = Fresh(c).attempt
  BY <1>4 DEF Ends, CallRecords
<1> QED
  BY <1>4, <1>5, <1>6, <1>7

\* What a step may make of the record of the one call it is about.
Proper(c, r) ==
    /\ r \in CallRecords
    /\ r.model \in {AskedOf[c], Light}
    /\ r.retry <= Retries /\ r.over <= r.retry
    /\ r.at = "answered" => r.answer \in Answers

CallsTyped == call \in [Calls -> CallRecords] /\ \A c \in Calls : CallOK(c)

LEMMA OneCall ==
  ASSUME Typed, NEW c \in Calls, NEW r, Proper(c, r), call' = [call EXCEPT ![c] = r]
  PROVE  CallsTyped'
BY DEF Typed, CallsTyped, CallOK, Proper

LEMMA EndsProper ==
  ASSUME NEW c \in Calls, NEW how \in Ended
  PROVE  Proper(c, Ends(c, how))
<1>1. how \in Places /\ how # "answered"
  BY DEF Places, Ended
<1>2. Retries \in Nat
  BY ConstantsAssumption
<1> QED
  BY <1>1, <1>2, FreshTyped DEF Proper

\* A new place, and nothing else, is proper but for an answer.
LEMMA MovedProper ==
  ASSUME Typed, NEW c \in Calls, NEW to \in Places \ {"answered"}
  PROVE  Proper(c, [call[c] EXCEPT !.at = to])
BY DEF Typed, CallOK, Proper, CallRecords

\* The facts about a call that its steps need.
LEMMA CallFacts ==
  ASSUME Typed, NEW c \in Calls
  PROVE  /\ call[c] \in CallRecords /\ Proper(c, call[c])
         /\ call[c].model \in Models /\ ProcOf[c] \in Procs /\ KeyOf[c] \in Keys
         /\ Retries \in Nat
BY ConstantsAssumption DEF Typed, CallOK, Proper, CallRecords, Keys

LEMMA PlacesAre ==
  /\ \A p \in Ended : p \in Places \ {"answered"}
  /\ \A p \in {"idle", "build", "refused", "lock", "slot", "sent", "backoff"} : p \in Places \ {"answered"}
  /\ "answered" \in Places
BY DEF Places, Ended, Waiting

\* The record of a call after one of its steps.
LEMMA StepRecord ==
  ASSUME Typed, NEW c \in Calls, Step(c) \/ Cut(c)
  PROVE  \E r : Proper(c, r) /\ call' = [call EXCEPT ![c] = r]
<1> USE CallFacts, PlacesAre
<1>1. CASE Start(c)
  <2>1. call' = [call EXCEPT ![c] = Ends(c, "done")] \/ call' = [call EXCEPT ![c] = [call[c] EXCEPT !.at = "build"]]
    BY <1>1 DEF Start
  <2>2. Proper(c, Ends(c, "done")) /\ Proper(c, [call[c] EXCEPT !.at = "build"])
    BY EndsProper, MovedProper DEF Ended
  <2> QED
    BY <2>1, <2>2
<1>2. CASE Count(c)
  <2>1. PICK thinks \in BOOLEAN, to \in {"refused", "lock"} :
            call' = [call EXCEPT ![c].thinks = thinks, ![c].at = to]
    BY <1>2 DEF Count
  <2> DEFINE r == [call[c] EXCEPT !.thinks = thinks, !.at = to]
  <2>2. call' = [call EXCEPT ![c] = r]
    BY <2>1
  <2>3. Proper(c, r)
    BY DEF Proper, CallRecords
  <2> QED
    BY <2>2, <2>3
<1>3. CASE Uncount(c)
  <2>1. CASE call[c].model = Main /\ Main # Light
    <3> DEFINE r == [call[c] EXCEPT !.model = Light, !.at = "build"]
    <3>1. call' = [call EXCEPT ![c] = r]
      BY <1>3, <2>1 DEF Uncount
    <3>2. Proper(c, r)
      BY DEF Proper, CallRecords, Models
    <3> QED
      BY <3>1, <3>2
  <2>2. CASE ~(call[c].model = Main /\ Main # Light)
    <3>1. call' = [call EXCEPT ![c] = Ends(c, "quota")]
      BY <1>3, <2>2 DEF Uncount
    <3>2. Proper(c, Ends(c, "quota"))
      BY EndsProper DEF Ended
    <3> QED
      BY <3>1, <3>2
  <2> QED
    BY <2>1, <2>2
<1>4. CASE TakeSlot(c)
  <2>1. call' = [call EXCEPT ![c] = [call[c] EXCEPT !.at = "slot"]]
    BY <1>4 DEF TakeSlot
  <2> QED
    BY <2>1, MovedProper
<1>5. CASE Send(c)
  <2> DEFINE r == [call[c] EXCEPT !.at = "sent", !.sends = @ + 1]
  <2>1. call' = [call EXCEPT ![c] = r]
    BY <1>5 DEF Send
  <2>2. call[c].sends + 1 \in Nat
    BY DEF CallRecords
  <2>3. r \in CallRecords
    BY <2>2 DEF CallRecords
  <2>4. Proper(c, r)
    BY <2>3 DEF Proper, CallRecords
  <2> QED
    BY <2>1, <2>4
<1>6. CASE Good(c)
  <2>1. PICK ok \in BOOLEAN :
            call' = [call EXCEPT ![c].at = "answered", ![c].thinks = FALSE,
                                 ![c].answer = [by |-> call[c].model, parses |-> ok]]
    BY <1>6 DEF Good
  <2> DEFINE a == [by |-> call[c].model, parses |-> ok]
  <2>2. a \in Answers
    BY DEF Answers
  <2> HIDE DEF a
  <2> DEFINE r == [call[c] EXCEPT !.at = "answered", !.thinks = FALSE, !.answer = a]
  <2>3. call' = [call EXCEPT ![c] = r]
    BY <2>1 DEF a
  <2>4. Proper(c, r)
    BY <2>2 DEF Proper, CallRecords
  <2> QED
    BY <2>3, <2>4
<1>7. CASE Rejected(c)
  <2> DEFINE r == [call[c] EXCEPT !.at = "build", !.thinks = FALSE]
  <2>1. call' = [call EXCEPT ![c] = r] \/ call' = [call EXCEPT ![c] = Ends(c, "rejected")]
    BY <1>7 DEF Rejected, Goes
  <2>2. Proper(c, r) /\ Proper(c, Ends(c, "rejected"))
    BY EndsProper DEF Proper, CallRecords, Ended
  <2> QED
    BY <2>1, <2>2
<1>8. CASE \E e \in Errors : Error(c, e)
  <2>1. PICK e \in Errors : Error(c, e)
    BY <1>8
  <2> DEFINE over == call[c].over + (IF e = "503" THEN 1 ELSE 0)
             r == [call[c] EXCEPT !.at = "backoff", !.thinks = FALSE, !.over = over, !.retry = @ + 1]
  <2>2. \/ call[c].model = Main /\ call' = [call EXCEPT ![c] = Fallback(c)]
        \/ \E how \in {"quota", "failed"} : call' = [call EXCEPT ![c] = Ends(c, how)]
        \/ call[c].retry < Retries /\ call' = [call EXCEPT ![c] = r]
    BY <2>1 DEF Error, Goes, FallsBack
  <2>3. Proper(c, Fallback(c))
    <3>1. Fallback(c) \in CallRecords
      BY DEF CallRecords, Fallback, Models
    <3> QED
      BY <3>1 DEF Proper, CallRecords, Fallback
  <2>4. ASSUME call[c].retry < Retries PROVE Proper(c, r)
    <3>1. over \in Nat /\ over <= call[c].retry + 1 /\ call[c].retry + 1 \in Nat
          /\ call[c].retry + 1 <= Retries
      BY <2>4 DEF Proper, CallRecords
    <3> HIDE DEF over
    <3>2. r \in CallRecords
      BY <3>1 DEF CallRecords
    <3> QED
      BY <3>1, <3>2 DEF Proper, CallRecords
  <2>5. \A how \in {"quota", "failed"} : Proper(c, Ends(c, how))
    BY EndsProper DEF Ended
  <2> HIDE DEF r
  <2> QED
    BY <2>2, <2>3, <2>4, <2>5
<1>9. CASE Retry(c)
  <2>1. call' = [call EXCEPT ![c] = [call[c] EXCEPT !.at = "build"]]
    BY <1>9 DEF Retry, Goes
  <2> QED
    BY <2>1, MovedProper
<1>10. CASE Finish(c)
  <2> DEFINE r == [Fresh(c) EXCEPT !.at = "build", !.attempt = 2, !.sends = call[c].sends]
  <2>1. \/ \E how \in {"done", "invalid"} : call' = [call EXCEPT ![c] = Ends(c, how)]
        \/ call' = [call EXCEPT ![c] = r]
    BY <1>10 DEF Finish
  <2>2. Proper(c, r)
    <3>1. Fresh(c) \in CallRecords /\ Fresh(c).model = AskedOf[c] /\ Fresh(c).retry = 0 /\ Fresh(c).over = 0
      BY FreshTyped
    <3>2. call[c].sends \in Nat /\ 2 \in 1..2 /\ "build" \in Places
      BY DEF CallRecords
    <3>3. r \in CallRecords
      BY <3>1, <3>2 DEF CallRecords
    <3> QED
      BY <3>1, <3>3 DEF Proper, CallRecords
  <2>3. \A how \in {"done", "invalid"} : Proper(c, Ends(c, how))
    BY EndsProper DEF Ended
  <2> HIDE DEF r
  <2> QED
    BY <2>1, <2>2, <2>3
<1>11. CASE Cut(c)
  <2>1. call' = [call EXCEPT ![c] = Ends(c, "cut")]
    BY <1>11 DEF Cut
  <2> QED
    BY <2>1, EndsProper DEF Ended
<1> QED
  BY <1>1, <1>2, <1>3, <1>4, <1>5, <1>6, <1>7, <1>8, <1>9, <1>10, <1>11 DEF Step

\* What a step does to the rest.
LEMMA StepRest ==
  ASSUME Typed, NEW c \in Calls, Step(c) \/ Cut(c)
  PROVE  SharedOK' /\ LocalOK' /\ HistoryOK'
<1> USE CallFacts
<1> DEFINE m == call[c].model
           p == ProcOf[c]
<1>1. SharedOK /\ LocalOK /\ HistoryOK /\ m \in Models /\ p \in Procs
  BY DEF Typed
<1>2. CASE UNCHANGED <<shared, line, noThinking, cuts, history>>
  BY <1>1, <1>2 DEF SharedOK, LocalOK, HistoryOK, shared, history
<1>3. CASE Count(c)
  <2>1. SharedOK'
    BY <1>1, <1>3 DEF Count, SharedOK
  <2>2. LocalOK'
    BY <1>1, <1>3 DEF Count, LocalOK
  <2>3. HistoryOK'
    <3>1. granted' = granted \/ granted' = [granted EXCEPT ![m] = @ + 1]
      BY <1>3 DEF Count
    <3>2. refused' = refused \/ refused' = [refused EXCEPT ![m] = TRUE]
      BY <1>3 DEF Count
    <3> HIDE DEF m
    <3>3. granted' \in [Models -> Nat]
      BY <1>1, <3>1 DEF HistoryOK
    <3>4. refused' \in [Models -> BOOLEAN]
      BY <1>1, <3>2, Zenon DEF HistoryOK
    <3> QED
      BY <3>3, <3>4 DEF HistoryOK
  <2> QED
    BY <2>1, <2>2, <2>3
<1>4. CASE TakeSlot(c)
  <2>1. SharedOK'
    <3>1. UNCHANGED <<cache, used>> /\ slots' = [slots EXCEPT ![m] = @ + 1] /\ slots[m] < Rate[m]
      BY <1>4 DEF TakeSlot
    <3>2. Rate[m] \in Nat
      BY <1>1, ConstantsAssumption
    <3> HIDE DEF m
    <3> QED
      BY <1>1, <3>1, <3>2 DEF SharedOK
  <2>2. LocalOK'
    BY <1>1, <1>4 DEF TakeSlot, LocalOK
  <2>3. HistoryOK'
    BY <1>1, <1>4 DEF TakeSlot, HistoryOK, history
  <2> QED
    BY <2>1, <2>2, <2>3
<1>5. CASE Uncount(c)
  <2>1. UNCHANGED <<cache, slots, line, noThinking, cuts, history>> /\ used' = [used EXCEPT ![m] = @ - 1]
    BY <1>5 DEF Uncount
  <2> HIDE DEF m
  <2>2. SharedOK'
    BY <1>1, <2>1 DEF SharedOK
  <2> QED
    BY <1>1, <2>1, <2>2 DEF LocalOK, HistoryOK, history
<1>6. CASE Rejected(c)
  <2>1. UNCHANGED <<shared, cuts, history>>
    BY <1>6 DEF Rejected, Goes
  <2>2. noThinking' = noThinking \/ (m \in RejectsThinking /\ noThinking' = [noThinking EXCEPT ![p] = @ \cup {m}])
    BY <1>6 DEF Rejected
  <2> HIDE DEF m, p
  <2>3. noThinking' \in [Procs -> SUBSET RejectsThinking]
    BY <1>1, <2>2 DEF LocalOK
  <2> QED
    BY <1>1, <2>1, <2>3 DEF SharedOK, LocalOK, HistoryOK, shared, history
<1>7. CASE \E e \in Errors : Error(c, e)
  <2>1. UNCHANGED <<shared, line, noThinking, cuts, history>>
    BY <1>7 DEF Error, Goes, shared, history
  <2> QED
    BY <1>2, <2>1
<1>8. CASE Retry(c)
  BY <1>2, <1>8 DEF Retry, Goes, shared, history
<1>9. CASE Finish(c)
  <2>1. UNCHANGED <<used, slots, line, noThinking, cuts, history>>
    BY <1>9 DEF Finish
  <2>2. cache' = cache \/ cache' = [cache EXCEPT ![KeyOf[c]] = call[c].answer]
    BY <1>9 DEF Finish
  <2>3. call[c].answer \in Answers \cup {None}
    BY DEF CallRecords
  <2>4. cache' \in [Keys -> Answers \cup {None}]
    BY <1>1, <2>2, <2>3 DEF SharedOK
  <2> QED
    BY <1>1, <2>1, <2>4 DEF SharedOK, LocalOK, HistoryOK, history
<1>10. CASE Cut(c)
  <2>1. UNCHANGED <<shared, noThinking, history>> /\ cuts' = cuts + 1
    BY <1>10 DEF Cut
  <2> QED
    BY <1>1, <2>1 DEF SharedOK, LocalOK, HistoryOK, shared, history
<1>11. CASE Start(c) \/ Send(c) \/ Good(c)
  BY <1>2, <1>11 DEF Start, Send, Good
<1> QED
  BY <1>3, <1>4, <1>5, <1>6, <1>7, <1>8, <1>9, <1>10, <1>11 DEF Step

\* A call that neither waits for the lock nor comes to it leaves the lines as they are.
LEMMA LinesStay ==
  ASSUME Typed, NEW c \in Calls, NEW r, Proper(c, r), call' = [call EXCEPT ![c] = r],
         line' = line, ~At(c, "lock"), r.at # "lock"
  PROVE  LineOK'
<1>1. LineOK /\ call \in [Calls -> CallRecords]
  BY DEF Typed
<1>2. \A d \in Calls : At(d, "lock")' <=> At(d, "lock")
  BY <1>1 DEF At
<1>3. ASSUME NEW p \in Procs PROVE LineOf(p)'
  <2>1. line[p] \in Seq(Calls) /\ LineOf(p)
    BY <1>1 DEF LineOK
  <2>2. \A i \in 1..Len(line[p]) : line[p][i] \in Calls
    BY <2>1
  <2>3. \A i \in 1..Len(line[p]) : call'[line[p][i]].at = "lock"
    BY <1>2, <2>1, <2>2 DEF LineOf, At
  <2> QED
    BY <2>1, <2>3 DEF LineOf, At
<1> QED
  BY <1>1, <1>2, <1>3 DEF LineOK

\* The first of a line leaves it.
LEMMA FirstLeaves ==
  ASSUME NEW S, NEW s \in Seq(S), Once(s), s # <<>>, NEW t, t = Tail(s), NEW e, e = Head(s)
  PROVE  /\ t \in Seq(S) /\ Once(t)
         /\ Without(t, s, e)
<1>1. t \in Seq(S) /\ Len(t) = Len(s) - 1
  OBVIOUS
<1>2. \A i \in 1..(Len(s) - 1) : t[i] = s[i + 1]
  OBVIOUS
<1>3. e = s[1] /\ Len(s) \in Nat /\ Len(s) >= 1
  OBVIOUS
<1>4. Once(t)
  BY <1>1, <1>2, <1>3 DEF Once
<1>5. ASSUME NEW x, NEW i \in 1..Len(t), t[i] = x
      PROVE  x # e /\ \E j \in 1..Len(s) : s[j] = x
  BY <1>1, <1>2, <1>3, <1>5 DEF Once
<1>6. ASSUME NEW x, x # e, NEW i \in 1..Len(s), s[i] = x
      PROVE  \E j \in 1..Len(t) : t[j] = x
  <2>1. i - 1 \in 1..Len(t) /\ t[i - 1] = x
    BY <1>1, <1>2, <1>3, <1>6
  <2> QED
    BY <2>1
<1> QED
  BY <1>1, <1>4, <1>5, <1>6 DEF Without

\* A line that loses one call, which is no longer at the lock, is still the line.
LEMMA OneLeavesLine ==
  ASSUME Typed, NEW c \in Calls, NEW r, Proper(c, r), call' = [call EXCEPT ![c] = r], r.at # "lock",
         NEW t \in Seq(Calls), Once(t), line' = [line EXCEPT ![ProcOf[c]] = t],
         Without(t, line[ProcOf[c]], c)
  PROVE  LineOK'
<1> DEFINE p == ProcOf[c]
<1> USE DEF Without
<1>1. LineOK /\ call \in [Calls -> CallRecords] /\ p \in Procs
  BY CallFacts DEF Typed
<1>2. \A d \in Calls : At(d, "lock")' <=> d # c /\ At(d, "lock")
  BY <1>1 DEF At
<1>3. line' \in [Procs -> Seq(Calls)] /\ line'[p] = t /\ \A q \in Procs \ {p} : line'[q] = line[q]
  BY <1>1 DEF LineOK
<1>4. ASSUME NEW q \in Procs PROVE LineOf(q)'
  <2>1. ASSUME NEW i \in 1..Len(line'[q])
        PROVE  ProcOf[line'[q][i]] = q /\ call'[line'[q][i]].at = "lock"
    <3> DEFINE d == line'[q][i]
    <3>1. d \in Calls
      BY <1>3
    <3>2. d # c /\ \E j \in 1..Len(line[q]) : line[q][j] = d
      <4>1. CASE q = p
        BY <1>3, <4>1
      <4>2. CASE q # p
        <5>1. \E j \in 1..Len(line[q]) : line[q][j] = d
          BY <1>3, <4>2
        <5> QED
          BY <1>1, <4>2, <5>1 DEF LineOK, LineOf
      <4> QED
        BY <4>1, <4>2
    <3> HIDE DEF d
    <3>3. ProcOf[d] = q /\ At(d, "lock")
      BY <1>1, <3>2 DEF LineOK, LineOf
    <3>4. call'[d].at = "lock"
      BY <1>2, <3>1, <3>2, <3>3 DEF At
    <3> QED
      BY <3>3, <3>4 DEF d
  <2>2. Once(line'[q])
    BY <1>1, <1>3 DEF LineOK, LineOf
  <2> QED
    BY <2>1, <2>2 DEF LineOf, At
<1>5. ASSUME NEW d \in Calls, At(d, "lock")'
      PROVE  \E i \in 1..Len(line'[ProcOf[d]]) : line'[ProcOf[d]][i] = d
  <2>1. d # c /\ At(d, "lock") /\ ProcOf[d] \in Procs
    BY <1>2, <1>5, ConstantsAssumption
  <2>2. \E i \in 1..Len(line[ProcOf[d]]) : line[ProcOf[d]][i] = d
    BY <1>1, <2>1 DEF LineOK
  <2>3. CASE ProcOf[d] = p
    <3>1. \E i \in 1..Len(t) : t[i] = d
      BY <2>1, <2>2, <2>3
    <3>2. line'[ProcOf[d]] = t
      BY <1>3, <2>3
    <3> QED
      BY <3>1, <3>2
  <2>4. CASE ProcOf[d] # p
    <3>1. line'[ProcOf[d]] = line[ProcOf[d]]
      BY <1>3, <2>1, <2>4
    <3> QED
      BY <2>2, <3>1
  <2> QED
    BY <2>3, <2>4
<1> QED
  BY <1>3, <1>4, <1>5 DEF LineOK

\* A call that comes to the lock is the last of its line.
LEMMA OneJoinsLine ==
  ASSUME Typed, NEW c \in Calls, NEW r, Proper(c, r), call' = [call EXCEPT ![c] = r], r.at = "lock",
         ~At(c, "lock"), line' = [line EXCEPT ![ProcOf[c]] = Append(@, c)]
  PROVE  LineOK'
<1> DEFINE p == ProcOf[c]
           s == line[p]
           t == Append(s, c)
<1>1. LineOK /\ call \in [Calls -> CallRecords] /\ p \in Procs
  BY CallFacts DEF Typed
<1>2. \A d \in Calls : At(d, "lock")' <=> d = c \/ At(d, "lock")
  BY <1>1 DEF At
<1>3. s \in Seq(Calls) /\ LineOf(p)
  BY <1>1 DEF LineOK
<1>4. t \in Seq(Calls) /\ Len(t) = Len(s) + 1 /\ Len(s) \in Nat
  BY <1>3
<1>5. \A i \in 1..Len(t) : t[i] = IF i = Len(t) THEN c ELSE s[i]
  BY <1>3
<1>6. \A i \in 1..Len(s) : s[i] \in Calls /\ ProcOf[s[i]] = p /\ At(s[i], "lock")
  BY <1>3 DEF LineOf
<1>7. line' \in [Procs -> Seq(Calls)] /\ line'[p] = t /\ \A q \in Procs \ {p} : line'[q] = line[q]
  BY <1>1, <1>4 DEF LineOK
<1> HIDE DEF t, s
<1>8. Once(t) /\ \A i \in 1..Len(t) : t[i] \in Calls /\ ProcOf[t[i]] = p /\ (t[i] = c \/ At(t[i], "lock"))
  <2>1. Once(t)
    <3> SUFFICES ASSUME NEW i \in 1..Len(t), NEW j \in 1..Len(t), t[i] = t[j] PROVE i = j
      BY DEF Once
    <3>1. Once(s)
      BY <1>3 DEF LineOf, s
    <3> QED
      BY <1>4, <1>5, <1>6, <3>1 DEF Once
  <2>2. \A i \in 1..Len(t) : i = Len(t) \/ i \in 1..Len(s)
    BY <1>4
  <2>3. \A i \in 1..Len(t) : t[i] \in Calls /\ ProcOf[t[i]] = p /\ (t[i] = c \/ At(t[i], "lock"))
    BY <1>5, <1>6, <2>2
  <2> QED
    BY <2>1, <2>3
<1>9. ASSUME NEW q \in Procs PROVE LineOf(q)'
  <2>1. CASE q = p
    <3>1. \A i \in 1..Len(t) : call'[t[i]].at = "lock"
      BY <1>2, <1>8 DEF At
    <3>2. line'[q] = t
      BY <1>7, <2>1
    <3> QED
      BY <1>8, <2>1, <3>1, <3>2 DEF LineOf, At
  <2>2. CASE q # p
    <3>1. line[q] \in Seq(Calls) /\ LineOf(q) /\ line'[q] = line[q]
      BY <1>1, <1>7, <2>2 DEF LineOK
    <3>2. \A i \in 1..Len(line[q]) : line[q][i] \in Calls
      BY <3>1
    <3>3. \A i \in 1..Len(line[q]) : call'[line[q][i]].at = "lock"
      BY <1>2, <3>1, <3>2 DEF LineOf, At
    <3> QED
      BY <3>1, <3>3 DEF LineOf, At
  <2> QED
    BY <2>1, <2>2
<1>10. ASSUME NEW d \in Calls, At(d, "lock")'
       PROVE  \E i \in 1..Len(line'[ProcOf[d]]) : line'[ProcOf[d]][i] = d
  <2>1. CASE d = c
    BY <1>4, <1>5, <1>7, <2>1
  <2>2. CASE d # c
    <3>1. PICK i \in 1..Len(line[ProcOf[d]]) : line[ProcOf[d]][i] = d
      BY <1>1, <1>2, <1>10, <2>2 DEF LineOK
    <3>2. CASE ProcOf[d] = p
      <4>1. i \in 1..Len(t) /\ t[i] = d
        BY <1>4, <1>5, <3>1, <3>2 DEF s
      <4> QED
        BY <1>7, <3>2, <4>1
    <3>3. CASE ProcOf[d] # p
      BY <1>7, <3>1, <3>3, ConstantsAssumption
    <3> QED
      BY <3>2, <3>3
  <2> QED
    BY <2>1, <2>2
<1> QED
  BY <1>7, <1>9, <1>10 DEF LineOK

-----------------------------------------------------------------------------
\* Where a step takes a call, and what it keeps of its record.

Over(c, r) == \E how \in Ended : r = Ends(c, how)

Keeps(c, r) == r.retry = call[c].retry /\ r.attempt = call[c].attempt /\ r.sends = call[c].sends

Comes(c, r, to) == r.at = to /\ r.model = call[c].model /\ Keeps(c, r)

Lightens(c, r) ==
    /\ call[c].model = Main /\ Main # Light
    /\ r.at = "build" /\ r.model = Light /\ Keeps(c, r)

NewRecord(c, r) == r \in CallRecords /\ call' = [call EXCEPT ![c] = r]

LEMMA RecordIs ==
  ASSUME Typed, NEW c \in Calls, NEW r, NewRecord(c, r), NEW e, call' = [call EXCEPT ![c] = e]
  PROVE  r = e
BY DEF Typed, NewRecord

LEMMA WhereStart ==
  ASSUME Typed, NEW c \in Calls, NEW r, NewRecord(c, r), Start(c)
  PROVE  Over(c, r) \/ Comes(c, r, "build")
<1>1. r = Ends(c, "done") \/ r = [call[c] EXCEPT !.at = "build"]
  BY RecordIs DEF Start
<1> QED
  BY <1>1, CallFacts DEF Over, Ended, Comes, Keeps, CallRecords

LEMMA WhereCount ==
  ASSUME Typed, NEW c \in Calls, NEW r, NewRecord(c, r), Count(c)
  PROVE  Comes(c, r, IF Refuses(call[c].model, used[call[c].model] + 1) THEN "refused" ELSE "lock")
<1> DEFINE to == IF Refuses(call[c].model, used[call[c].model] + 1) THEN "refused" ELSE "lock"
<1>1. PICK thinks : call' = [call EXCEPT ![c].thinks = thinks, ![c].at = to]
  BY DEF Count
<1> HIDE DEF to
<1>2. r = [call[c] EXCEPT !.thinks = thinks, !.at = to]
  BY <1>1 DEF Typed, NewRecord
<1>3. Comes(c, r, to)
  BY <1>2, CallFacts DEF Comes, Keeps, CallRecords
<1> QED
  BY <1>3 DEF to

LEMMA WhereUncount ==
  ASSUME Typed, NEW c \in Calls, NEW r, NewRecord(c, r), Uncount(c)
  PROVE  Over(c, r) \/ Lightens(c, r)
<1>1. CASE call[c].model = Main /\ Main # Light
  <2>1. r = [call[c] EXCEPT !.model = Light, !.at = "build"]
    BY <1>1, RecordIs DEF Uncount
  <2> QED
    BY <1>1, <2>1, CallFacts DEF Lightens, Keeps, CallRecords
<1>2. CASE ~(call[c].model = Main /\ Main # Light)
  <2>1. r = Ends(c, "quota")
    BY <1>2, RecordIs DEF Uncount
  <2> QED
    BY <2>1 DEF Over, Ended
<1> QED
  BY <1>1, <1>2

LEMMA WhereTakeSlot ==
  ASSUME Typed, NEW c \in Calls, NEW r, NewRecord(c, r), TakeSlot(c)
  PROVE  Comes(c, r, "slot")
<1>1. r = [call[c] EXCEPT !.at = "slot"]
  BY DEF TakeSlot, Typed, NewRecord
<1> QED
  BY <1>1, CallFacts DEF Comes, Keeps, CallRecords

LEMMA WhereSend ==
  ASSUME Typed, NEW c \in Calls, NEW r, NewRecord(c, r), Send(c)
  PROVE  /\ r.at = "sent" /\ r.model = call[c].model /\ r.retry = call[c].retry
         /\ r.attempt = call[c].attempt /\ r.sends = call[c].sends + 1
<1>1. r = [call[c] EXCEPT !.at = "sent", !.sends = @ + 1]
  BY DEF Send, Typed, NewRecord
<1> QED
  BY <1>1, CallFacts DEF CallRecords

LEMMA WhereGood ==
  ASSUME Typed, NEW c \in Calls, NEW r, NewRecord(c, r), Good(c)
  PROVE  Comes(c, r, "answered")
<1>1. PICK ok \in BOOLEAN :
          call' = [call EXCEPT ![c].at = "answered", ![c].thinks = FALSE,
                               ![c].answer = [by |-> call[c].model, parses |-> ok]]
  BY DEF Good
<1> DEFINE a == [by |-> call[c].model, parses |-> ok]
<1>2. call' = [call EXCEPT ![c].at = "answered", ![c].thinks = FALSE, ![c].answer = a]
  BY <1>1
<1> HIDE DEF a
<1>3. r = [call[c] EXCEPT !.at = "answered", !.thinks = FALSE, !.answer = a]
  BY <1>2 DEF Typed, NewRecord
<1> QED
  BY <1>3, CallFacts DEF Comes, Keeps, CallRecords

LEMMA WhereRejected ==
  ASSUME Typed, NEW c \in Calls, NEW r, NewRecord(c, r), Rejected(c)
  PROVE  \/ /\ Comes(c, r, "build") /\ call[c].model \notin noThinking[ProcOf[c]]
            /\ call[c].model \in RejectsThinking
            /\ noThinking' = [noThinking EXCEPT ![ProcOf[c]] = @ \cup {call[c].model}]
         \/ Over(c, r) /\ noThinking' = noThinking
<1>1. CASE call[c].model \notin noThinking[ProcOf[c]]
  <2>1. r = [call[c] EXCEPT !.at = "build", !.thinks = FALSE]
    BY <1>1, RecordIs DEF Rejected, Goes
  <2> QED
    BY <1>1, <2>1, CallFacts DEF Rejected, Comes, Keeps, CallRecords
<1>2. CASE call[c].model \in noThinking[ProcOf[c]]
  <2>1. r = Ends(c, "rejected")
    BY <1>2, RecordIs DEF Rejected, Goes
  <2> QED
    BY <1>2, <2>1 DEF Rejected, Over, Ended
<1> QED
  BY <1>1, <1>2

LEMMA WhereError ==
  ASSUME Typed, NEW c \in Calls, NEW r, NewRecord(c, r), NEW e \in Errors, Error(c, e)
  PROVE  \/ Over(c, r) \/ Lightens(c, r)
         \/ /\ r.at = "backoff" /\ r.model = call[c].model /\ r.retry = call[c].retry + 1
            /\ r.attempt = call[c].attempt /\ r.sends = call[c].sends
<1> DEFINE over == call[c].over + (IF e = "503" THEN 1 ELSE 0)
           b == [call[c] EXCEPT !.at = "backoff", !.thinks = FALSE, !.over = over, !.retry = @ + 1]
<1>1. \/ call[c].model = Main /\ Main # Light /\ call' = [call EXCEPT ![c] = Fallback(c)]
      \/ \E how \in {"quota", "failed"} : call' = [call EXCEPT ![c] = Ends(c, how)]
      \/ call' = [call EXCEPT ![c] = b]
  BY DEF Error, Goes, FallsBack
<1> HIDE DEF b
<1>2. \/ call[c].model = Main /\ Main # Light /\ r = Fallback(c)
      \/ \E how \in {"quota", "failed"} : r = Ends(c, how)
      \/ r = b
  BY <1>1, RecordIs
<1>3. call[c].model = Main /\ Main # Light /\ r = Fallback(c) => Lightens(c, r)
  BY CallFacts DEF Lightens, Keeps, Fallback, CallRecords
<1>4. (\E how \in {"quota", "failed"} : r = Ends(c, how)) => Over(c, r)
  BY DEF Over, Ended
<1>5. r = b => /\ r.at = "backoff" /\ r.model = call[c].model /\ r.retry = call[c].retry + 1
               /\ r.attempt = call[c].attempt /\ r.sends = call[c].sends
  <2> HIDE DEF over
  <2> QED
    BY CallFacts DEF b, CallRecords
<1> QED
  BY <1>2, <1>3, <1>4, <1>5

LEMMA WhereRetry ==
  ASSUME Typed, NEW c \in Calls, NEW r, NewRecord(c, r), Retry(c)
  PROVE  Comes(c, r, "build")
<1>1. r = [call[c] EXCEPT !.at = "build"]
  BY DEF Retry, Goes, Typed, NewRecord
<1> QED
  BY <1>1, CallFacts DEF Comes, Keeps, CallRecords

LEMMA WhereFinish ==
  ASSUME Typed, NEW c \in Calls, NEW r, NewRecord(c, r), Finish(c)
  PROVE  \/ Over(c, r)
         \/ /\ r.at = "build" /\ r.model = AskedOf[c] /\ r.retry = 0
            /\ call[c].attempt = 1 /\ r.attempt = 2 /\ r.sends = call[c].sends
<1> DEFINE f == [Fresh(c) EXCEPT !.at = "build", !.attempt = 2, !.sends = call[c].sends]
<1>1. \/ \E how \in {"done", "invalid"} : call' = [call EXCEPT ![c] = Ends(c, how)]
      \/ call' = [call EXCEPT ![c] = f] /\ call[c].attempt # 2
  BY DEF Finish
<1> HIDE DEF f
<1>2. (\E how \in {"done", "invalid"} : r = Ends(c, how)) \/ (r = f /\ call[c].attempt # 2)
  BY <1>1, RecordIs
<1>3. Fresh(c) \in CallRecords /\ Fresh(c).model = AskedOf[c] /\ Fresh(c).retry = 0
  BY FreshTyped, PlacesAre DEF Ended
<1>4. r = f => r.at = "build" /\ r.model = AskedOf[c] /\ r.retry = 0 /\ r.attempt = 2 /\ r.sends = call[c].sends
  BY <1>3 DEF f, CallRecords
<1>5. call[c].attempt \in 1..2
  BY CallFacts DEF CallRecords
<1> QED
  BY <1>2, <1>4, <1>5 DEF Over, Ended

LEMMA WhereCut ==
  ASSUME Typed, NEW c \in Calls, NEW r, NewRecord(c, r), Cut(c)
  PROVE  Over(c, r)
<1>1. r = Ends(c, "cut")
  BY RecordIs DEF Cut
<1> QED
  BY <1>1 DEF Over, Ended

LEMMA OverIs ==
  ASSUME NEW c \in Calls, NEW r, Over(c, r)
  PROVE  r.at \in Ended /\ r.model = AskedOf[c] /\ r.retry = 0 /\ r.sends = 0 /\ r.attempt = 1
BY FreshTyped, PlacesAre DEF Over

\* A call between idle and its end is never over.
LEMMA NotEnded ==
  ASSUME NEW p \in {"idle", "build", "refused", "lock", "slot", "sent", "backoff", "answered"}
  PROVE  p \notin Ended
BY DEF Ended

LEMMA StepLine ==
  ASSUME Typed, NEW c \in Calls, Step(c) \/ Cut(c)
  PROVE  LineOK'
<1> USE CallFacts
<1>1. PICK r : Proper(c, r) /\ call' = [call EXCEPT ![c] = r]
  BY StepRecord
<1>2. call \in [Calls -> CallRecords] /\ LineOK /\ NewRecord(c, r)
  BY <1>1 DEF Typed, NewRecord, Proper
<1>3. line \in [Procs -> Seq(Calls)] /\ line[ProcOf[c]] \in Seq(Calls) /\ Once(line[ProcOf[c]])
  BY <1>2 DEF LineOK, LineOf
<1> DEFINE w == line[ProcOf[c]]
<1>4. Over(c, r) => r.at # "lock"
  BY OverIs, NotEnded
<1>5. CASE Count(c) /\ Refuses(call[c].model, used[call[c].model] + 1)
  <2>1. ~At(c, "lock") /\ line' = line
    BY <1>5 DEF Count, At
  <2>2. r.at = "refused"
    BY <1>2, <1>5, WhereCount DEF Comes
  <2> QED
    BY <1>1, <2>1, <2>2, LinesStay
<1>6. CASE Count(c) /\ ~Refuses(call[c].model, used[call[c].model] + 1)
  <2>1. ~At(c, "lock") /\ line' = [line EXCEPT ![ProcOf[c]] = Append(@, c)]
    BY <1>6 DEF Count, At
  <2>2. r.at = "lock"
    BY <1>2, <1>6, WhereCount DEF Comes
  <2> QED
    BY <1>1, <2>1, <2>2, OneJoinsLine
<1>7. CASE TakeSlot(c)
  <2>1. PICK t : t = Tail(line[ProcOf[c]])
    OBVIOUS
  <2>2. At(c, "lock") /\ Head(line[ProcOf[c]]) = c /\ line' = [line EXCEPT ![ProcOf[c]] = t]
    BY <1>7, <2>1 DEF TakeSlot
  <2>3. r.at # "lock"
    BY <1>2, <1>7, WhereTakeSlot DEF Comes
  <2>4. line[ProcOf[c]] # <<>>
    BY <1>2, <1>3, <2>2 DEF LineOK
  <2>5. t \in Seq(Calls) /\ Once(t) /\ Without(t, line[ProcOf[c]], c)
    <3>1. w \in Seq(Calls) /\ Once(w) /\ w # <<>> /\ t = Tail(w) /\ c = Head(w)
      BY <1>3, <2>1, <2>2, <2>4
    <3> HIDE DEF w
    <3>2. t \in Seq(Calls) /\ Once(t) /\ Without(t, w, c)
      BY ONLY <3>1, FirstLeaves
    <3> QED
      BY <3>2 DEF w
  <2> QED
    BY <1>1, <2>2, <2>3, <2>5, OneLeavesLine
<1>8. CASE Cut(c)
  <2>1. PICK t : t = RemoveFirst(line[ProcOf[c]], c)
    OBVIOUS
  <2>2. line' = [line EXCEPT ![ProcOf[c]] = t]
    BY <1>8, <2>1 DEF Cut
  <2>3. t \in Seq(Calls) /\ Once(t) /\ Without(t, line[ProcOf[c]], c)
    <3>1. w \in Seq(Calls) /\ Once(w) /\ t = RemoveFirst(w, c)
      BY <1>3, <2>1
    <3> HIDE DEF w
    <3>2. t \in Seq(Calls) /\ Once(t) /\ Without(t, w, c)
      BY ONLY <3>1, LineWithout
    <3> QED
      BY <3>2 DEF w
  <2>4. r.at # "lock"
    BY <1>2, <1>4, <1>8, WhereCut
  <2> QED
    BY <1>1, <2>2, <2>3, <2>4, OneLeavesLine
<1>9. CASE Start(c) \/ Uncount(c) \/ Send(c) \/ Good(c) \/ Rejected(c)
           \/ (\E e \in Errors : Error(c, e)) \/ Retry(c) \/ Finish(c)
  <2>1. line' = line /\ ~At(c, "lock")
    BY <1>9 DEF Start, Uncount, Send, Good, Rejected, Error, Retry, Finish, Goes, At
  <2>2. r.at # "lock"
    BY <1>2, <1>4, <1>9, WhereStart, WhereUncount, WhereSend, WhereGood, WhereRejected, WhereError,
       WhereRetry, WhereFinish DEF Comes, Lightens
  <2> QED
    BY <1>1, <2>1, <2>2, LinesStay
<1> QED
  BY <1>5, <1>6, <1>7, <1>8, <1>9 DEF Step

LEMMA StaysTyped ==
  ASSUME Typed, UNCHANGED <<call, line, noThinking, cuts, granted, refused>>, SharedOK'
  PROVE  Typed'
<1>1. call' \in [Calls -> CallRecords] /\ (\A c \in Calls : CallOK(c))'
  BY DEF Typed, CallOK
<1>2. LineOK'
  BY DEF Typed, LineOK, LineOf, At
<1>3. LocalOK'
  BY DEF Typed, LocalOK
<1>4. HistoryOK'
  BY Zenon DEF Typed, HistoryOK
<1> QED
  BY <1>1, <1>2, <1>3, <1>4 DEF Typed

LEMMA ExpireTyped ==
  ASSUME Typed, NEW m \in Models, Expire(m)
  PROVE  Typed'
<1>1. UNCHANGED <<call, cache, used, line, noThinking, cuts, history>> /\ slots[m] > 0 /\ slots' = [slots EXCEPT ![m] = @ - 1]
  BY DEF Expire
<1>2. SharedOK'
  <2>1. SharedOK /\ \A k \in Models : Rate[k] \in Nat
    BY ConstantsAssumption DEF Typed
  <2> QED
    BY <1>1, <2>1 DEF SharedOK
<1> QED
  BY <1>1, <1>2, StaysTyped DEF history

LEMMA InitTyped == Init => Typed
<1> SUFFICES ASSUME Init PROVE Typed
  OBVIOUS
<1>1. \A c \in Calls : Fresh(c) \in CallRecords /\ Fresh(c).at = "idle" /\ Fresh(c).model = AskedOf[c]
                         /\ Fresh(c).retry = 0 /\ Fresh(c).over = 0
  <2>1. "idle" \in Places
    BY PlacesAre
  <2> QED
    BY <2>1, FreshTyped DEF Fresh
<1>2. Retries \in Nat /\ \A m \in Models : Rate[m] \in Nat
  BY ConstantsAssumption
<1>3. call \in [Calls -> CallRecords]
  BY <1>1 DEF Init
<1>4. \A c \in Calls : CallOK(c) /\ ~At(c, "lock")
  BY <1>1, <1>2 DEF Init, CallOK, At
<1>5. SharedOK
  BY <1>2 DEF Init, SharedOK
<1>6. LineOK
  <2>1. line = [p \in Procs |-> <<>>]
    BY DEF Init
  <2>2. line \in [Procs -> Seq(Calls)]
    BY <2>1
  <2>3. \A p \in Procs : LineOf(p)
    BY <2>1 DEF LineOf, Once
  <2> QED
    BY <1>4, <2>2, <2>3 DEF LineOK
<1>7. LocalOK /\ granted \in [Models -> Nat]
  BY DEF Init, LocalOK
<1>8. refused \in [Models -> BOOLEAN]
  BY Zenon DEF Init
<1> QED
  BY <1>3, <1>4, <1>5, <1>6, <1>7, <1>8 DEF Typed, HistoryOK

LEMMA StepTyped ==
  ASSUME Typed, [Next]_vars
  PROVE  Typed'
<1>1. CASE UNCHANGED vars
  <2>1. UNCHANGED <<call, cache, used, slots, line, noThinking, cuts, granted, refused>>
    BY <1>1 DEF vars, shared, history
  <2>2. SharedOK'
    BY <2>1 DEF Typed, SharedOK
  <2> QED
    BY <2>1, <2>2, StaysTyped
<1>2. ASSUME NEW c \in Calls, Step(c) \/ Cut(c) PROVE Typed'
  <2>1. PICK r : Proper(c, r) /\ call' = [call EXCEPT ![c] = r]
    BY <1>2, StepRecord
  <2>2. CallsTyped'
    BY <2>1, OneCall
  <2>3. SharedOK' /\ LocalOK' /\ HistoryOK' /\ LineOK'
    BY <1>2, StepRest, StepLine
  <2> QED
    BY <2>2, <2>3 DEF Typed, CallsTyped
<1>3. ASSUME NEW m \in Models, Expire(m) PROVE Typed'
  BY <1>3, ExpireTyped
<1> QED
  BY <1>1, <1>2, <1>3 DEF Next

-----------------------------------------------------------------------------
\* The semaphore of a process.

Flying(p) == {c \in Calls : ProcOf[c] = p /\ At(c, "sent")}

FlightInv == \A p \in Procs : IsFiniteSet(Flying(p)) /\ Cardinality(Flying(p)) <= Concurrency

LEMMA Smaller ==
  ASSUME NEW S, IsFiniteSet(S), NEW T \in SUBSET S
  PROVE  IsFiniteSet(T) /\ Cardinality(T) \in Nat /\ Cardinality(S) \in Nat /\ Cardinality(T) <= Cardinality(S)
BY FS_Subset, FS_CardinalityType

LEMMA OneMore ==
  ASSUME NEW S, IsFiniteSet(S), NEW x, NEW T \in SUBSET (S \cup {x})
  PROVE  IsFiniteSet(T) /\ Cardinality(T) \in Nat /\ Cardinality(S) \in Nat /\ Cardinality(T) <= Cardinality(S) + 1
<1>1. /\ IsFiniteSet(S \cup {x}) /\ Cardinality(S) \in Nat
      /\ Cardinality(S \cup {x}) = Cardinality(S) \/ Cardinality(S \cup {x}) = Cardinality(S) + 1
  BY FS_AddElement, FS_CardinalityType
<1>2. /\ IsFiniteSet(T) /\ Cardinality(T) \in Nat /\ Cardinality(S \cup {x}) \in Nat
      /\ Cardinality(T) <= Cardinality(S \cup {x})
  BY <1>1, Smaller
<1> QED
  BY <1>1, <1>2

\* Only Send sends.
LEMMA OnlySendSends ==
  ASSUME Typed, NEW c \in Calls, NEW r, NewRecord(c, r), Step(c) \/ Cut(c), r.at = "sent"
  PROVE  Send(c)
<1>1. Over(c, r) => r.at # "sent"
  BY OverIs, NotEnded
<1> QED
  BY <1>1, WhereStart, WhereCount, WhereUncount, WhereTakeSlot, WhereGood, WhereRejected, WhereError,
     WhereRetry, WhereFinish, WhereCut DEF Step, Comes, Lightens

LEMMA StepFlight ==
  ASSUME Typed, FlightInv, [Next]_vars
  PROVE  FlightInv'
<1>1. ASSUME NEW c \in Calls, Step(c) \/ Cut(c) PROVE FlightInv'
  <2>1. PICK r : NewRecord(c, r)
    BY <1>1, StepRecord DEF NewRecord, Proper
  <2>2. call \in [Calls -> CallRecords] /\ call' = [call EXCEPT ![c] = r]
    BY <2>1 DEF Typed, NewRecord
  <2> SUFFICES ASSUME NEW p \in Procs
               PROVE  (IsFiniteSet(Flying(p)) /\ Cardinality(Flying(p)) <= Concurrency)'
    BY DEF FlightInv
  <2>3. IsFiniteSet(Flying(p)) /\ Cardinality(Flying(p)) <= Concurrency /\ Concurrency \in Nat
    BY ConstantsAssumption DEF FlightInv
  <2>4. CASE r.at = "sent" /\ ProcOf[c] = p
    <3>1. Cardinality(Flying(p)) < Concurrency
      BY <1>1, <2>1, <2>4, OnlySendSends DEF Send, InFlight, Flying
    <3>2. Flying(p)' \in SUBSET (Flying(p) \cup {c})
      BY <2>2 DEF Flying, At
    <3>3. /\ IsFiniteSet(Flying(p)') /\ Cardinality(Flying(p)') \in Nat /\ Cardinality(Flying(p)) \in Nat
          /\ Cardinality(Flying(p)') <= Cardinality(Flying(p)) + 1
      BY <2>3, <3>2, OneMore
    <3> QED
      BY <2>3, <3>1, <3>3
  <2>5. CASE ~(r.at = "sent" /\ ProcOf[c] = p)
    <3>1. Flying(p)' \in SUBSET Flying(p)
      BY <2>2, <2>5 DEF Flying, At
    <3>2. /\ IsFiniteSet(Flying(p)') /\ Cardinality(Flying(p)') \in Nat /\ Cardinality(Flying(p)) \in Nat
          /\ Cardinality(Flying(p)') <= Cardinality(Flying(p))
      BY <2>3, <3>1, Smaller
    <3> QED
      BY <2>3, <3>2
  <2> QED
    BY <2>4, <2>5
<1>2. CASE call' = call
  BY <1>2 DEF FlightInv, Flying, At
<1> QED
  BY <1>1, <1>2 DEF Next, Expire, vars

-----------------------------------------------------------------------------
\* The cache.

LEMMA StepCache ==
  ASSUME Typed, CacheIsRight, [Next]_vars
  PROVE  CacheIsRight'
<1>1. CASE cache' = cache
  BY <1>1 DEF CacheIsRight
<1>2. ASSUME NEW c \in Calls, Finish(c), Caches(c) PROVE CacheIsRight'
  <2>1. cache' = [cache EXCEPT ![KeyOf[c]] = call[c].answer]
    BY <1>2 DEF Finish
  <2>2. cache \in [Keys -> Answers \cup {None}] /\ KeyOf[c] \in Keys
    BY CallFacts DEF Typed, SharedOK
  <2>3. call[c].answer.by = AskedOf[c] /\ (c \in Strict => call[c].answer.parses)
    BY <1>2 DEF Caches
  <2> SUFFICES ASSUME NEW d \in Calls, cache'[KeyOf[d]] # None
               PROVE  cache'[KeyOf[d]].by = AskedOf[d] /\ (d \in Strict => cache'[KeyOf[d]].parses)
    BY DEF CacheIsRight
  <2>4. CASE KeyOf[d] = KeyOf[c]
    <3>1. AskedOf[d] = AskedOf[c] /\ (d \in Strict <=> c \in Strict)
      BY <2>4, ConstantsAssumption
    <3> QED
      BY <2>1, <2>2, <2>3, <2>4, <3>1
  <2>5. CASE KeyOf[d] # KeyOf[c]
    BY <2>1, <2>2, <2>5 DEF CacheIsRight
  <2> QED
    BY <2>4, <2>5
<1>3. ASSUME NEW c \in Calls, Step(c) \/ Cut(c), ~(Finish(c) /\ Caches(c)) PROVE cache' = cache
  BY <1>3 DEF Step, Start, Count, Uncount, TakeSlot, Send, Good, Rejected, Error, Goes, Retry, Finish, Cut, shared
<1> QED
  BY <1>1, <1>2, <1>3 DEF Next, Expire, vars, shared

-----------------------------------------------------------------------------
\* The requests of a call: those of the attempt before, one for every retry, one when the
\* call has gone over to the light model, one for every model that its process has found
\* to reject thinking, and the one that is out or has been answered.

One(condition) == IF condition THEN 1 ELSE 0

SendsOf(c) ==
    /\ IsFiniteSet(noThinking[ProcOf[c]])
    /\ call[c].sends <= (IF call[c].attempt = 2 THEN Retries + 2 ELSE 0)
                          + call[c].retry + One(call[c].model # AskedOf[c])
                          + Cardinality(noThinking[ProcOf[c]]) + One(call[c].at \in {"sent", "answered"})

SendsInv == \A c \in Calls : SendsOf(c)

LEMMA ModelsFinite ==
  /\ IsFiniteSet(RejectsThinking)
  /\ \A S \in SUBSET RejectsThinking : IsFiniteSet(S) /\ Cardinality(S) \in Nat
                                         /\ Cardinality(S) <= Cardinality(RejectsThinking)
<1>1. IsFiniteSet(Models)
  <2>1. IsFiniteSet({Main})
    BY FS_Singleton
  <2>2. IsFiniteSet({Main} \cup {Light})
    BY <2>1, FS_AddElement
  <2>3. Models = {Main} \cup {Light}
    BY DEF Models
  <2> QED
    BY <2>2, <2>3
<1>2. IsFiniteSet(RejectsThinking)
  BY <1>1, FS_Subset, ConstantsAssumption
<1> QED
  BY <1>2, Smaller

\* What the call that steps has sent.
LEMMA StepSends ==
  ASSUME Typed, SendsInv, NEW c \in Calls, Step(c) \/ Cut(c)
  PROVE  SendsOf(c)'
<1> DEFINE n == Cardinality(noThinking[ProcOf[c]])
           before == IF call[c].attempt = 2 THEN Retries + 2 ELSE 0
           over == One(call[c].model # AskedOf[c])
           out == One(call[c].at \in {"sent", "answered"})
<1>1. PICK r : NewRecord(c, r) /\ Proper(c, r)
  BY StepRecord DEF NewRecord, Proper
<1>2. call'[c] = r /\ ProcOf[c] \in Procs /\ Retries \in Nat
  BY <1>1, CallFacts DEF NewRecord, Typed
<1>3. noThinking[ProcOf[c]] \in SUBSET RejectsThinking /\ n \in Nat
  BY <1>2, ModelsFinite DEF Typed, LocalOK
<1>4. noThinking'[ProcOf[c]] \in SUBSET RejectsThinking
  BY <1>2, StepRest DEF LocalOK
<1>5. IsFiniteSet(noThinking'[ProcOf[c]]) /\ Cardinality(noThinking'[ProcOf[c]]) \in Nat
  BY <1>4, ModelsFinite
<1>6. call[c].sends <= before + call[c].retry + over + n + out
  BY DEF SendsInv, SendsOf
<1>7. /\ call[c].sends \in Nat /\ call[c].retry \in Nat /\ call[c].retry <= Retries
      /\ call[c].model \in {AskedOf[c], Light} /\ call[c].attempt \in 1..2
  BY CallFacts DEF CallRecords, Proper
<1> DEFINE bound == (IF r.attempt = 2 THEN Retries + 2 ELSE 0) + r.retry + One(r.model # AskedOf[c])
                      + Cardinality(noThinking'[ProcOf[c]]) + One(r.at \in {"sent", "answered"})
<1> SUFFICES r.sends <= bound
  BY <1>2, <1>5 DEF SendsOf
<1>8. CASE Over(c, r)
  <2>1. r.sends = 0 /\ r.retry = 0 /\ r.attempt = 1
    BY <1>8, OverIs
  <2> QED
    BY <1>5, <2>1 DEF One
<1>9. CASE ~Over(c, r) /\ Rejected(c)
  <2>1. /\ Comes(c, r, "build") /\ call[c].model \notin noThinking[ProcOf[c]]
        /\ noThinking' = [noThinking EXCEPT ![ProcOf[c]] = @ \cup {call[c].model}] /\ call[c].at = "sent"
    BY <1>1, <1>9, WhereRejected DEF Rejected, At
  <2>2. noThinking'[ProcOf[c]] = noThinking[ProcOf[c]] \cup {call[c].model}
    BY <1>2, <2>1 DEF Typed, LocalOK
  <2>3. Cardinality(noThinking'[ProcOf[c]]) = n + 1
    BY <1>3, <2>1, <2>2, ModelsFinite, FS_AddElement
  <2> HIDE DEF n
  <2> QED
    BY <1>2, <1>3, <1>6, <1>7, <2>1, <2>3 DEF Comes, Keeps, One
<1>10. CASE ~Over(c, r) /\ ~Rejected(c)
  <2>1. Cardinality(noThinking'[ProcOf[c]]) = n
    <3>1. noThinking' = noThinking
      BY <1>1, <1>10, WhereCut DEF Step, Start, Count, Uncount, TakeSlot, Send, Good, Error, Retry, Finish
    <3> QED
      BY <3>1
  <2> HIDE DEF n
  <2>2. CASE Start(c)
    <3>1. Comes(c, r, "build") /\ call[c].at = "idle"
      BY <1>1, <1>10, <2>2, WhereStart DEF Start, At
    <3> QED
      BY <1>2, <1>3, <1>6, <1>7, <2>1, <3>1 DEF Comes, Keeps, One
  <2>3. CASE Count(c)
    <3>1. (Comes(c, r, "refused") \/ Comes(c, r, "lock")) /\ call[c].at = "build"
      BY <1>1, <1>10, <2>3, WhereCount DEF Count, At
    <3> QED
      BY <1>2, <1>3, <1>6, <1>7, <2>1, <3>1 DEF Comes, Keeps, One
  <2>4. CASE Uncount(c)
    <3>1. Lightens(c, r)
      BY <1>1, <1>10, <2>4, WhereUncount DEF Uncount, At
    <3> QED
      BY <1>2, <1>3, <1>6, <1>7, <2>1, <3>1 DEF Lightens, Keeps, One
  <2>5. CASE TakeSlot(c)
    <3>1. Comes(c, r, "slot") /\ call[c].at = "lock"
      BY <1>1, <1>10, <2>5, WhereTakeSlot DEF TakeSlot, At
    <3> QED
      BY <1>2, <1>3, <1>6, <1>7, <2>1, <3>1 DEF Comes, Keeps, One
  <2>6. CASE Send(c)
    <3>1. /\ r.at = "sent" /\ r.model = call[c].model /\ r.retry = call[c].retry
          /\ r.attempt = call[c].attempt /\ r.sends = call[c].sends + 1 /\ call[c].at = "slot"
      BY <1>1, <2>6, WhereSend DEF Send, At
    <3> QED
      BY <1>2, <1>3, <1>6, <1>7, <2>1, <3>1 DEF One
  <2>7. CASE Good(c)
    <3>1. Comes(c, r, "answered") /\ call[c].at = "sent"
      BY <1>1, <1>10, <2>7, WhereGood DEF Good, At
    <3> QED
      BY <1>2, <1>3, <1>6, <1>7, <2>1, <3>1 DEF Comes, Keeps, One
  <2>8. CASE \E e \in Errors : Error(c, e)
    <3>1. call[c].at = "sent"
      BY <2>8 DEF Error, At
    <3> QED
      BY <1>1, <1>2, <1>3, <1>6, <1>7, <1>10, <2>1, <2>8, <3>1, WhereError DEF Lightens, Keeps, One
  <2>9. CASE Retry(c)
    BY <1>1, <1>3, <1>6, <1>7, <1>10, <2>1, <2>9, WhereRetry DEF Retry, At, Comes, Keeps, One
  <2>10. CASE Finish(c)
    <3>1. /\ r.at = "build" /\ r.model = AskedOf[c] /\ r.retry = 0
          /\ call[c].attempt = 1 /\ r.attempt = 2 /\ r.sends = call[c].sends
      BY <1>1, <1>10, <2>10, WhereFinish
    <3> QED
      BY <1>2, <1>3, <1>6, <1>7, <2>1, <3>1 DEF One
  <2> QED
    BY <1>1, <1>10, <2>2, <2>3, <2>4, <2>5, <2>6, <2>7, <2>8, <2>9, <2>10, WhereCut DEF Step
<1> QED
  BY <1>8, <1>9, <1>10

\* What every call has sent.
LEMMA StepSendsInv ==
  ASSUME Typed, SendsInv, [Next]_vars
  PROVE  SendsInv'
<1>1. ASSUME NEW c \in Calls, Step(c) \/ Cut(c), NEW d \in Calls, d # c
      PROVE  SendsOf(d)'
  <2>1. PICK r : Proper(c, r) /\ call' = [call EXCEPT ![c] = r]
    BY <1>1, StepRecord
  <2>2. call'[d] = call[d]
    BY <1>1, <2>1 DEF Typed
  <2>3. noThinking' = noThinking \/ \E m \in Models : noThinking' = [noThinking EXCEPT ![ProcOf[c]] = @ \cup {m}]
    BY <1>1, CallFacts DEF Step, Start, Count, Uncount, TakeSlot, Send, Good, Rejected, Error, Retry, Finish, Cut
  <2>4. ProcOf[d] \in Procs /\ noThinking \in [Procs -> SUBSET RejectsThinking]
    BY CallFacts DEF Typed, LocalOK
  <2>5. noThinking[ProcOf[d]] \subseteq noThinking'[ProcOf[d]]
    BY <2>3, <2>4
  <2>6. noThinking'[ProcOf[d]] \in SUBSET RejectsThinking
    BY <1>1, <2>4, StepRest DEF LocalOK
  <2>7. /\ IsFiniteSet(noThinking'[ProcOf[d]]) /\ Cardinality(noThinking'[ProcOf[d]]) \in Nat
        /\ Cardinality(noThinking[ProcOf[d]]) \in Nat
        /\ Cardinality(noThinking[ProcOf[d]]) <= Cardinality(noThinking'[ProcOf[d]])
    BY <2>5, <2>6, ModelsFinite, Smaller
  <2>8. call[d].sends \in Nat /\ call[d].retry \in Nat /\ Retries \in Nat
    BY CallFacts DEF CallRecords
  <2>9. SendsOf(d)
    BY DEF SendsInv
  <2> QED
    BY <2>2, <2>7, <2>8, <2>9 DEF SendsOf, One
<1>2. ASSUME NEW c \in Calls, Step(c) \/ Cut(c) PROVE SendsInv'
  BY <1>1, <1>2, StepSends DEF SendsInv
<1>3. CASE UNCHANGED <<call, noThinking>>
  BY <1>3 DEF SendsInv, SendsOf
<1> QED
  BY <1>2, <1>3 DEF Next, Expire, vars

LEMMA SendsAreBounded == Typed /\ SendsInv => SendsBounded
<1> SUFFICES ASSUME Typed, SendsInv, NEW c \in Calls
             PROVE  call[c].sends <= call[c].attempt * (Retries + 2) + Cardinality(RejectsThinking)
  BY DEF SendsBounded
<1>1. /\ call[c].sends \in Nat /\ call[c].retry \in Nat /\ call[c].retry <= Retries
      /\ call[c].attempt \in 1..2 /\ Retries \in Nat /\ ProcOf[c] \in Procs
  BY CallFacts DEF CallRecords, Proper
<1>2. /\ Cardinality(noThinking[ProcOf[c]]) \in Nat /\ Cardinality(RejectsThinking) \in Nat
      /\ Cardinality(noThinking[ProcOf[c]]) <= Cardinality(RejectsThinking)
  BY <1>1, ModelsFinite, Smaller DEF Typed, LocalOK
<1>3. call[c].sends <= (IF call[c].attempt = 2 THEN Retries + 2 ELSE 0) + Retries + 2 + Cardinality(RejectsThinking)
  BY <1>1, <1>2 DEF SendsInv, SendsOf, One
<1>4. call[c].attempt * (Retries + 2) = (IF call[c].attempt = 2 THEN Retries + 2 ELSE 0) + Retries + 2
  <2>1. CASE call[c].attempt = 1
    BY <1>1, <2>1
  <2>2. CASE call[c].attempt = 2
    BY <1>1, <2>2
  <2> QED
    BY <1>1, <2>1, <2>2
<1> QED
  BY <1>1, <1>2, <1>3, <1>4

-----------------------------------------------------------------------------
\* The counter of the day.

Refusing(m) == {c \in Calls : At(c, "refused") /\ call[c].model = m}

\* What the counter stands at beyond what it granted is held by calls that are yet to take
\* it back, or was left by cut ones; and it is beyond only when the cap has been granted.
QuotaOf(m) ==
    /\ IsFiniteSet(Refusing(m))
    /\ Cardinality(Refusing(m)) <= used[m] - granted[m]
    /\ granted[m] <= DailyCap[m]
    /\ used[m] > granted[m] => granted[m] = DailyCap[m]

QuotaInv == \A m \in Models : QuotaOf(m)

LEMMA QuotaFacts ==
  ASSUME Typed, NEW m \in Models
  PROVE  used[m] \in Int /\ granted[m] \in Nat /\ DailyCap[m] \in Nat
BY ConstantsAssumption DEF Typed, SharedOK, HistoryOK

\* A call that is not refused takes nothing from the counter.
LEMMA QuotaStays ==
  ASSUME Typed, QuotaInv, NEW c \in Calls, NEW r, NewRecord(c, r), r.at # "refused",
         UNCHANGED <<used, granted>>
  PROVE  QuotaInv'
<1> SUFFICES ASSUME NEW m \in Models PROVE QuotaOf(m)'
  BY DEF QuotaInv
<1>1. Refusing(m)' \in SUBSET Refusing(m)
  BY DEF Typed, NewRecord, Refusing, At
<1>2. IsFiniteSet(Refusing(m)) /\ QuotaOf(m)
  BY DEF QuotaInv, QuotaOf
<1>3. /\ IsFiniteSet(Refusing(m)') /\ Cardinality(Refusing(m)') \in Nat /\ Cardinality(Refusing(m)) \in Nat
      /\ Cardinality(Refusing(m)') <= Cardinality(Refusing(m))
  BY <1>1, <1>2, Smaller
<1> QED
  BY <1>2, <1>3, QuotaFacts DEF QuotaOf

LEMMA CountQuota ==
  ASSUME Typed, QuotaInv, NEW c \in Calls, NEW r, NewRecord(c, r), Count(c)
  PROVE  QuotaInv'
<1> DEFINE k == call[c].model
<1>1. k \in Models /\ used' = [used EXCEPT ![k] = used[k] + 1]
  BY CallFacts DEF Count
<1>2. Comes(c, r, IF Refuses(k, used[k] + 1) THEN "refused" ELSE "lock")
  BY WhereCount
<1>3. call \in [Calls -> CallRecords] /\ call' = [call EXCEPT ![c] = r] /\ used \in [Models -> Int]
      /\ granted \in [Models -> Nat] /\ call[c].at = "build" /\ r.model = k
  BY <1>2 DEF Typed, NewRecord, SharedOK, HistoryOK, Count, At, Comes
<1>4. granted' = IF Refuses(k, used[k] + 1) THEN granted ELSE [granted EXCEPT ![k] = granted[k] + 1]
  BY DEF Count
<1> SUFFICES ASSUME NEW m \in Models PROVE QuotaOf(m)'
  BY DEF QuotaInv
<1>5. QuotaOf(m) /\ IsFiniteSet(Refusing(m)) /\ Cardinality(Refusing(m)) \in Nat
  BY FS_CardinalityType DEF QuotaInv, QuotaOf
<1>6. used[m] \in Int /\ granted[m] \in Nat /\ DailyCap[m] \in Nat
  BY QuotaFacts
<1> HIDE DEF k
<1>7. CASE m # k
  <2>1. Refusing(m)' = Refusing(m)
    BY <1>3, <1>7 DEF Refusing, At
  <2>2. used'[m] = used[m] /\ granted'[m] = granted[m]
    BY <1>1, <1>3, <1>4, <1>7
  <2> QED
    BY <1>5, <2>1, <2>2 DEF QuotaOf
<1>8. CASE m = k /\ ~Refuses(k, used[k] + 1)
  <2>1. Refusing(m)' = Refusing(m)
    BY <1>2, <1>3, <1>8 DEF Refusing, At, Comes
  <2>2. used'[m] = used[m] + 1 /\ granted'[m] = granted[m] + 1
    BY <1>1, <1>3, <1>4, <1>8
  <2>3. used[m] + 1 <= DailyCap[m]
    BY <1>6, <1>8 DEF Refuses
  <2> QED
    BY <1>5, <1>6, <2>1, <2>2, <2>3 DEF QuotaOf
<1>9. CASE m = k /\ Refuses(k, used[k] + 1)
  <2>1. Refusing(m)' \in SUBSET (Refusing(m) \cup {c})
    BY <1>3 DEF Refusing, At
  <2>2. IsFiniteSet(Refusing(m)') /\ Cardinality(Refusing(m)') \in Nat
        /\ Cardinality(Refusing(m)') <= Cardinality(Refusing(m)) + 1
    BY <1>5, <2>1, OneMore
  <2>3. used'[m] = used[m] + 1 /\ granted'[m] = granted[m]
    BY <1>1, <1>3, <1>4, <1>9
  <2>4. used[m] >= DailyCap[m]
    BY <1>6, <1>9 DEF Refuses
  <2> QED
    BY <1>5, <1>6, <2>2, <2>3, <2>4 DEF QuotaOf
<1> QED
  BY <1>7, <1>8, <1>9

LEMMA UncountQuota ==
  ASSUME Typed, QuotaInv, NEW c \in Calls, NEW r, NewRecord(c, r), Uncount(c)
  PROVE  QuotaInv'
<1> DEFINE k == call[c].model
<1>1. k \in Models /\ used' = [used EXCEPT ![k] = used[k] - 1] /\ granted' = granted
      /\ c \in Refusing(k)
  BY CallFacts DEF Uncount, history, Refusing, At
<1>2. r.at # "refused"
  BY WhereUncount, OverIs, NotEnded DEF Lightens
<1>3. call \in [Calls -> CallRecords] /\ call' = [call EXCEPT ![c] = r] /\ used \in [Models -> Int]
  BY DEF Typed, NewRecord, SharedOK
<1> SUFFICES ASSUME NEW m \in Models PROVE QuotaOf(m)'
  BY DEF QuotaInv
<1>5. QuotaOf(m) /\ IsFiniteSet(Refusing(m)) /\ Cardinality(Refusing(m)) \in Nat
  BY FS_CardinalityType DEF QuotaInv, QuotaOf
<1>6. used[m] \in Int /\ granted[m] \in Nat /\ DailyCap[m] \in Nat
  BY QuotaFacts
<1>7. CASE m # k
  <2>1. Refusing(m)' = Refusing(m)
    BY <1>1, <1>2, <1>3, <1>7 DEF Refusing, At
  <2>2. used'[m] = used[m] /\ granted'[m] = granted[m]
    BY <1>1, <1>3, <1>7
  <2> QED
    BY <1>5, <2>1, <2>2 DEF QuotaOf
<1>8. CASE m = k
  <2>1. Refusing(m)' = Refusing(m) \ {c}
    BY <1>2, <1>3 DEF Refusing, At
  <2>2. IsFiniteSet(Refusing(m)') /\ Cardinality(Refusing(m)') = Cardinality(Refusing(m)) - 1
    BY <1>1, <1>5, <1>8, <2>1, FS_RemoveElement
  <2>3. used'[m] = used[m] - 1 /\ granted'[m] = granted[m]
    BY <1>1, <1>3, <1>8
  <2> QED
    BY <1>5, <1>6, <2>2, <2>3 DEF QuotaOf
<1> QED
  BY <1>7, <1>8

LEMMA StepQuota ==
  ASSUME Typed, QuotaInv, [Next]_vars
  PROVE  QuotaInv'
<1>1. ASSUME NEW c \in Calls, Step(c) \/ Cut(c) PROVE QuotaInv'
  <2>1. PICK r : NewRecord(c, r)
    BY <1>1, StepRecord DEF NewRecord, Proper
  <2>2. CASE Count(c)
    BY <2>1, <2>2, CountQuota
  <2>3. CASE Uncount(c)
    BY <2>1, <2>3, UncountQuota
  <2>4. CASE ~Count(c) /\ ~Uncount(c)
    <3>1. UNCHANGED <<used, granted>>
      BY <1>1, <2>4 DEF Step, Start, TakeSlot, Send, Good, Rejected, Error, Goes, Retry, Finish, Cut, shared, history
    <3>2. Over(c, r) => r.at # "refused"
      BY OverIs, NotEnded
    <3>3. r.at # "refused"
      BY <1>1, <2>1, <2>4, <3>2, WhereStart, WhereTakeSlot, WhereSend, WhereGood, WhereRejected, WhereError,
         WhereRetry, WhereFinish, WhereCut DEF Step, Comes, Lightens
    <3> QED
      BY <2>1, <3>1, <3>3, QuotaStays
  <2> QED
    BY <2>2, <2>3, <2>4
<1>2. CASE UNCHANGED <<call, used, granted>>
  BY <1>2 DEF QuotaInv, QuotaOf, Refusing, At
<1> QED
  BY <1>1, <1>2 DEF Next, Expire, vars, shared, history

-----------------------------------------------------------------------------
\* The invariant, and what follows from it.

Inv == Typed /\ FlightInv /\ CacheIsRight /\ SendsInv /\ QuotaInv

LEMMA InitInv == Init => Inv
<1> SUFFICES ASSUME Init PROVE Inv
  OBVIOUS
<1>1. Typed
  BY InitTyped
<1>2. \A c \in Calls : call[c].at = "idle" /\ call[c].sends = 0 /\ call[c].retry = 0 /\ call[c].attempt = 1
  BY DEF Init, Fresh
<1>3. FlightInv
  <2>1. \A p \in Procs : Flying(p) = {}
    BY <1>2 DEF Flying, At
  <2> QED
    BY <2>1, FS_EmptySet, ConstantsAssumption DEF FlightInv
<1>4. CacheIsRight
  BY CallFacts, <1>1 DEF Init, CacheIsRight
<1>5. SendsInv
  <2> SUFFICES ASSUME NEW c \in Calls PROVE SendsOf(c)
    BY DEF SendsInv
  <2>1. noThinking[ProcOf[c]] = {} /\ Cardinality({}) = 0 /\ IsFiniteSet({})
    BY <1>1, CallFacts, FS_EmptySet DEF Init
  <2> QED
    BY <1>2, <2>1 DEF SendsOf, One
<1>6. QuotaInv
  <2> SUFFICES ASSUME NEW m \in Models PROVE QuotaOf(m)
    BY DEF QuotaInv
  <2>1. Refusing(m) = {} /\ Cardinality({}) = 0 /\ IsFiniteSet({})
    BY <1>2, FS_EmptySet DEF Refusing, At
  <2>2. used[m] = 0 /\ granted[m] = 0 /\ DailyCap[m] \in Nat
    BY ConstantsAssumption DEF Init
  <2> QED
    BY <2>1, <2>2 DEF QuotaOf
<1> QED
  BY <1>1, <1>3, <1>4, <1>5, <1>6 DEF Inv

LEMMA StepInv == Inv /\ [Next]_vars => Inv'
BY StepTyped, StepFlight, StepCache, StepSendsInv, StepQuota DEF Inv

LEMMA Invariance == Spec => []Inv
BY InitInv, StepInv, PTL DEF Spec

LEMMA InvTypes == Inv => TypeOK
<1> SUFFICES ASSUME Inv PROVE TypeOK
  OBVIOUS
<1>1. Typed /\ LineOK
  BY DEF Inv, Typed
<1>2. ASSUME NEW c \in Calls
      PROVE  /\ call[c].at \in Places /\ call[c].model \in Models
             /\ call[c].retry \in 0..Retries /\ call[c].over \in 0..(Retries + 1)
             /\ call[c].attempt \in 1..2 /\ call[c].answer \in Answers \cup {None}
  <2>1. call[c] \in CallRecords /\ Proper(c, call[c]) /\ Retries \in Nat
    BY <1>1, CallFacts
  <2> HIDE DEF Answers, None, Places
  <2>2. /\ call[c].at \in Places /\ call[c].model \in Models /\ call[c].retry \in Nat /\ call[c].over \in Nat
        /\ call[c].attempt \in 1..2 /\ call[c].answer \in Answers \cup {None}
    BY <2>1 DEF CallRecords
  <2> QED
    BY <2>1, <2>2 DEF Proper
<1>3. ASSUME NEW p \in Procs
      PROVE  ToSet(line[p]) = {c \in Calls : ProcOf[c] = p /\ At(c, "lock")}
  <2>1. line[p] \in Seq(Calls) /\ LineOf(p)
    BY <1>1 DEF LineOK
  <2>2. \A i \in 1..Len(line[p]) : line[p][i] \in Calls
    BY <2>1
  <2>3. \A c : c \in ToSet(line[p]) <=> \E i \in 1..Len(line[p]) : line[p][i] = c
    BY DEF ToSet
  <2> QED
    BY <1>1, <2>1, <2>2, <2>3 DEF LineOK, LineOf
<1>4. \A m \in Models : slots[m] \in 0..Rate[m]
  BY <1>1, ConstantsAssumption DEF Typed, SharedOK
<1>5. \A p \in Procs : InFlight(p) <= Concurrency
  BY DEF Inv, FlightInv, InFlight, Flying
<1> QED
  BY <1>2, <1>3, <1>4, <1>5 DEF TypeOK

\* The types of a call, the line that is exactly the calls at the lock, the slots of the
\* window and the semaphore (ratelimit.py, llm.py).
THEOREM Typing == Spec => []TypeOK
BY Invariance, InvTypes, PTL

\* Whatever is cancelled, refused, rejected or retried, in any process: the cache holds only
\* answers that may be given again, and a call sends a bounded number of requests (llm.py).
THEOREM CallsAreRight == Spec => []CallsInv
<1>1. Inv => CallsInv
  BY InvTypes, SendsAreBounded DEF Inv, CallsInv
<1> QED
  BY <1>1, Invariance, PTL

\* A step of the counter, which adds first and takes back later, is one grant, one refusal or
\* nothing, of the counter that does both at once (ratelimit.py:84).
LEMMA QuotaStep ==
  ASSUME Inv, [Next]_vars
  PROVE  [DailyQuota!Next]_<<granted, refused>>
<1>1. ASSUME NEW c \in Calls, Count(c) PROVE DailyQuota!Next
  <2> DEFINE m == call[c].model
  <2>1. m \in Models /\ QuotaOf(m) /\ IsFiniteSet(Refusing(m)) /\ Cardinality(Refusing(m)) \in Nat
    BY CallFacts, FS_CardinalityType DEF Inv, QuotaInv, QuotaOf
  <2>2. used[m] \in Int /\ granted[m] \in Nat /\ DailyCap[m] \in Nat
    BY <2>1, QuotaFacts DEF Inv
  <2>3. CASE Refuses(m, used[m] + 1)
    <3>1. granted[m] = DailyCap[m]
      BY <2>1, <2>2, <2>3 DEF QuotaOf, Refuses
    <3>2. refused' = [refused EXCEPT ![m] = TRUE] /\ UNCHANGED granted
      BY <1>1, <2>3 DEF Count
    <3> QED
      BY <2>1, <3>1, <3>2 DEF DailyQuota!Next, DailyQuota!Refuse
  <2>4. CASE ~Refuses(m, used[m] + 1)
    <3>1. granted[m] < DailyCap[m]
      BY <2>1, <2>2, <2>4 DEF QuotaOf, Refuses
    <3>2. granted' = [granted EXCEPT ![m] = @ + 1] /\ UNCHANGED refused
      BY <1>1, <2>4 DEF Count
    <3> QED
      BY <2>1, <3>1, <3>2 DEF DailyQuota!Next, DailyQuota!Grant
  <2> QED
    BY <2>3, <2>4
<1>2. ASSUME NEW c \in Calls, Step(c) \/ Cut(c), ~Count(c) PROVE UNCHANGED <<granted, refused>>
  BY <1>2 DEF Step, Start, Uncount, TakeSlot, Send, Good, Rejected, Error, Goes, Retry, Finish, Cut, shared, history
<1> QED
  BY <1>1, <1>2 DEF Next, Expire, vars, history

\* The counter of the day implements the quota, with calls of any processes interleaved
\* between what it adds and what it takes back, and cancelled there.
THEOREM ImplementsQuota == Spec => QuotaSpec
<1>1. Init => DailyQuota!Init
  BY DEF Init, DailyQuota!Init
<1> QED
  BY <1>1, Invariance, QuotaStep, PTL DEF Spec, QuotaSpec, DailyQuota!Spec
=============================================================================
