-------------------------------- MODULE LLM ---------------------------------
(***************************************************************************)
(* Calls of the language models (core/llm.py) through the rate limiter     *)
(* that all processes share in Redis (core/ratelimit.py): the cache of     *)
(* answers, the daily counter, the slots of the minute, the semaphore of a *)
(* process, retries, the fall back to the light model, and the answer that *)
(* must parse.  Prompts are cache keys; an answer is who gave it and       *)
(* whether it parses.  Time is what may happen: an old slot leaves the     *)
(* window.  The day is one: each has a counter of its own.                 *)
(***************************************************************************)
EXTENDS Integers, FiniteSets, SequencesExt

CONSTANTS
    Procs, Calls,     \* processes, and the calls of generate they make
    ProcOf,           \* the process of a call
    AskedOf,          \* the model it asks for
    Strict,           \* calls with a schema
    KeyOf,            \* _cache_key: of the prompt, the model and the schema
    Main, Light,      \* models.llm_main, models.llm_light
    RejectsThinking,  \* models that answer a thinking_config with 400
    Retries,          \* llm_client.retries
    After503,         \* llm_client.fallback_after_503_retries
    Concurrency,      \* llm_client.max_concurrency
    Rate,             \* llm_client.rpm_limits
    DailyCap,         \* llm_client.daily_caps (a large number: none)
    MaxCuts           \* bound: calls cancelled or lost with their process

Models == {Main, Light}
Keys == {KeyOf[c] : c \in Calls}

ASSUME ConstantsAssumption ==
    /\ ProcOf \in [Calls -> Procs] /\ AskedOf \in [Calls -> Models] /\ Strict \subseteq Calls
    /\ \A c, d \in Calls : KeyOf[c] = KeyOf[d] => AskedOf[c] = AskedOf[d] /\ (c \in Strict <=> d \in Strict)
    /\ RejectsThinking \subseteq Models
    /\ {Retries, After503, MaxCuts} \subseteq Nat
    /\ {Concurrency} \cup {Rate[m] : m \in Models} \subseteq Nat \ {0}
    /\ DailyCap \in [Models -> Nat]

VARIABLES
    call,        \* the local state of each call
    cache,       \* Redis: llmcache
    used,        \* Redis: llm:rpd of one Pacific-time day, per model
    slots,       \* Redis: llm:rpm, how many slots of a model are in the window
    line,        \* per process: the calls that wait for the limiter's lock, in order
    noThinking,  \* per process: _no_thinking
    cuts,
    granted, refused   \* history: what the counter let through, whether it refused

shared == <<cache, used, slots>>
history == <<granted, refused>>
vars == <<call, shared, line, noThinking, cuts, history>>

None == [by |-> "nobody", parses |-> FALSE]
Answers == [by : Models, parses : BOOLEAN]
Ended == {"done", "failed", "rejected", "quota", "invalid", "cut"}
Waiting == {"refused", "lock", "slot", "sent", "backoff", "answered"}
Places == {"idle", "build"} \cup Waiting \cup Ended

Fresh(c) == [at |-> "idle", model |-> AskedOf[c], retry |-> 0, over |-> 0, thinks |-> FALSE,
             attempt |-> 1, answer |-> None, sends |-> 0]
Ends(c, how) == [Fresh(c) EXCEPT !.at = how]

Init ==
    /\ call = [c \in Calls |-> Fresh(c)]
    /\ cache = [k \in Keys |-> None]
    /\ used = [m \in Models |-> 0]
    /\ slots = [m \in Models |-> 0]
    /\ line = [p \in Procs |-> <<>>]
    /\ noThinking = [p \in Procs |-> {}]
    /\ cuts = 0
    /\ granted = [m \in Models |-> 0] /\ refused = [m \in Models |-> FALSE]

At(c, place) == call[c].at = place
InFlight(p) == Cardinality({c \in Calls : ProcOf[c] = p /\ At(c, "sent")})

-----------------------------------------------------------------------------
\* generate: a cached answer, or a first attempt.

Start(c) ==
    /\ At(c, "idle")
    /\ call' = [call EXCEPT ![c] = IF cache[KeyOf[c]] # None
                    THEN Ends(c, "done") ELSE [@ EXCEPT !.at = "build"]]
    /\ UNCHANGED <<shared, line, noThinking, cuts, history>>

\* Mutant of Refuses: the cap itself is refused.
RefusesAtCap(m, n) == n >= DailyCap[m]

Refuses(m, n) == n > DailyCap[m]

\* The config is built, then INCR of the day's counter: over the cap the request is not sent.
Count(c) ==
    LET m == call[c].model   n == used[m] + 1   no == Refuses(m, n)
    IN
    /\ At(c, "build")
    /\ used' = [used EXCEPT ![m] = n]
    /\ call' = [call EXCEPT ![c].thinks = m \notin noThinking[ProcOf[c]],
                            ![c].at = IF no THEN "refused" ELSE "lock"]
    /\ IF no THEN refused' = [refused EXCEPT ![m] = TRUE]
                  /\ UNCHANGED <<granted, line>>
       ELSE granted' = [granted EXCEPT ![m] = @ + 1]
            /\ line' = [line EXCEPT ![ProcOf[c]] = Append(@, c)]
            /\ UNCHANGED refused
    /\ UNCHANGED <<cache, slots, noThinking, cuts>>

\* DECR, and DailyCapReached: the light model instead of the main one, or the end.
Uncount(c) ==
    /\ At(c, "refused")
    /\ used' = [used EXCEPT ![call[c].model] = @ - 1]
    /\ call' = [call EXCEPT ![c] = IF @.model = Main /\ Main # Light
                    THEN [@ EXCEPT !.model = Light, !.at = "build"]
                    ELSE Ends(c, "quota")]
    /\ UNCHANGED <<cache, slots, line, noThinking, cuts, history>>

\* The holder of the lock takes a slot of the window when one is free.
TakeSlot(c) ==
    LET p == ProcOf[c]  m == call[c].model
    IN
    /\ At(c, "lock") /\ Head(line[p]) = c
    /\ slots[m] < Rate[m]
    /\ slots' = [slots EXCEPT ![m] = @ + 1]
    /\ line' = [line EXCEPT ![p] = Tail(@)]
    /\ call' = [call EXCEPT ![c].at = "slot"]
    /\ UNCHANGED <<cache, used, noThinking, cuts, history>>

\* The semaphore, and the request.
Send(c) ==
    /\ At(c, "slot") /\ InFlight(ProcOf[c]) < Concurrency
    /\ call' = [call EXCEPT ![c].at = "sent", ![c].sends = @ + 1]
    /\ UNCHANGED <<shared, line, noThinking, cuts, history>>

-----------------------------------------------------------------------------
\* What the model answers (a text that nobody parses counts as one that parses).

Good(c) ==
    /\ At(c, "sent")
    /\ call[c].model \in RejectsThinking => ~call[c].thinks
    /\ \E ok \in (IF c \in Strict THEN BOOLEAN ELSE {TRUE}) :
          call' = [call EXCEPT ![c].at = "answered", ![c].thinks = FALSE,
                                  ![c].answer = [by |-> call[c].model, parses |-> ok]]
    /\ UNCHANGED <<shared, line, noThinking, cuts, history>>

Goes(c, record) ==
    /\ call' = [call EXCEPT ![c] = record]
    /\ UNCHANGED <<shared, line, cuts, history>>

\* 400 about thinking: the process does without from now on, for this model.
Rejected(c) ==
    LET p == ProcOf[c]  m == call[c].model
    IN
    /\ At(c, "sent") /\ call[c].thinks /\ m \in RejectsThinking
    /\ IF m \notin noThinking[p]
       THEN /\ noThinking' = [noThinking EXCEPT ![p] = @ \cup {m}]
            /\ Goes(c, [call[c] EXCEPT !.at = "build", !.thinks = FALSE])
       ELSE /\ Goes(c, Ends(c, "rejected"))
            /\ UNCHANGED noThinking

FallsBack(c, over, exhausted) ==
    (over > After503 \/ exhausted) /\ call[c].model = Main /\ Main # Light

Fallback(c) == [call[c] EXCEPT !.model = Light, !.over = 0, !.thinks = FALSE, !.at = "build"]

\* 503, 429 for the day, another retryable error (429, 5xx, transport), or one that is not.
Error(c, e) ==
    LET over == call[c].over + (IF e = "503" THEN 1 ELSE 0)
    IN
    /\ At(c, "sent")
    /\ CASE FallsBack(c, over, e = "daily") -> Goes(c, Fallback(c))
         [] ~FallsBack(c, over, e = "daily") /\ e = "daily" -> Goes(c, Ends(c, "quota"))
         [] ~FallsBack(c, over, e = "daily") /\ e \in {"503", "transient"} /\ call[c].retry < Retries ->
              Goes(c, [call[c] EXCEPT !.at = "backoff", !.thinks = FALSE, !.over = over, !.retry = @ + 1])
         [] OTHER -> Goes(c, Ends(c, "failed"))
    /\ UNCHANGED noThinking

Errors == {"503", "daily", "transient", "fatal"}

Retry(c) ==
    /\ At(c, "backoff")
    /\ Goes(c, [call[c] EXCEPT !.at = "build"])
    /\ UNCHANGED noThinking

\* Mutant of Caches: whoever answered.
CachesAnyModel(c) == c \notin Strict \/ call[c].answer.parses

\* "never cache a fallback's answer under the requested model", nor one that does not parse.
Caches(c) ==
    (c \notin Strict \/ call[c].answer.parses) /\ call[c].answer.by = AskedOf[c]

\* Recorded; then cached and returned, or asked once more from the beginning.
Finish(c) ==
    LET bad == c \in Strict /\ ~call[c].answer.parses
    IN
    /\ At(c, "answered")
    /\ cache' = IF Caches(c) THEN [cache EXCEPT ![KeyOf[c]] = call[c].answer] ELSE cache
    /\ call' = [call EXCEPT ![c] =
           IF ~bad THEN Ends(c, "done")
           ELSE IF @.attempt = 2 THEN Ends(c, "invalid")
           ELSE [Fresh(c) EXCEPT !.at = "build", !.attempt = 2, !.sends = call[c].sends]]
    /\ UNCHANGED <<used, slots, line, noThinking, cuts, history>>

-----------------------------------------------------------------------------
\* Time, and what ends calls from outside.

Expire(m) ==
    /\ slots[m] > 0
    /\ slots' = [slots EXCEPT ![m] = @ - 1]
    /\ UNCHANGED <<call, cache, used, line, noThinking, cuts, history>>

\* Mutant of Cut: a cancelled call keeps its place in the line.
CutInLine(c) ==
    /\ call[c].at \notin Ended \cup {"idle"} /\ cuts < MaxCuts
    /\ cuts' = cuts + 1
    /\ call' = [call EXCEPT ![c] = Ends(c, "cut")]
    /\ UNCHANGED <<shared, line, noThinking, history>>

\* A cancelled call (a job's timeout, a cancelled run) leaves what it counted.
Cut(c) ==
    /\ call[c].at \notin Ended \cup {"idle"} /\ cuts < MaxCuts
    /\ cuts' = cuts + 1
    /\ call' = [call EXCEPT ![c] = Ends(c, "cut")]
    /\ line' = [line EXCEPT ![ProcOf[c]] = RemoveFirst(@, c)]
    /\ UNCHANGED <<shared, noThinking, history>>

Step(c) ==
    \/ Start(c) \/ Count(c) \/ Uncount(c) \/ TakeSlot(c) \/ Send(c)
    \/ Good(c) \/ Rejected(c) \/ (\E e \in Errors : Error(c, e)) \/ Retry(c) \/ Finish(c)

Next ==
    \/ \E c \in Calls : Step(c) \/ Cut(c)
    \/ \E m \in Models : Expire(m)

Spec == Init /\ [][Next]_vars
Fairness == (\A c \in Calls : WF_vars(Step(c))) /\ \A m \in Models : WF_vars(Expire(m))
FairSpec == Spec /\ Fairness

-----------------------------------------------------------------------------
TypeOK ==
    /\ \A c \in Calls : /\ call[c].at \in Places /\ call[c].model \in Models
                        /\ call[c].retry \in 0..Retries /\ call[c].over \in 0..(Retries + 1)
                        /\ call[c].attempt \in 1..2 /\ call[c].answer \in Answers \cup {None}
    /\ \A p \in Procs : ToSet(line[p]) = {c \in Calls : ProcOf[c] = p /\ At(c, "lock")}
    /\ \A m \in Models : slots[m] \in 0..Rate[m]
    /\ \A p \in Procs : InFlight(p) <= Concurrency

\* Whatever falls back and whoever else writes the key, an answer in the cache is one the
\* model it is kept for gave, and it parses if its readers will parse it: a cached answer
\* that does not raises ValidationError at every later call (llm.py:237).
CacheIsRight ==
    \A c \in Calls : cache[KeyOf[c]] # None =>
        cache[KeyOf[c]].by = AskedOf[c] /\ (c \in Strict => cache[KeyOf[c]].parses)

\* The requests of a call are bounded over both models: one and the retries, which are
\* counted across them, one more for the fall back, and each model rejects thinking once.
SendsBounded == \A c \in Calls : 
    call[c].sends <= call[c].attempt * (Retries + 2) + Cardinality(RejectsThinking)

CallsInv == TypeOK /\ CacheIsRight /\ SendsBounded

\* The daily counter, though it counts first and takes back later, is one that grants and
\* refuses at once: never over the cap, and no refusal below it (ratelimit.py:84).
DailyQuota == INSTANCE Quota WITH Accounts <- Models, Cap <- DailyCap, granted <- granted, refused <- refused
QuotaSpec == DailyQuota!Spec

\* A call ends: with an answer, an error, or its cancellation.  No call waits for the lock,
\* a slot or the semaphore for ever, and no sequence of errors keeps one going.
EveryCallEnds == \A c \in Calls : call[c].at # "idle" ~> call[c].at \in Ended

\* "thinking rejection drops config for model" (tests/test_llm.py:136): no call fails for it.
RejectionDropsConfig == \A c \in Calls : ~At(c, "rejected")
=============================================================================
