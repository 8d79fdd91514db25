------------------------------- MODULE RunView -------------------------------
(***************************************************************************)
(* How a reader follows a run: the events the worker publishes (agent/     *)
(* run.py), the stream of server-sent events and the reading of a run      *)
(* (backend/app/routers/threads.py), and the page that shows it (useRun in *)
(* frontend/src/components/run-view.tsx).                                  *)
(*                                                                         *)
(* A Redis channel keeps nothing: what is published while nobody listens,  *)
(* or before the worker dies, is not delivered.  An event carries no data  *)
(* that the page shows: it makes the page load the run again.  Progress    *)
(* texts, which load nothing, are left out.                                *)
(*                                                                         *)
(* ViewInit, ViewNext and ViewSpec have names of their own, so that        *)
(* ThreadProofs can extend this module beside Conversation.                *)
(***************************************************************************)
EXTENDS Naturals, Sequences, FiniteSets

CONSTANTS
    MaxRows,    \* bound: rows of run_steps that a run records
    MaxLoads,   \* bound: requests of the page under way at the same time
    MaxMishaps  \* bound: mishaps, of each kind at most one

MishapKinds == {"unpublished", "resumed", "dropped", "loadFailed"}

ASSUME ViewAssumption ==
    /\ MaxRows \in Nat \ {0}
    /\ MaxLoads \in Nat \ {0}
    /\ MaxMishaps \in Nat

VARIABLES
    run,        \* the run in the database: [status, rows, answer]
    worker,     \* where its execution is
    channel,    \* messages of the run's channel the stream has not taken yet
    stream,     \* where the request for its events is
    wire,       \* events on their way to the page
    page,       \* where the effect of useRun is
    loads,      \* requests for the run: [asks, stage, body]
    view,       \* the run the page shows
    settled,    \* the page has seen the end of the run
    mishaps     \* the mishaps that have happened

dbVars   == <<run, worker>>
sseVars  == <<channel, stream, wire>>
pageVars == <<page, loads, view, settled>>
viewVars == <<dbVars, sseVars, pageVars, mishaps>>

Active   == {"queued", "running"}
Final    == {"done", "failed", "cancelled"}

Bodies == [status: Active \cup Final, rows: 0..MaxRows, answer: BOOLEAN]

Slots  == 1..MaxLoads
Askers == {"nobody", "first", "message", "poll"}
Stages == {"run", "steps", "sentences", "reply"}

Workers == {"queued", "working", "announcing", "finishing", "failing", "closing", "over"}

ViewTypeOK ==
    /\ run \in Bodies /\ view \in Bodies
    /\ worker \in Workers
    /\ channel \in Seq({"step", "end"})
    /\ stream \in {"none", "opening", "subscribed", "open", "closed"}
    /\ wire \in Nat
    /\ page \in {"first", "streaming", "polling", "timer", "idle", "error", "left"}
    /\ loads \in [Slots -> [asks: Askers, stage: Stages, body: Bodies]]
    /\ settled \in BOOLEAN
    /\ mishaps \subseteq MishapKinds
    /\ stream \notin {"opening", "subscribed", "open"} => channel = <<>>

Fresh == [status |-> "queued", rows |-> 0, answer |-> FALSE]
Free  == [asks |-> "nobody", stage |-> "run", body |-> Fresh]
AskedBy(by) == [Free EXCEPT !.asks = by]

ViewInit ==
    /\ run = Fresh /\ worker = "queued"
    /\ channel = <<>> /\ stream = "none" /\ wire = 0
    /\ page = "first"
    /\ loads = [l \in Slots |-> IF l = 1 THEN AskedBy("first") ELSE Free]
    /\ view = Fresh
    /\ settled = FALSE
    /\ mishaps = {}

Mishap(kind) ==
    /\ kind \notin mishaps
    /\ Cardinality(mishaps) < MaxMishaps
    /\ mishaps' = mishaps \cup {kind}

-----------------------------------------------------------------------------
\* The worker.

WorkerGoes(from, to) == worker = from /\ worker' = to
DbFrame == UNCHANGED <<stream, wire, pageVars>>

Start ==
    /\ WorkerGoes("queued", "working")
    /\ run' = [run EXCEPT !.status = "running"]
    /\ UNCHANGED <<channel, mishaps>> /\ DbFrame

\* RunState.step: the row, then its announcement.
Record ==
    /\ run.rows < MaxRows
    /\ WorkerGoes("working", "announcing")
    /\ run' = [run EXCEPT !.rows = @ + 1]
    /\ UNCHANGED <<channel, mishaps>> /\ DbFrame

\* Whoever has subscribed gets the message, unless the worker dies before it publishes.
Publish(msg) ==
    /\ channel' = IF stream \in {"subscribed", "open"} THEN Append(channel, msg) ELSE channel
    /\ UNCHANGED mishaps

Unpublished == Mishap("unpublished") /\ UNCHANGED channel

Announce ==
    /\ WorkerGoes("announcing", "working")
    /\ Publish("step") \/ Unpublished
    /\ UNCHANGED run /\ DbFrame

\* _store, when all steps are done.
StoreAnswer ==
    /\ run.rows = MaxRows
    /\ WorkerGoes("working", "finishing")
    /\ run' = [run EXCEPT !.answer = TRUE]
    /\ UNCHANGED <<channel, mishaps>> /\ DbFrame

RunFails ==
    /\ WorkerGoes("working", "failing")
    /\ UNCHANGED <<run, channel, mishaps>> /\ DbFrame

\* _finish: the status, then the message.
FinishRun ==
    /\ \/ WorkerGoes("finishing", "closing") /\ run' = [run EXCEPT !.status = "done"]
       \/ WorkerGoes("failing", "closing") /\ run' = [run EXCEPT !.status = "failed"]
    /\ UNCHANGED <<channel, mishaps>> /\ DbFrame

\* cancel_run of a queued run.
CancelQueued ==
    /\ WorkerGoes("queued", "closing")
    /\ run' = [run EXCEPT !.status = "cancelled"]
    /\ UNCHANGED <<channel, mishaps>> /\ DbFrame

AnnounceEnd ==
    /\ WorkerGoes("closing", "over")
    /\ Publish("end") \/ Unpublished
    /\ UNCHANGED run /\ DbFrame

\* A restart of the worker; load_progress deletes the row of the verification, the last.
Resumed ==
    /\ worker \in {"working", "announcing", "finishing"}
    /\ Mishap("resumed")
    /\ worker' = "working"
    /\ run' = [run EXCEPT !.rows = IF @ = MaxRows THEN @ - 1 ELSE @]
    /\ UNCHANGED channel /\ DbFrame

Worker ==
    \/ Start \/ Record \/ Announce \/ StoreAnswer \/ RunFails \/ FinishRun \/ CancelQueued \/ AnnounceEnd
    \/ Resumed

-----------------------------------------------------------------------------
\* run_events.

\* Nothing reaches a source that the page has closed.
Sends == wire' = IF page = "streaming" THEN wire + 1 ELSE 0
SseFrame == UNCHANGED <<dbVars, pageVars, mishaps>>

Subscribe ==
    /\ stream = "opening" /\ stream' = "subscribed"
    /\ UNCHANGED <<channel, wire>> /\ SseFrame

Closes == stream' = "closed" /\ channel' = <<>>

\* The status once subscribed; a run that is over needs no messages.
FirstStatus ==
    /\ stream = "subscribed"
    /\ Sends
    /\ IF run.status \in Final THEN Closes ELSE stream' = "open" /\ UNCHANGED channel
    /\ SseFrame

Forward ==
    /\ stream = "open" /\ channel # <<>>
    /\ Sends
    /\ IF Head(channel) = "end" THEN Closes ELSE channel' = Tail(channel) /\ UNCHANGED stream
    /\ SseFrame

\* After SSE_HEARTBEAT_S without a message; by then the page has taken what was sent before.
Heartbeat ==
    /\ stream = "open" /\ channel = <<>> /\ wire = 0
    /\ Sends
    /\ IF run.status \in Final THEN Closes ELSE UNCHANGED <<stream, channel>>
    /\ SseFrame

\* Mutant of Disconnected: looked at only when there is something to send.
DisconnectUnseen ==
    /\ stream = "open" /\ page # "streaming" /\ channel # <<>>
    /\ Closes
    /\ UNCHANGED wire /\ SseFrame

\* is_disconnected, looked at before every message.
Disconnected ==
    /\ stream = "open" /\ page # "streaming"
    /\ Closes
    /\ UNCHANGED wire /\ SseFrame

\* The API restarts, or the connection breaks.
Dropped ==
    /\ stream \in {"opening", "subscribed", "open"}
    /\ Mishap("dropped")
    /\ Closes
    /\ wire' = 0
    /\ UNCHANGED <<dbVars, pageVars>>

Stream == Subscribe \/ FirstStatus \/ Forward \/ Heartbeat \/ Disconnected

-----------------------------------------------------------------------------
\* get_run: three reads, each of its own moment.

\* Mutant of ReadRun: the status is read last.
ReadRunStatusLast(l) ==
    LET got == loads[l].body
    IN  CASE loads[l].stage = "run"       -> [loads[l] EXCEPT !.stage = "steps", !.body.answer = run.answer]
          [] loads[l].stage = "steps"     -> [loads[l] EXCEPT !.stage = "sentences", !.body.rows = run.rows]
          [] loads[l].stage = "sentences" -> [loads[l] EXCEPT !.stage = "reply", !.body.status = run.status]

ReadRun(l) ==
    LET got == loads[l].body
    IN  CASE loads[l].stage = "run"       -> [loads[l] EXCEPT !.stage = "steps", !.body.status = run.status]
          [] loads[l].stage = "steps"     -> [loads[l] EXCEPT !.stage = "sentences", !.body.rows = run.rows]
          [] loads[l].stage = "sentences" -> [loads[l] EXCEPT !.stage = "reply", !.body.answer = run.answer]

GetRun(l) ==
    /\ loads[l].asks # "nobody" /\ loads[l].stage # "reply"
    /\ loads' = [loads EXCEPT ![l] = ReadRun(l)]
    /\ UNCHANGED <<dbVars, sseVars, page, view, settled, mishaps>>

-----------------------------------------------------------------------------
\* useRun.

Unused == {l \in Slots : loads[l].asks = "nobody"}
Load(by) == \E l \in Unused :
                /\ \A k \in Unused : l <= k
                /\ loads' = [loads EXCEPT ![l] = AskedBy(by)]
Ends(l) == loads' = [loads EXCEPT ![l] = Free]

\* A first load that finds the run active opens the stream; the timer of a poll is set while
\* it is; the load that sees the end first closes the source.
Arrive(l) ==
    LET body == loads[l].body
        over == body.status \in Final
    IN  /\ loads[l].asks # "nobody" /\ loads[l].stage = "reply"
        /\ Ends(l)
        /\ view' = body
        /\ settled' = (settled \/ over)
        /\ page' = CASE loads[l].asks = "first" /\ ~over -> "streaming"
                     [] loads[l].asks = "first" /\ over  -> "idle"
                     [] loads[l].asks = "poll" /\ ~over  -> "timer"
                     [] loads[l].asks = "poll" /\ over   -> "idle"
                     [] OTHER -> IF over /\ page = "streaming" THEN "idle" ELSE page
        /\ stream' = IF loads[l].asks = "first" /\ ~over THEN "opening" ELSE stream
        /\ wire' = IF page' = "streaming" THEN wire ELSE 0
        /\ UNCHANGED <<dbVars, channel, mishaps>>

\* The page keeps what it shows; a first load is not tried again, a poll is.
LoadFails(l) ==
    /\ loads[l].asks # "nobody"
    /\ Mishap("loadFailed")
    /\ Ends(l)
    /\ page' = CASE loads[l].asks = "first" -> "error"
                 [] loads[l].asks = "poll"  -> "timer"
                 [] OTHER                   -> page
    /\ UNCHANGED <<dbVars, sseVars, view, settled>>

OnMessage ==
    /\ page = "streaming" /\ wire > 0
    /\ Load("message")
    /\ wire' = wire - 1
    /\ UNCHANGED <<dbVars, channel, stream, page, view, settled, mishaps>>

\* Mutant of OnError: the page relies on the stream alone.
OnErrorStops ==
    /\ page = "streaming" /\ wire = 0 /\ stream = "closed"
    /\ page' = "idle"
    /\ UNCHANGED <<dbVars, sseVars, loads, view, settled, mishaps>>

\* The stream has ended, by itself or not, and the end has not been seen.
OnError ==
    /\ page = "streaming" /\ wire = 0 /\ stream = "closed"
    /\ Load("poll")
    /\ page' = "polling"
    /\ UNCHANGED <<dbVars, sseVars, view, settled, mishaps>>

Poll ==
    /\ page = "timer"
    /\ Load("poll")
    /\ page' = "polling"
    /\ UNCHANGED <<dbVars, sseVars, view, settled, mishaps>>

\* stop: the source is closed, and answers still to come are ignored.
Leave ==
    /\ page # "left"
    /\ page' = "left"
    /\ wire' = 0
    /\ loads' = [l \in Slots |-> Free]
    /\ UNCHANGED <<dbVars, channel, stream, view, settled, mishaps>>

Page == OnMessage \/ OnError \/ Poll

ViewNext ==
    \/ Worker \/ Stream \/ Dropped \/ Page \/ Leave
    \/ \E l \in Slots : GetRun(l) \/ Arrive(l) \/ LoadFails(l)

ViewSpec == ViewInit /\ [][ViewNext]_viewVars

(***************************************************************************)
(* Fairness: the API's loop goes on as long as it has something to send,   *)
(* its queries are answered, and the browser runs the page's callbacks.    *)
(* Nothing is assumed of the worker: the run may take for ever.            *)
(***************************************************************************)
ViewFairSpec ==
    /\ ViewSpec
    /\ WF_viewVars(Subscribe) /\ WF_viewVars(FirstStatus) /\ WF_viewVars(Forward)
    /\ WF_viewVars(Heartbeat) /\ WF_viewVars(Disconnected)
    /\ WF_viewVars(OnMessage) /\ WF_viewVars(OnError) /\ WF_viewVars(Poll)
    /\ \A l \in Slots : WF_viewVars(GetRun(l)) /\ WF_viewVars(Arrive(l))
-----------------------------------------------------------------------------
(***************************************************************************)
(* What get_run shows of a run that is over is the whole of it: the status *)
(* is read before the steps and the sentences, which _store and step wrote *)
(* before _finish wrote the status.  The page that has seen the end does   *)
(* not load again, so what it missed would stay missing.                   *)
(***************************************************************************)
FinalIsWhole == view.status \in Final => view = run

ViewInv == ViewTypeOK /\ FinalIsWhole

(***************************************************************************)
(* Whoever keeps the page open sees the end of the run, though the message *)
(* that announces it is lost, the stream breaks or a request fails (unless *)
(* it is the first): by the status that the stream sends once it has       *)
(* subscribed and with its heartbeat, and by polling when it has ended.    *)
(***************************************************************************)
EndIsSeen == run.status \in Final ~> settled \/ page \in {"error", "left"}

(***************************************************************************)
(* A stream ends when the run does or when nobody listens any more, so     *)
(* that no subscription is left behind (the loop of run_events).           *)
(***************************************************************************)
StreamEnds == run.status \in Final \/ page # "streaming" ~> stream \in {"none", "closed"}

(***************************************************************************)
(* "Loads a run and follows it live" (run-view.tsx:30): a page that has    *)
(* seen the end shows the end.                                             *)
(***************************************************************************)
EndIsShown == settled => view.status \in Final
=============================================================================
