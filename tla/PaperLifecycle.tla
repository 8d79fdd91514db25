--------------------------- MODULE PaperLifecycle ---------------------------
(***************************************************************************)
(* What the full-text pipeline promises about a paper, whoever moves it:   *)
(* papers.state (migrations/versions/0001_initial.py) only moves forward,  *)
(* ready and abstract_only are final, its document is not replaced once it *)
(* is parsed, the chunks of that document and the references appear with   *)
(* the state that announces them, and the references are resolved after    *)
(* that.  FullText is shown to implement this.                             *)
(***************************************************************************)
CONSTANTS Papers
VARIABLES state, document, chunks, refs

vars == <<state, document, chunks, refs>>

Init ==
    /\ state = [p \in Papers |-> "signals_done"]
    /\ document = [p \in Papers |-> FALSE]
    /\ chunks = [p \in Papers |-> FALSE]
    /\ refs = [p \in Papers |-> "none"]

Forward(from) ==
    CASE from \in {"signals_done", "failed"} -> {"queued_fulltext"}
      [] from = "queued_fulltext" -> {"failed", "abstract_only", "pdf_fetched"}
      [] from = "pdf_fetched" -> {"failed", "abstract_only", "parsed"}
      [] from = "embedded" -> {"ready"}
      [] OTHER -> {}

Move(p) ==
    /\ \E to \in Forward(state[p]) : state' = [state EXCEPT ![p] = to]
    /\ UNCHANGED <<document, chunks, refs>>

Parse(p) ==
    /\ state[p] = "pdf_fetched"
    /\ \E text \in BOOLEAN : document' = [document EXCEPT ![p] = text]
    /\ UNCHANGED <<state, chunks, refs>>

Embed(p) ==
    /\ state[p] = "parsed"
    /\ state' = [state EXCEPT ![p] = "embedded"]
    /\ chunks' = [chunks EXCEPT ![p] = document[p]]
    /\ refs' = [refs EXCEPT ![p] = "stored"]
    /\ UNCHANGED document

Resolve(p) ==
    /\ state[p] \in {"embedded", "ready"}
    /\ refs' = [refs EXCEPT ![p] = "resolved"]
    /\ UNCHANGED <<state, document, chunks>>

Next == \E p \in Papers : Move(p) \/ Parse(p) \/ Embed(p) \/ Resolve(p)

Spec == Init /\ [][Next]_vars
=============================================================================
