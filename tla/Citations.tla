----------------------------- MODULE Citations -----------------------------
(***************************************************************************)
(* The citation graph of ingest/references.py and who writes it:           *)
(*   - the worker stores the references of a paper with its chunks, and    *)
(*     resolves them in a transaction of its own, under an advisory lock;  *)
(*   - "resolve all" of ingest/fulltext_cli.py does the same for all;      *)
(*   - the fetcher adds papers that were asked for by id (fetch_meta) and  *)
(*     looks for references which name their titles;                       *)
(*   - the metadata pass adds papers and does not look.                    *)
(* A stub stands for a title that enough papers cite and arXiv lacks.      *)
(***************************************************************************)
EXTENDS Integers, Sequences, FiniteSets

CONSTANTS
    Citing,      \* arXiv ids of the papers with full text
    Cited,       \* arXiv ids of other papers
    Titles,      \* normalized titles of at least MIN_TITLE_NORM_CHARS
    TitleOf,     \* the normalized title of each paper
    Similar,     \* pairs of titles the trigram search takes for one (the years agree)
    Catalog,     \* ids in arxiv_catalog
    Lists,       \* the reference lists a paper may turn out to have
    None,        \* no id, no title, not resolved, nobody
    StubMin,     \* corpus.stub_min_corpus_citations
    MaxRounds,   \* MAX_META_ROUNDS
    MaxFaults    \* how many kinds of faults or rare commands may happen, once each

Ids == Citing \cup Cited
FaultKinds == {"workerCrash", "fetcherCrash", "cliCrash", "overlap", "cliRun"}
References == [id : Ids \cup {None}, title : Titles \cup {None}]

ASSUME ConstantsAssumption ==
    /\ Citing \cap Cited = {} /\ IsFiniteSet(Citing)
    /\ \A p \in Ids \cup {None} : p \notin Titles \X Nat
    /\ TitleOf \in [Ids -> Titles]
    /\ Similar \subseteq Titles \X Titles
    /\ Catalog \subseteq Cited
    /\ Lists \subseteq Seq(References)
    /\ None \notin Ids \cup Titles \cup {"worker", "cli"}
    /\ StubMin \in Nat \ {0}
    /\ MaxRounds \in Nat \ {0}
    /\ MaxFaults \in Nat

VARIABLES
    papers,     \* rows of papers
    citations,  \* papers.fulltext_citations
    refs,       \* references_raw: per citing paper, in order
    edges,      \* citation_edges
    stubs,      \* stub_papers: per title the last id, whether it is there, cited_by_count
    tx,         \* the transaction that holds the citation-graph lock
    tail,       \* what the worker has left to do after committing a paper's resolution
    pending,    \* refs:pending, or the chunk job that will add the paper to it
    cli,        \* "resolve all": the papers to go, the ids to ask for
    metaq,      \* metadata jobs in fetch:bulk
    asked,      \* the metadata job the fetcher is at
    stored,     \* papers whose references were stored
    stale,      \* stored since the last resolution that read them: a job goes on to resolve
    \* history
    late,       \* rows that came after an edge to them, not refreshed since
    settled,    \* ids that arXiv does not know or has failed to tell MaxRounds times
    happened    \* faults so far

graphVars == <<citations, refs, edges, stubs, late>>
cliVars   == <<cli>>
fetchVars == <<metaq, asked, settled>>
roundVars == <<tail, pending, stored, stale>>
vars == <<papers, graphVars, tx, roundVars, cliVars, fetchVars, happened>>

StubId == Titles \X Nat
Targets == Ids \cup StubId \cup {None}
IsStub(target) == target \notin Ids \cup {None}
StubOf(t) == <<t, stubs[t].n>>

NoTx  == [by |-> None, paper |-> None, read |-> <<>>, match |-> <<>>, missing |-> {}]
NoCli == [on |-> FALSE, todo |-> {}, ids |-> {}]
NoJob == [ids |-> {}, attempt |-> 0, got |-> {}, answered |-> FALSE]
NoTail == [step |-> "none", ids |-> {}]

Rows  == [ref : References, to : Targets]
Calls == [ids : SUBSET Cited, attempt : 1..MaxRounds]

TxOK ==
    /\ tx \in [by : {None, "worker", "cli"}, paper : Citing \cup {None}, read : Seq(References),
               match : Seq(Ids \cup {None}), missing : SUBSET Cited]
    /\ tx.by = None <=> tx.paper = None
    /\ tx.by = "cli" => cli.on /\ tx.paper \in cli.todo
    /\ DOMAIN tx.match = DOMAIN tx.read

AskedOK ==
    /\ asked \in [ids : SUBSET Cited, attempt : 0..MaxRounds, got : SUBSET Cited, answered : BOOLEAN]
    /\ asked # NoJob => asked.attempt > 0 /\ asked.ids # {}
    /\ asked.got \subseteq asked.ids

TypeOK ==
    /\ papers \in SUBSET Ids /\ Citing \subseteq papers
    /\ citations \in [Ids -> Nat]
    /\ refs \in [Citing -> Seq(Rows)]
    /\ edges \subseteq Citing \X (Targets \ {None})
    /\ stubs \in [Titles -> [n : Nat, live : BOOLEAN, count : Nat]]
    /\ TxOK /\ AskedOK
    /\ tail \in [Citing -> [step : {"none", "srem", "ask"}, ids : SUBSET Cited]]
    /\ cli \in [on : BOOLEAN, todo : SUBSET stored, ids : SUBSET Cited] /\ (cli.todo # {} => cli.on)
    /\ metaq \in Seq(Calls) /\ \A i \in DOMAIN metaq : metaq[i].ids # {}
    /\ stored \in SUBSET Citing /\ settled \in SUBSET Cited /\ happened \in SUBSET FaultKinds
    /\ pending \subseteq stored /\ stale \subseteq stored /\ late \subseteq papers

Init ==
    /\ papers = Citing
    /\ citations = [p \in Ids |-> 0]
    /\ refs = [f \in Citing |-> <<>>]
    /\ edges = {}
    /\ stubs = [t \in Titles |-> [n |-> 0, live |-> FALSE, count |-> 0]]
    /\ tx = NoTx /\ cli = NoCli /\ asked = NoJob /\ metaq = <<>>
    /\ tail = [f \in Citing |-> NoTail]
    /\ pending = {} /\ stored = {} /\ stale = {} /\ late = {} /\ settled = {}
    /\ happened = {}

Happens(kind) ==
    /\ kind \notin happened /\ Cardinality(happened) < MaxFaults
    /\ happened' = happened \cup {kind}

-----------------------------------------------------------------------------
\* References, edges and counts.

InDegree(target, es) == Cardinality({e \in es : e[2] = target})

\* What a paper's references say its edges are.
Resolved(f, rs) == {rs[f][i].to : i \in DOMAIN rs[f]} \ {None, f}

\* The targets refresh_counts is called with: those the papers had and those they have.
Refreshed(citers, old, new) == {e[2] : e \in {e2 \in old \cup new : e2[1] \in citers}}

\* rebuild_edges of some papers, one after the other; rows and stubs that are not there
\* are not counted.
Rebuild(citers, rs, sts, rows, waiting) ==
    LET new  == {e \in edges : e[1] \notin citers} \cup UNION {{f} \X Resolved(f, rs) : f \in citers}
        done == Refreshed(citers, edges, new)
    IN  /\ refs' = rs
        /\ edges' = new
        /\ citations' = [p \in Ids |-> IF p \in done \cap rows THEN InDegree(p, new) ELSE citations[p]]
        /\ stubs' = [t \in Titles |->
              IF sts[t].live /\ <<t, sts[t].n>> \in done
              THEN [sts[t] EXCEPT !.count = InDegree(<<t, sts[t].n>>, new)] ELSE sts[t]]
        /\ late' = waiting \ done

\* The candidates of each lookup by title, in order: exact and similar among the
\* papers, exact and similar in the catalog.
Lookups(title) ==
    LET exact(rows)   == {p \in rows : TitleOf[p] = title}
        similar(rows) == {p \in rows : <<title, TitleOf[p]>> \in Similar}
    IN  <<exact(papers), similar(papers), exact(Catalog), similar(Catalog)>>

\* What a reference of paper f may resolve to.  A lookup returns one of its
\* candidates (the nearest year, the most similar title); if that is the citing paper
\* itself, or there is none, the next lookup is made.
Matches(f, ref) ==
    LET tries == Lookups(ref.title)
        from[i \in 1..5] ==
            IF i = 5 THEN {None}
            ELSE (tries[i] \ {f}) \cup
                 (IF tries[i] \subseteq {f} \/ f \in tries[i] THEN from[i + 1] ELSE {})
    IN  IF ref.id \notin {None, f} THEN {ref.id}
        ELSE IF ref.title = None THEN {None} ELSE from[1]

-----------------------------------------------------------------------------
\* The worker and "resolve all".

\* The transaction that writes the chunks replaces the references (store_references);
\* it does not take the lock.  A second round for a paper is an overlap of two jobs.
Store(f, list) ==
    /\ IF f \in stored THEN Happens("overlap") ELSE UNCHANGED happened
    /\ refs' = [refs EXCEPT ![f] = [i \in DOMAIN list |-> [ref |-> list[i], to |-> None]]]
    /\ pending' = pending \cup {f}
    /\ stored' = stored \cup {f}
    /\ stale' = stale \cup {f}
    /\ UNCHANGED <<papers, citations, edges, stubs, late, tx, tail, cliVars, fetchVars>>

\* The lock is taken; the references are read and looked up.
Look(by, f) ==
    /\ tx = NoTx
    /\ \E match \in {m \in [DOMAIN refs[f] -> Ids \cup {None}] :
                        \A i \in DOMAIN m : m[i] \in Matches(f, refs[f][i].ref)} :
          tx' = [by |-> by, paper |-> f, read |-> [i \in DOMAIN refs[f] |-> refs[f][i].ref],
                 match |-> match,
                 missing |-> {refs[f][i].ref.id : i \in DOMAIN refs[f]} \ ({None} \cup papers \cup Catalog)]

WorkerLook(f) ==
    /\ f \in pending \cup stale /\ tail[f] = NoTail
    /\ Look("worker", f)
    /\ UNCHANGED <<papers, graphVars, roundVars, cliVars, fetchVars, happened>>

CliLook(f) ==
    /\ f \in cli.todo
    /\ Look("cli", f)
    /\ UNCHANGED <<papers, graphVars, roundVars, cliVars, fetchVars, happened>>

\* The rows with the positions that were read are updated: those of the paper now.
Written(f) ==
    [refs EXCEPT ![f] = [i \in DOMAIN @ |-> IF i \in DOMAIN tx.match
                                            THEN [@[i] EXCEPT !.to = tx.match[i]] ELSE @[i]]]

\* Papers that cite the title without a paper found for it.
Without(title, rs) ==
    {g \in Citing : \E i \in DOMAIN rs[g] :
        rs[g][i].ref.title = title /\ (rs[g][i].to = None \/ IsStub(rs[g][i].to))}

\* Mutant of Touched: no other paper's edges are rebuilt.
TouchedOwn(f, before, after) == {f}

\* Whose edges are rebuilt: the paper's and those of the papers it has set references of.
Touched(f, before, after) == {g \in Citing : g = f \/ after[g] # before[g]}

\* Mutant of Hit: only the paper's own references.
HitOwn(f, g, r, used) == g = f /\ r.to = None /\ r.ref.title \in used

\* References set to a stub that is used: all that name its title and point nowhere.
Hit(f, g, r, used) == r.to = None /\ r.ref.title \in used

\* resolve_for_paper to its commit: references, stubs (_resolve_stubs), edges.  A stub
\* is used if it is there, and made if enough papers cite the title.
Resolve ==
    LET f    == tx.paper
        rs1  == Written(f)
        open == {tx.read[i].title : i \in {j \in DOMAIN tx.read : tx.match[j] = None}} \ {None}
        used == {t \in open : stubs[t].live \/ Cardinality(Without(t, rs1)) >= StubMin}
        sts  == [t \in Titles |-> IF t \in used /\ ~stubs[t].live
                                  THEN [n |-> stubs[t].n + 1, live |-> TRUE, count |-> 0]
                                  ELSE stubs[t]]
        rs2  == [g \in Citing |-> [i \in DOMAIN rs1[g] |->
                    IF Hit(f, g, rs1[g][i], used)
                    THEN [rs1[g][i] EXCEPT !.to = <<rs1[g][i].ref.title, sts[rs1[g][i].ref.title].n>>]
                    ELSE rs1[g][i]]]
    IN  /\ Rebuild(Touched(f, rs1, rs2), rs2, sts, papers, late)
        /\ stale' = IF tx.read = [i \in DOMAIN refs[f] |-> refs[f][i].ref] THEN stale \ {f} ELSE stale
        /\ tx' = NoTx

WorkerCommit ==
    /\ tx.by = "worker"
    /\ Resolve
    /\ tail' = [tail EXCEPT ![tx.paper] = [step |-> "srem", ids |-> tx.missing]]
    /\ UNCHANGED <<papers, pending, stored, cliVars, fetchVars, happened>>

CliCommit ==
    /\ tx.by = "cli"
    /\ Resolve
    /\ cli' = [cli EXCEPT !.todo = @ \ {tx.paper}, !.ids = @ \cup tx.missing]
    /\ UNCHANGED <<papers, tail, pending, stored, fetchVars, happened>>

\* After the commit: refs:pending, then the ids nobody knows are asked for.
Srem(f) ==
    /\ tail[f].step = "srem"
    /\ pending' = pending \ {f}
    /\ tail' = [tail EXCEPT ![f].step = "ask"]
    /\ UNCHANGED <<papers, graphVars, tx, stored, stale, cliVars, fetchVars, happened>>

\* enqueue_meta: in batches of MAX_META_IDS, one here.
EnqueueMeta(ids) == metaq' = IF ids = {} THEN metaq ELSE Append(metaq, [ids |-> ids, attempt |-> 1])

WorkerAsk(f) ==
    /\ tail[f].step = "ask"
    /\ EnqueueMeta(tail[f].ids)
    /\ tail' = [tail EXCEPT ![f] = NoTail]
    /\ UNCHANGED <<papers, graphVars, tx, pending, stored, stale, cliVars, asked, settled, happened>>

CliStart ==
    /\ ~cli.on /\ stored # {}
    /\ Happens("cliRun")
    /\ cli' = [on |-> TRUE, todo |-> stored, ids |-> {}]
    /\ UNCHANGED <<papers, graphVars, tx, roundVars, fetchVars>>

Orphan(t) == \A g \in Citing : \A i \in DOMAIN refs[g] : refs[g][i].to # StubOf(t)

\* At its end, under the lock: stubs without references go, the others are counted.
CliClean ==
    /\ cli.on /\ cli.todo = {} /\ tx = NoTx
    /\ stubs' = [t \in Titles |->
          CASE Orphan(t)                    -> [stubs[t] EXCEPT !.live = FALSE, !.count = 0]
            [] ~Orphan(t) /\ stubs[t].live -> [stubs[t] EXCEPT !.count = InDegree(StubOf(t), edges)]
            [] OTHER                        -> stubs[t]]
    /\ EnqueueMeta(cli.ids)
    /\ cli' = NoCli
    /\ UNCHANGED <<papers, citations, refs, edges, late, tx, roundVars, asked, settled, happened>>

-----------------------------------------------------------------------------
\* The fetcher and the metadata pass.

\* fetch_meta takes a job; ids that have a row by now are left out.
MetaPop ==
    /\ asked = NoJob /\ metaq # <<>>
    /\ metaq' = Tail(metaq)
    /\ LET missing == Head(metaq).ids \ papers
       IN  asked' = IF missing = {} THEN NoJob
                    ELSE [NoJob EXCEPT !.ids = missing, !.attempt = Head(metaq).attempt]
    /\ UNCHANGED <<papers, graphVars, tx, roundVars, cliVars, settled, happened>>

\* Mutant of MetaFail: a failed lookup is forgotten.
MetaFailDrops ==
    /\ asked # NoJob /\ ~asked.answered
    /\ asked' = NoJob
    /\ UNCHANGED <<papers, graphVars, tx, roundVars, cliVars, metaq, settled, happened>>

MetaFail ==
    /\ asked # NoJob /\ ~asked.answered
    /\ IF asked.attempt < MaxRounds
       THEN /\ metaq' = Append(metaq, [ids |-> asked.ids, attempt |-> asked.attempt + 1])
            /\ UNCHANGED settled
       ELSE settled' = settled \cup asked.ids /\ UNCHANGED metaq
    /\ asked' = NoJob
    /\ UNCHANGED <<papers, graphVars, tx, roundVars, cliVars, happened>>

\* arXiv leaves out the ids it does not know.
MetaAnswer ==
    /\ asked # NoJob /\ ~asked.answered
    /\ \E got \in SUBSET asked.ids :
          /\ asked' = [asked EXCEPT !.got = got, !.answered = TRUE]
          /\ settled' = settled \cup (asked.ids \ got)
    /\ UNCHANGED <<papers, graphVars, tx, roundVars, cliVars, metaq, happened>>

\* resolve_new_papers: references without a paper or a stub that name a title of these.
Named(new) ==
    [g \in Citing |-> [i \in DOMAIN refs[g] |->
        LET fits == {p \in new \ {g} : TitleOf[p] = refs[g][i].ref.title}
        IN  IF refs[g][i].to = None /\ fits # {}
            THEN [refs[g][i] EXCEPT !.to = CHOOSE p \in fits : TRUE] ELSE refs[g][i]]]

\* The rows are inserted before the lock is waited for; all is visible at the commit.
MetaCommit ==
    /\ asked.answered /\ tx = NoTx
    /\ LET new == asked.got
           rs  == Named(new)
       IN  /\ papers' = papers \cup new
           /\ Rebuild({g \in Citing : rs[g] # refs[g]}, rs, stubs, papers \cup new,
                      late \cup {p \in new \ papers : InDegree(p, edges) > 0})
    /\ asked' = NoJob
    /\ UNCHANGED <<tx, roundVars, cliVars, metaq, settled, happened>>

\* The metadata pass of a snapshot or a harvest inserts a paper (write_batch).
Insert(p) ==
    /\ p \notin papers
    /\ papers' = papers \cup {p}
    /\ late' = late \cup (IF InDegree(p, edges) > 0 THEN {p} ELSE {})
    /\ UNCHANGED <<citations, refs, edges, stubs, tx, roundVars, cliVars, fetchVars, happened>>

-----------------------------------------------------------------------------
\* Faults.

\* An open transaction is rolled back, what was to follow a commit is forgotten.
WorkerCrash ==
    /\ Happens("workerCrash")
    /\ tx' = IF tx.by = "worker" THEN NoTx ELSE tx
    /\ tail' = [f \in Citing |-> NoTail]
    /\ UNCHANGED <<papers, graphVars, pending, stored, stale, cliVars, fetchVars>>

FetcherCrash ==
    /\ asked # NoJob
    /\ Happens("fetcherCrash")
    /\ asked' = NoJob
    /\ UNCHANGED <<papers, graphVars, tx, roundVars, cliVars, metaq, settled>>

CliCrash ==
    /\ cli.on
    /\ happened' = happened \cup {"cliCrash"}
    /\ cli' = NoCli
    /\ tx' = IF tx.by = "cli" THEN NoTx ELSE tx
    /\ UNCHANGED <<papers, graphVars, roundVars, fetchVars>>

Next ==
    \/ \E f \in Citing, list \in Lists : Store(f, list)
    \/ \E f \in Citing : WorkerLook(f) \/ CliLook(f) \/ Srem(f) \/ WorkerAsk(f)
    \/ WorkerCommit \/ CliCommit \/ CliStart \/ CliClean
    \/ MetaPop \/ MetaFail \/ MetaAnswer \/ MetaCommit
    \/ \E p \in Cited : Insert(p)
    \/ WorkerCrash \/ FetcherCrash \/ CliCrash

Spec == Init /\ [][Next]_vars
-----------------------------------------------------------------------------
\* Properties.

Spared(kinds) == happened \cap kinds = {}

\* The edges of a paper are what its references resolve to, without itself, once its
\* references were resolved: whoever set a reference since then (a stub another paper
\* called for, a paper that came later) has rebuilt them (rebuild_edges,
\* references.py:258 and :309).
EdgesFollowRefs ==
    \A f \in Citing \ stale : {e[2] : e \in {e2 \in edges : e2[1] = f}} = Resolved(f, refs)

\* fulltext_citations and cited_by_count are the in-degrees whenever no transaction is
\* open (references.py:9, :280), but for rows that came after an edge to them.
CountsFollowEdges ==
    /\ \A p \in papers \ late : citations[p] = InDegree(p, edges)
    /\ \A t \in Titles : stubs[t].live => stubs[t].count = InDegree(StubOf(t), edges)

\* The same for every row, which is what references.py:9 says.
CountsAreInDegrees == \A p \in papers : citations[p] = InDegree(p, edges)

\* What points to a stub points to one that is there (stub_papers, deleted by
\* fulltext_cli.py:114): a reference always, an edge once the paper is resolved.
StubsAreThere ==
    \A f \in Citing :
        /\ \A i \in DOMAIN refs[f] :
              IsStub(refs[f][i].to) => refs[f][i].to = StubOf(refs[f][i].ref.title)
                                       /\ stubs[refs[f][i].ref.title].live
        /\ f \notin stale => \A e \in edges : e[1] = f /\ IsStub(e[2]) => stubs[e[2][1]].live

\* A title that enough resolved papers cite in vain has a stub, and all of them point to
\* it, in whichever order they were resolved (references.py:7, _resolve_stubs).
PopularHasStub ==
    \A t \in Titles :
        Cardinality(Without(t, refs)) >= StubMin /\ Without(t, refs) \cap stale = {} =>
            \A f \in Without(t, refs) : StubOf(t) \in Resolved(f, refs)

\* The two parts of what a stub means.
StubsInv == StubsAreThere /\ PopularHasStub

\* The graph is that of the references, and its counts are those of the graph.
GraphInv == TypeOK /\ EdgesFollowRefs /\ CountsFollowEdges

\* An id that neither table knows is asked for until arXiv has answered or failed
\* MaxRounds times (pipeline.py:224, fetcher.py:144), unless somebody dies with it.
MissingIsAsked ==
    Spared({"workerCrash", "fetcherCrash", "cliCrash"}) =>
        \A f \in stored \ stale : \A i \in DOMAIN refs[f] :
            refs[f][i].ref.id \in papers \cup Catalog \cup settled \cup asked.ids \cup {None}
                \cup (UNION {metaq[j].ids : j \in DOMAIN metaq})
                \cup (UNION {tail[g].ids : g \in Citing}) \cup cli.ids
=============================================================================
