---------------------------- MODULE IngestProofs ----------------------------
(***************************************************************************)
(* Proofs about Ingest, for all records, days, versions and numbers of     *)
(* passes: types, the marks of the two passes, that an embedding is that   *)
(* of its text, that a post_harvest follows, that states never go back.    *)
(***************************************************************************)
EXTENDS Ingest, TLAPS, WellFoundedInduction

-----------------------------------------------------------------------------
\* Numbers.

LEMMA LeastOfNat ==
  ASSUME NEW S \in SUBSET Nat, S # {}
  PROVE  \E m \in S : \A n \in S : m <= n
<1>1. IsWellFoundedOn(OpToRel(<, Nat), Nat)
  BY NatLessThanWellFounded
<1>2. \A i, j \in Nat : <<i, j>> \in OpToRel(<, Nat) <=> i < j
  BY DEF OpToRel
<1>3. PICK m \in S : \A n \in S : ~(<<n, m>> \in OpToRel(<, Nat))
  BY <1>1, WFMin, S # {}
<1>4. ASSUME NEW n \in S PROVE m <= n
  <2>1. n \in Nat /\ m \in Nat
    OBVIOUS
  <2>2. ~(n < m)
    BY <2>1, <1>2, <1>3
  <2> QED
    BY <2>1, <2>2
<1> QED
  BY <1>4

\* A set of days that have come has a last one.
LEMMA LastDay ==
  ASSUME NEW n \in Nat, NEW S \in SUBSET (0..n), S # {}
  PROVE  Max(S) \in S /\ \A x \in S : x <= Max(S)
<1> DEFINE T == {n - x : x \in S}
<1>1. T \in SUBSET Nat /\ T # {}
  <2>1. \A x \in S : n - x \in Nat
    OBVIOUS
  <2> QED
    BY <2>1
<1>2. PICK m \in T : \A k \in T : m <= k
  <2> HIDE DEF T
  <2> QED
    BY <1>1, LeastOfNat
<1>3. PICK y \in S : m = n - y
  OBVIOUS
<1>4. \A x \in S : y >= x
  <2> SUFFICES ASSUME NEW x \in S PROVE y >= x
    OBVIOUS
  <2>1. n - y <= n - x
    BY <1>2, <1>3
  <2> QED
    BY <2>1
<1>5. Max(S) \in S /\ \A x \in S : Max(S) >= x
  BY <1>4, Zenon DEF Max
<1>6. \A x \in S : x \in Nat
  OBVIOUS
<1> QED
  BY <1>5, <1>6

LEMMA MaxOfTwo ==
  ASSUME NEW e \in Int
  PROVE  Max({0, e}) = IF e > 0 THEN e ELSE 0
<1>1. \E x \in {0, e} : \A y \in {0, e} : x >= y
  OBVIOUS
<1>2. Max({0, e}) \in {0, e} /\ \A y \in {0, e} : Max({0, e}) >= y
  BY <1>1, Zenon DEF Max
<1> QED
  BY <1>2

LEMMA ConstantsOK ==
  /\ InWindow \subseteq Records
  /\ MinCites \in Nat /\ FirstRunDays \in Nat /\ MaxDay \in Nat /\ MaxPasses \in Nat
BY ConstantsAssumption

LEMMA RankIs ==
  /\ DOMAIN Rank = {"absent", "discovered", "metadata_done", "signals_done", "fulltext"}
  /\ Rank["absent"] = 0 /\ Rank["discovered"] = 1 /\ Rank["metadata_done"] = 2
  /\ Rank["signals_done"] = 3 /\ Rank["fulltext"] = 4
BY DEF Rank

-----------------------------------------------------------------------------
\* Rows.

Papers == [state : DOMAIN Rank, ver : Nat, emb : Nat, cites : 0..MinCites, found : BOOLEAN]

RowsOK == row \in [Records -> Papers] /\ \A r \in Records : (row[r].state = "absent") = (row[r].ver = 0)

LEMMA UpsertedIs ==
  ASSUME NEW old \in Papers, NEW v \in Nat
  PROVE  /\ Upserted(old, v) \in Papers /\ Upserted(old, v).ver = v
         /\ Upserted(old, v).emb = IF v = old.ver THEN old.emb ELSE 0
         /\ Upserted(old, v).state = IF old.state \in {"absent", "discovered"} THEN "metadata_done" ELSE old.state
         /\ Upserted(old, v).found = old.found
<1> DEFINE s == IF old.state \in {"absent", "discovered"} THEN "metadata_done" ELSE old.state
           e == IF v = old.ver THEN old.emb ELSE 0
<1>1. s \in DOMAIN Rank /\ e \in Nat
  BY RankIs DEF Papers
<1> HIDE DEF s, e
<1>2. PICK n : n = [old EXCEPT !.ver = v, !.emb = e, !.state = s]
  OBVIOUS
<1>3. n \in Papers /\ n.ver = v /\ n.emb = e /\ n.state = s /\ n.found = old.found
  BY <1>1, <1>2 DEF Papers
<1>4. Upserted(old, v) = n
  BY <1>2 DEF Upserted, s, e, Papers
<1> QED
  BY <1>3, <1>4 DEF s, e

\* What an action makes of a row, field by field.
Becomes(new, state, ver, emb, found) ==
    new \in Papers /\ new.state = state /\ new.ver = ver /\ new.emb = emb /\ new.found = found

LEMMA DiscoverIs ==
  ASSUME TypeOK, NEW r \in Records, Discover(r)
  PROVE  /\ row[r].state = "absent" /\ source[r].ver > 0
         /\ Becomes(row'[r], "discovered", source[r].ver, row[r].emb, row[r].found)
         /\ \A q \in Records \ {r} : row'[q] = row[q]
<1>1. row \in [Records -> Papers] /\ source[r].ver \in Nat
  BY DEF TypeOK, Papers, Texts
<1>2. PICK n : n = [row[r] EXCEPT !.state = "discovered", !.ver = source[r].ver]
  OBVIOUS
<1>3. PICK o : o = row[r]
  OBVIOUS
<1>4. n = [o EXCEPT !.state = "discovered", !.ver = source[r].ver] /\ o \in Papers
  BY <1>1, <1>2, <1>3
<1>5. n \in Papers /\ n.state = "discovered" /\ n.ver = source[r].ver /\ n.emb = o.emb /\ n.found = o.found
  BY <1>1, <1>4, RankIs DEF Papers
<1>6. row' = [row EXCEPT ![r] = n]
  BY <1>2 DEF Discover, Sets
<1> QED
  BY <1>1, <1>3, <1>5, <1>6 DEF Discover, Becomes

LEMMA CiteIs ==
  ASSUME TypeOK, NEW r \in Records, Cite(r)
  PROVE  /\ Becomes(row'[r], row[r].state, row[r].ver, row[r].emb, row[r].found)
         /\ \A q \in Records \ {r} : row'[q] = row[q]
<1>1. row \in [Records -> Papers]
  BY DEF TypeOK, Papers
<1>2. PICK n : n = [row[r] EXCEPT !.cites = @ + 1]
  OBVIOUS
<1>3. PICK o : o = row[r]
  OBVIOUS
<1>4. n = [o EXCEPT !.cites = @ + 1] /\ o \in Papers /\ o.cites < MinCites
  BY <1>1, <1>2, <1>3 DEF Cite
<1>5. o.cites + 1 \in 0..MinCites
  BY <1>4, ConstantsOK DEF Papers
<1>6. n \in Papers /\ n.state = o.state /\ n.ver = o.ver /\ n.emb = o.emb /\ n.found = o.found
  BY <1>4, <1>5 DEF Papers
<1>7. row' = [row EXCEPT ![r] = n]
  BY <1>2 DEF Cite, Sets
<1> QED
  BY <1>1, <1>3, <1>6, <1>7 DEF Becomes

LEMMA GetFullTextIs ==
  ASSUME TypeOK, NEW r \in Records, GetFullText(r)
  PROVE  /\ row[r].state = "signals_done"
         /\ Becomes(row'[r], "fulltext", row[r].ver, row[r].emb, row[r].found)
         /\ \A q \in Records \ {r} : row'[q] = row[q]
<1>1. row \in [Records -> Papers]
  BY DEF TypeOK, Papers
<1>2. PICK n : n = [row[r] EXCEPT !.state = "fulltext"]
  OBVIOUS
<1>3. n \in Papers /\ n.state = "fulltext" /\ n.ver = row[r].ver /\ n.emb = row[r].emb /\ n.found = row[r].found
  BY <1>1, <1>2, RankIs DEF Papers
<1>4. row' = [row EXCEPT ![r] = n]
  BY <1>2 DEF GetFullText, Sets
<1> QED
  BY <1>1, <1>3, <1>4 DEF GetFullText, Becomes

LEMMA WriteIs ==
  ASSUME TypeOK, NEW r \in Records, NEW v \in Nat, Write(r, v)
  PROVE  /\ \A q \in Records \ {r} : row'[q] = row[q]
         /\ r \notin InWindow => row'[r] = row[r]
         /\ r \in InWindow =>
               Becomes(row'[r],
                       IF row[r].state \in {"absent", "discovered"} THEN "metadata_done" ELSE row[r].state,
                       v, IF v = row[r].ver THEN row[r].emb ELSE 0, row[r].found)
         /\ row' = [q \in Records |-> row'[q]]
<1>1. row \in [Records -> Papers]
  BY DEF TypeOK, Papers
<1>2. CASE r \notin InWindow
  BY <1>1, <1>2 DEF Write
<1>3. CASE r \in InWindow
  <2>1. PICK n : n = Upserted(row[r], v)
    OBVIOUS
  <2>2. row' = [row EXCEPT ![r] = n]
    BY <1>3, <2>1 DEF Write
  <2>3. row'[r] = Upserted(row[r], v) /\ row[r] \in Papers
    BY <1>1, <2>1, <2>2
  <2>4. Becomes(row'[r],
                IF row[r].state \in {"absent", "discovered"} THEN "metadata_done" ELSE row[r].state,
                v, IF v = row[r].ver THEN row[r].emb ELSE 0, row[r].found)
    BY <2>3, UpsertedIs DEF Becomes
  <2>5. \A q \in Records \ {r} : row'[q] = row[q]
    BY <1>1, <2>2
  <2>6. row' = [q \in Records |-> row'[q]]
    BY <1>1, <2>2
  <2> QED
    BY <1>3, <2>4, <2>5, <2>6
<1> QED
  BY <1>2, <1>3

LEMMA PostFoundIs ==
  ASSUME TypeOK, NEW o \in Owners, PostFound(o)
  PROVE  \A r \in Records :
           \E found \in BOOLEAN : /\ found => row[r].ver > 0
                                  /\ Becomes(row'[r], row[r].state, row[r].ver, row[r].emb, found)
<1>1. row \in [Records -> Papers]
  BY DEF TypeOK, Papers
<1> SUFFICES ASSUME NEW r \in Records
             PROVE  \E found \in BOOLEAN : /\ found => row[r].ver > 0
                                           /\ Becomes(row'[r], row[r].state, row[r].ver, row[r].emb, found)
  OBVIOUS
<1>2. PICK found \in BOOLEAN : found = (r \notin InWindow /\ row[r].ver > 0 /\ row[r].cites >= MinCites)
  OBVIOUS
<1>3. row'[r] = [row[r] EXCEPT !.found = found]
  BY <1>2 DEF PostFound
<1>4. Becomes(row'[r], row[r].state, row[r].ver, row[r].emb, found)
  BY <1>1, <1>3 DEF Becomes, Papers
<1> QED
  BY <1>2, <1>4

LEMMA PostPromoteIs ==
  ASSUME TypeOK, NEW o \in Owners, PostPromote(o)
  PROVE  \A r \in Records :
           Becomes(row'[r], IF row[r].found /\ row[r].state = "discovered" THEN "metadata_done" ELSE row[r].state,
                   row[r].ver, row[r].emb, row[r].found)
<1>1. row \in [Records -> Papers]
  BY DEF TypeOK, Papers
<1> SUFFICES ASSUME NEW r \in Records
             PROVE  Becomes(row'[r],
                            IF row[r].found /\ row[r].state = "discovered" THEN "metadata_done" ELSE row[r].state,
                            row[r].ver, row[r].emb, row[r].found)
  OBVIOUS
<1>2. PICK s : s = IF row[r].found /\ row[r].state = "discovered" THEN "metadata_done" ELSE row[r].state
  OBVIOUS
<1>3. s \in DOMAIN Rank
  BY <1>1, <1>2, RankIs DEF Papers
<1>4. row'[r] = [row[r] EXCEPT !.state = s]
  BY <1>1, <1>2 DEF PostPromote, Papers
<1>5. Becomes(row'[r], s, row[r].ver, row[r].emb, row[r].found)
  BY <1>1, <1>3, <1>4 DEF Becomes, Papers
<1> QED
  BY <1>2, <1>5

LEMMA PostEmbedApplyIs ==
  ASSUME TypeOK, NEW o \in Owners, PostEmbedApply(o)
  PROVE  \A r \in Records :
           Becomes(row'[r], row[r].state, row[r].ver,
                   IF r \in DOMAIN post[o].taken THEN post[o].taken[r] ELSE row[r].emb, row[r].found)
<1>1. row \in [Records -> Papers] /\ \A r \in DOMAIN post[o].taken : post[o].taken[r] \in Nat
  BY DEF TypeOK, PostOK, Papers
<1> SUFFICES ASSUME NEW r \in Records
             PROVE  Becomes(row'[r], row[r].state, row[r].ver,
                            IF r \in DOMAIN post[o].taken THEN post[o].taken[r] ELSE row[r].emb, row[r].found)
  OBVIOUS
<1>2. CASE r \in DOMAIN post[o].taken
  <2>1. PICK e \in Nat : e = post[o].taken[r]
    BY <1>1, <1>2
  <2>2. row'[r] = [row[r] EXCEPT !.emb = e]
    BY <1>2, <2>1 DEF PostEmbedApply
  <2> QED
    BY <1>1, <1>2, <2>1, <2>2 DEF Becomes, Papers
<1>3. CASE r \notin DOMAIN post[o].taken
  <2>1. row'[r] = row[r]
    BY <1>3 DEF PostEmbedApply
  <2> QED
    BY <1>1, <1>3, <2>1 DEF Becomes, Papers
<1> QED
  BY <1>2, <1>3

LEMMA PostScoreStoreIs ==
  ASSUME TypeOK, NEW o \in Owners, PostScoreStore(o)
  PROVE  \A r \in Records :
           Becomes(row'[r], IF r \in DOMAIN post[o].taken THEN Scored(row[r].state) ELSE row[r].state,
                   row[r].ver, row[r].emb, row[r].found)
<1>1. row \in [Records -> Papers]
  BY DEF TypeOK, Papers
<1> SUFFICES ASSUME NEW r \in Records
             PROVE  Becomes(row'[r], IF r \in DOMAIN post[o].taken THEN Scored(row[r].state) ELSE row[r].state,
                            row[r].ver, row[r].emb, row[r].found)
  OBVIOUS
<1>2. CASE r \in DOMAIN post[o].taken
  <2>1. PICK s : s = Scored(row[r].state)
    OBVIOUS
  <2>2. s \in DOMAIN Rank
    BY <1>1, <2>1, RankIs DEF Scored, Papers
  <2>3. row'[r] = [row[r] EXCEPT !.state = s]
    BY <1>1, <1>2, <2>1 DEF PostScoreStore, Papers
  <2> QED
    BY <1>1, <1>2, <2>1, <2>2, <2>3 DEF Becomes, Papers
<1>3. CASE r \notin DOMAIN post[o].taken
  <2>1. row'[r] = row[r]
    BY <1>3 DEF PostScoreStore
  <2> QED
    BY <1>1, <1>3, <2>1 DEF Becomes, Papers
<1> QED
  BY <1>2, <1>3

LEMMA TypeParts ==
  TypeOK => /\ today \in Nat /\ row \in [Records -> Papers] /\ RowsOK
            /\ \A r \in Records : /\ row[r] \in Papers /\ row[r].ver \in Nat /\ row[r].emb \in Nat
                                  /\ source[r].ver \in Nat /\ source[r].day \in 0..today /\ source[r] \in Texts
                                  /\ zip.copy[r].ver \in Nat /\ zip.copy[r].day \in 0..today
BY DEF TypeOK, RowsOK, Papers, Texts

LEMMA WeeklyWriteIs ==
  ASSUME TypeOK, NEW r \in Records, WeeklyWrite(r)
  PROVE  /\ weekly.at = "read" /\ r \in weekly.todo
         /\ weekly.copy[r].ver \in Nat /\ weekly.copy[r].ver > 0
         /\ Write(r, weekly.copy[r].ver)
<1>1. weekly.at = "read" /\ r \in weekly.todo /\ Write(r, weekly.copy[r].ver)
  BY DEF WeeklyWrite
<1>2. weekly.copy \in [Records -> Texts] /\ r \in Known(weekly.copy)
  BY <1>1 DEF TypeOK, WeeklyOK
<1> QED
  BY <1>1, <1>2 DEF Known, Texts

LEMMA HarvestPageIs ==
  ASSUME TypeOK, NEW r \in Records, HarvestPage(r)
  PROVE  /\ harvest.run.on /\ r \in harvest.run.todo
         /\ source[r].ver \in Nat /\ source[r].ver > 0
         /\ Write(r, source[r].ver)
<1>1. harvest.run.on /\ r \in harvest.run.todo /\ Write(r, source[r].ver)
  BY DEF HarvestPage
<1>2. source \in [Records -> Texts] /\ r \in Known(source)
  BY <1>1 DEF TypeOK, HarvestOK
<1> QED
  BY <1>1, <1>2 DEF Known, Texts

\* The version that a row has after a step.
VerMoves(r) ==
    \/ row'[r].ver = row[r].ver
    \/ Discover(r) /\ row[r].ver = 0 /\ row'[r].ver = source[r].ver
    \/ WeeklyWrite(r) /\ r \in InWindow /\ row'[r].ver = weekly.copy[r].ver
    \/ HarvestPage(r) /\ r \in InWindow /\ row'[r].ver = source[r].ver

Moves(r) ==
    /\ row'[r] \in Papers /\ (row'[r].state = "absent") = (row'[r].ver = 0)
    /\ Rank[row'[r].state] >= Rank[row[r].state]
    /\ VerMoves(r)

LEMMA SameMoves ==
  ASSUME TypeOK, NEW r \in Records, row'[r] = row[r]
  PROVE  Moves(r)
<1>1. row[r] \in Papers /\ (row[r].state = "absent") = (row[r].ver = 0)
  BY TypeParts DEF RowsOK
<1>2. Rank[row[r].state] \in Nat
  BY <1>1, RankIs DEF Papers
<1> QED
  BY <1>1, <1>2 DEF Moves, VerMoves

\* A row whose state goes on and whose version stays.
LEMMA StateMoves ==
  ASSUME TypeOK, NEW r \in Records, NEW s \in DOMAIN Rank, NEW e, NEW found,
         Becomes(row'[r], s, row[r].ver, e, found),
         s # row[r].state => row[r].state # "absent" /\ s # "absent" /\ Rank[s] >= Rank[row[r].state]
  PROVE  Moves(r)
<1>1. row[r] \in Papers /\ (row[r].state = "absent") = (row[r].ver = 0)
  BY TypeParts DEF RowsOK
<1>2. Rank[row[r].state] \in Nat
  BY <1>1, RankIs DEF Papers
<1>3. row'[r] \in Papers /\ row'[r].state = s /\ row'[r].ver = row[r].ver
  BY DEF Becomes
<1>4. Rank[s] >= Rank[row[r].state]
  BY <1>2
<1>5. (s = "absent") = (row[r].ver = 0)
  BY <1>1
<1> QED
  BY <1>3, <1>4, <1>5 DEF Moves, VerMoves

LEMMA WriteMoves ==
  ASSUME TypeOK, NEW r \in Records, NEW v \in Nat, v > 0, Write(r, v),
         \/ WeeklyWrite(r) /\ v = weekly.copy[r].ver
         \/ HarvestPage(r) /\ v = source[r].ver
  PROVE  (\A q \in Records : Moves(q)) /\ row' = [q \in Records |-> row'[q]]
<1>1. \A q \in Records \ {r} : Moves(q)
  BY WriteIs, SameMoves
<1>2. CASE r \notin InWindow
  BY <1>1, <1>2, WriteIs, SameMoves
<1>3. CASE r \in InWindow
  <2>1. row[r] \in Papers
    BY TypeParts
  <2>2. row'[r] \in Papers /\ row'[r].ver = v
        /\ row'[r].state = IF row[r].state \in {"absent", "discovered"} THEN "metadata_done" ELSE row[r].state
    BY <1>3, WriteIs DEF Becomes
  <2>3. row[r].ver = 0 <=> row[r].state = "absent"
    BY TypeParts DEF RowsOK
  <2>4. row'[r].state # "absent" /\ Rank[row'[r].state] >= Rank[row[r].state]
    BY <2>1, <2>2, <2>3, RankIs DEF Papers
  <2>5. (row'[r].state = "absent") = (row'[r].ver = 0)
    BY <2>2, <2>4
  <2>6. VerMoves(r)
    BY <1>3, <2>2 DEF VerMoves
  <2> QED
    BY <1>1, <2>2, <2>4, <2>5, <2>6, WriteIs DEF Moves
<1> QED
  BY <1>2, <1>3, WriteIs

\* The steps that leave all rows alone.
Elsewhere ==
    \/ NewDay \/ Snapshot \/ (\E r \in InWindow : Change(r))
    \/ WeeklyStart \/ WeeklyMark \/ WeeklyStamp \/ WeeklyCrash
    \/ QueueHarvest \/ HarvestEnd \/ HarvestFail
    \/ (\E d \in 0..(MaxDay + 1) : HarvestStart(d) \/ PostStart(d) \/ PostForgotten(d))
    \/ (\E o \in Owners : PostEmbedRead(o) \/ PostScoreRead(o) \/ PostCrash(o))

LEMMA ElsewhereIs == Elsewhere => UNCHANGED row
BY DEF Elsewhere, NewDay, Snapshot, Change, WeeklyStart, WeeklyMark, WeeklyStamp, WeeklyCrash, QueueHarvest,
       HarvestEnd, HarvestFail, HarvestStart, PostStart, PostForgotten, PostEmbedRead, PostScoreRead, PostCrash

LEMMA NextIs ==
  ASSUME Next
  PROVE  \/ Elsewhere
         \/ \E r \in Records : Discover(r) \/ GetFullText(r) \/ WeeklyWrite(r) \/ HarvestPage(r) \/ Cite(r)
         \/ \E o \in Owners : PostFound(o) \/ PostPromote(o) \/ PostEmbedApply(o) \/ PostScoreStore(o)
BY DEF Next, Elsewhere

LEMMA RowStep ==
  ASSUME TypeOK, Next
  PROVE  RowsOK' /\ \A r \in Records : Moves(r)
<1>0. \A r \in Records : row[r] \in Papers /\ row[r].state \in DOMAIN Rank
  BY TypeParts DEF Papers
<1>1. SUFFICES (\A r \in Records : Moves(r)) /\ row' = [r \in Records |-> row'[r]]
  BY DEF RowsOK, Moves
<1>2. CASE Elsewhere
  BY <1>2, ElsewhereIs, SameMoves, TypeParts
<1>3. ASSUME NEW r \in Records, Discover(r) PROVE (\A q \in Records : Moves(q)) /\ row' = [q \in Records |-> row'[q]]
  <2>1. /\ row[r].state = "absent" /\ source[r].ver > 0
        /\ row'[r] \in Papers /\ row'[r].state = "discovered" /\ row'[r].ver = source[r].ver
        /\ \A q \in Records \ {r} : row'[q] = row[q]
    BY <1>3, DiscoverIs DEF Becomes
  <2>2. row[r].ver = 0 /\ source[r].ver \in Nat
    BY <2>1, TypeParts DEF RowsOK
  <2>3. Moves(r)
    BY <1>3, <2>1, <2>2, RankIs DEF Moves, VerMoves
  <2>4. row' = [q \in Records |-> row'[q]]
    BY <1>3, TypeParts DEF Discover, Sets
  <2> QED
    BY <2>1, <2>3, <2>4, SameMoves
<1>4. ASSUME NEW r \in Records, GetFullText(r) PROVE (\A q \in Records : Moves(q)) /\ row' = [q \in Records |-> row'[q]]
  <2>1. /\ row[r].state = "signals_done"
        /\ Becomes(row'[r], "fulltext", row[r].ver, row[r].emb, row[r].found)
        /\ \A q \in Records \ {r} : row'[q] = row[q]
    BY <1>4, GetFullTextIs
  <2>2. Moves(r)
    BY <2>1, StateMoves, RankIs
  <2>3. row' = [q \in Records |-> row'[q]]
    BY <1>4, TypeParts DEF GetFullText, Sets
  <2> QED
    BY <2>1, <2>2, <2>3, SameMoves
<1>5. ASSUME NEW r \in Records, Cite(r) PROVE (\A q \in Records : Moves(q)) /\ row' = [q \in Records |-> row'[q]]
  <2>1. /\ Becomes(row'[r], row[r].state, row[r].ver, row[r].emb, row[r].found)
        /\ \A q \in Records \ {r} : row'[q] = row[q]
    BY <1>5, CiteIs
  <2>2. Moves(r)
    BY <1>0, <2>1, StateMoves
  <2>3. row' = [q \in Records |-> row'[q]]
    BY <1>5, TypeParts DEF Cite, Sets
  <2> QED
    BY <2>1, <2>2, <2>3, SameMoves
<1>6. ASSUME NEW r \in Records, WeeklyWrite(r) \/ HarvestPage(r)
      PROVE  (\A q \in Records : Moves(q)) /\ row' = [q \in Records |-> row'[q]]
  BY <1>6, WeeklyWriteIs, HarvestPageIs, WriteMoves
<1>7. ASSUME NEW o \in Owners, PostFound(o) PROVE (\A q \in Records : Moves(q)) /\ row' = [q \in Records |-> row'[q]]
  <2>1. \A q \in Records : Moves(q)
    BY <1>0, <1>7, PostFoundIs, StateMoves
  <2> QED
    BY <1>7, <2>1 DEF PostFound
<1>8. ASSUME NEW o \in Owners, PostPromote(o) PROVE (\A q \in Records : Moves(q)) /\ row' = [q \in Records |-> row'[q]]
  <2>1. ASSUME NEW q \in Records PROVE Moves(q)
    <3>1. PICK s : s = IF row[q].found /\ row[q].state = "discovered" THEN "metadata_done" ELSE row[q].state
      OBVIOUS
    <3>2. Becomes(row'[q], s, row[q].ver, row[q].emb, row[q].found)
      BY <1>8, <3>1, PostPromoteIs
    <3>3. s \in DOMAIN Rank /\ (s # row[q].state =>
             row[q].state # "absent" /\ s # "absent" /\ Rank[s] >= Rank[row[q].state])
      BY <1>0, <3>1, RankIs
    <3> QED
      BY <3>2, <3>3, StateMoves
  <2> QED
    BY <1>8, <2>1 DEF PostPromote
<1>9. ASSUME NEW o \in Owners, PostEmbedApply(o) PROVE (\A q \in Records : Moves(q)) /\ row' = [q \in Records |-> row'[q]]
  <2>1. \A q \in Records : Moves(q)
    BY <1>0, <1>9, PostEmbedApplyIs, StateMoves
  <2> QED
    BY <1>9, <2>1 DEF PostEmbedApply
<1>10. ASSUME NEW o \in Owners, PostScoreStore(o) PROVE (\A q \in Records : Moves(q)) /\ row' = [q \in Records |-> row'[q]]
  <2>1. ASSUME NEW q \in Records PROVE Moves(q)
    <3>1. PICK s : s = IF q \in DOMAIN post[o].taken THEN Scored(row[q].state) ELSE row[q].state
      OBVIOUS
    <3>2. Becomes(row'[q], s, row[q].ver, row[q].emb, row[q].found)
      BY <1>10, <3>1, PostScoreStoreIs
    <3>3. s \in DOMAIN Rank /\ (s # row[q].state =>
             row[q].state # "absent" /\ s # "absent" /\ Rank[s] >= Rank[row[q].state])
      BY <1>0, <3>1, RankIs DEF Scored
    <3> QED
      BY <3>2, <3>3, StateMoves
  <2> QED
    BY <1>10, <2>1 DEF PostScoreStore
<1> QED
  BY <1>2, <1>3, <1>4, <1>5, <1>6, <1>7, <1>8, <1>9, <1>10, NextIs

-----------------------------------------------------------------------------
\* post_harvest, step by step.

\* After a step, one post_harvest is at another step and the other is where it was.
PostAt(o, s, t) ==
    /\ PostOK' /\ post'[o].at = s /\ post'[o].taken = t
    /\ \A q \in Owners \ {o} : post'[q] = post[q]

LEMMA PostSet ==
  ASSUME PostOK, NEW o \in Owners, NEW s \in PostSteps, NEW D \in SUBSET Records, NEW t \in [D -> Nat],
         post' = [post EXCEPT ![o] = [at |-> s, taken |-> t]]
  PROVE  PostAt(o, s, t)
<1>1. post = [q \in Owners |-> post[q]]
  BY DEF PostOK
<1>2. post'[o] = [at |-> s, taken |-> t] /\ \A q \in Owners \ {o} : post'[q] = post[q]
  BY <1>1
<1>3. post' = [q \in Owners |-> post'[q]]
  BY <1>1
<1>4. \A q \in Owners \ {o} : post[q] = [at |-> post[q].at, taken |-> post[q].taken]
  <2>1. \A q \in Owners : post[q] = [at |-> post[q].at, taken |-> post[q].taken]
    BY DEF PostOK
  <2> QED
    BY <2>1
<1>5. ASSUME NEW q \in Owners
      PROVE  /\ post'[q] = [at |-> post'[q].at, taken |-> post'[q].taken]
             /\ post'[q].at \in PostSteps /\ DOMAIN post'[q].taken \subseteq Records
             /\ post'[q].taken \in [DOMAIN post'[q].taken -> Nat]
  <2>1. CASE q = o
    BY <1>2, <2>1
  <2>2. CASE q # o
    BY <1>2, <1>4, <2>2 DEF PostOK
  <2> QED
    BY <2>1, <2>2
<1>6. post' = [q \in Owners |-> [at |-> post'[q].at, taken |-> post'[q].taken]]
  BY <1>3, <1>5
<1> QED
  BY <1>2, <1>5, <1>6 DEF PostOK, PostAt

LEMMA PostGoes ==
  ASSUME PostOK, NEW o \in Owners, NEW s \in PostSteps, post' = [post EXCEPT ![o].at = s]
  PROVE  PostAt(o, s, post[o].taken)
<1>1. PICK t : t = post[o].taken
  OBVIOUS
<1>2. post[o] = [at |-> post[o].at, taken |-> t] /\ DOMAIN t \subseteq Records /\ t \in [DOMAIN t -> Nat]
  BY <1>1 DEF PostOK
<1>3. PICK p : p = [post[o] EXCEPT !.at = s]
  OBVIOUS
<1>4. p = [at |-> s, taken |-> t]
  BY <1>2, <1>3
<1>5. post' = [post EXCEPT ![o] = p]
  BY <1>3
<1>6. post' = [post EXCEPT ![o] = [at |-> s, taken |-> t]]
  BY <1>4, <1>5
<1> QED
  BY <1>1, <1>2, <1>6, PostSet

LEMMA PostSteps1 ==
  ASSUME TypeOK
  PROVE  /\ WeeklyStamp => PostAt("weekly", "found", post["weekly"].taken)
         /\ \A d : PostStart(d) => PostAt("job", "found", post["job"].taken)
         /\ \A o \in Owners :
              /\ PostFound(o) => PostAt(o, "promote", post[o].taken)
              /\ PostPromote(o) => PostAt(o, "embed", post[o].taken)
<1>0. PostOK /\ "weekly" \in Owners /\ "job" \in Owners /\ {"found", "promote", "embed"} \subseteq PostSteps
  BY DEF TypeOK, Owners, PostSteps
<1>1. ASSUME WeeklyStamp PROVE PostAt("weekly", "found", post["weekly"].taken)
  <2>1. post' = [post EXCEPT !["weekly"].at = "found"]
    BY <1>1 DEF WeeklyStamp
  <2> QED
    BY <1>0, <2>1, PostGoes
<1>2. ASSUME NEW d, PostStart(d) PROVE PostAt("job", "found", post["job"].taken)
  <2>1. post' = [post EXCEPT !["job"].at = "found"]
    BY <1>2 DEF PostStart
  <2> QED
    BY <1>0, <2>1, PostGoes
<1>3. ASSUME NEW o \in Owners, PostFound(o) PROVE PostAt(o, "promote", post[o].taken)
  <2>1. post' = [post EXCEPT ![o].at = "promote"]
    BY <1>3 DEF PostFound
  <2> QED
    BY <1>0, <2>1, PostGoes
<1>4. ASSUME NEW o \in Owners, PostPromote(o) PROVE PostAt(o, "embed", post[o].taken)
  <2>1. post' = [post EXCEPT ![o].at = "embed"]
    BY <1>4 DEF PostPromote
  <2> QED
    BY <1>0, <2>1, PostGoes
<1> QED
  BY <1>1, <1>2, <1>3, <1>4

NoneTaken == [r \in {} |-> 0]
TextsNow == [r \in Unembedded |-> row[r].ver]
Unscored == [r \in {q \in Records : row[q].state = "metadata_done"} |-> 0]

LEMMA PostSteps2 ==
  ASSUME TypeOK, NEW o \in Owners
  PROVE  /\ PostEmbedRead(o) => PostAt(o, "apply", TextsNow)
         /\ PostEmbedApply(o) => PostAt(o, "score", NoneTaken)
         /\ PostScoreRead(o) => PostAt(o, "store", Unscored)
         /\ PostScoreStore(o) => PostAt(o, "idle", NoneTaken)
         /\ PostCrash(o) => PostAt(o, "idle", NoneTaken)
<1>0. PostOK /\ {"idle", "apply", "score", "store"} \subseteq PostSteps /\ {} \in SUBSET Records
  BY DEF TypeOK, PostSteps
<1>1. NoneTaken \in [{} -> Nat]
  BY DEF NoneTaken
<1>2. Unembedded \in SUBSET Records /\ TextsNow \in [Unembedded -> Nat]
  BY TypeParts DEF Unembedded, TextsNow
<1>3. Unscored \in [{q \in Records : row[q].state = "metadata_done"} -> Nat]
      /\ {q \in Records : row[q].state = "metadata_done"} \in SUBSET Records
  BY DEF Unscored
<1>4. [NoPost EXCEPT !.at = "score"] = [at |-> "score", taken |-> NoneTaken]
  BY DEF NoPost, NoneTaken
<1>5. ASSUME PostEmbedRead(o) PROVE PostAt(o, "apply", TextsNow)
  <2>1. post' = [post EXCEPT ![o] = [at |-> "apply", taken |-> TextsNow]]
    BY <1>5 DEF PostEmbedRead, TextsNow
  <2> QED
    BY <1>0, <1>2, <2>1, PostSet
<1>6. ASSUME PostEmbedApply(o) PROVE PostAt(o, "score", NoneTaken)
  <2>1. post' = [post EXCEPT ![o] = [at |-> "score", taken |-> NoneTaken]]
    BY <1>4, <1>6 DEF PostEmbedApply
  <2> QED
    BY <1>0, <1>1, <2>1, PostSet
<1>7. ASSUME PostScoreRead(o) PROVE PostAt(o, "store", Unscored)
  <2>1. post' = [post EXCEPT ![o] = [at |-> "store", taken |-> Unscored]]
    BY <1>7 DEF PostScoreRead, Unscored
  <2> QED
    BY <1>0, <1>3, <2>1, PostSet
<1>8. ASSUME PostScoreStore(o) \/ PostCrash(o) PROVE PostAt(o, "idle", NoneTaken)
  <2>1. post' = [post EXCEPT ![o] = [at |-> "idle", taken |-> NoneTaken]]
    BY <1>8 DEF PostScoreStore, PostCrash, NoPost, NoneTaken
  <2> QED
    BY <1>0, <1>1, <2>1, PostSet
<1> QED
  BY <1>5, <1>6, <1>7, <1>8

\* The steps that leave post_harvest alone.
NoPostStep ==
    \/ NewDay \/ Snapshot \/ (\E r \in InWindow : Change(r))
    \/ (\E r \in Records : Discover(r) \/ GetFullText(r) \/ Cite(r) \/ WeeklyWrite(r) \/ HarvestPage(r))
    \/ WeeklyStart \/ WeeklyMark \/ WeeklyCrash
    \/ QueueHarvest \/ HarvestEnd \/ HarvestFail
    \/ (\E d \in 0..(MaxDay + 1) : HarvestStart(d) \/ PostForgotten(d))

LEMMA NoPostStepIs == NoPostStep => UNCHANGED post
BY DEF NoPostStep, NewDay, Snapshot, Change, Discover, GetFullText, Cite, Sets, WeeklyWrite, HarvestPage, WeeklyStart,
       WeeklyMark, WeeklyCrash, QueueHarvest, HarvestEnd, HarvestFail, HarvestStart, PostForgotten

LEMMA NextIsPost ==
  ASSUME Next
  PROVE  \/ NoPostStep \/ WeeklyStamp
         \/ \E d \in 0..(MaxDay + 1) : PostStart(d)
         \/ \E o \in Owners : \/ PostFound(o) \/ PostPromote(o) \/ PostEmbedRead(o) \/ PostEmbedApply(o)
                              \/ PostScoreRead(o) \/ PostScoreStore(o) \/ PostCrash(o)
BY DEF Next, NoPostStep

LEMMA PostTyping ==
  ASSUME TypeOK, Next
  PROVE  PostOK' /\ (post["weekly"].at = "idle" => WeeklyStamp \/ post'["weekly"].at = "idle")
<1>0. PostOK
  BY DEF TypeOK
<1>1. CASE NoPostStep
  <2>1. post' = post
    BY <1>1, NoPostStepIs
  <2> QED
    BY <1>0, <2>1 DEF PostOK
<1>2. CASE WeeklyStamp
  BY <1>2, PostSteps1 DEF PostAt
<1>3. ASSUME NEW d, PostStart(d) PROVE PostOK' /\ post'["weekly"] = post["weekly"]
  BY <1>3, PostSteps1 DEF PostAt, Owners
<1>4. ASSUME NEW o \in Owners,
             \/ PostFound(o) \/ PostPromote(o) \/ PostEmbedRead(o) \/ PostEmbedApply(o)
             \/ PostScoreRead(o) \/ PostScoreStore(o) \/ PostCrash(o)
      PROVE  PostOK' /\ post[o].at # "idle" /\ \A q \in Owners \ {o} : post'[q] = post[q]
  <2>1. post[o].at # "idle"
    BY <1>4 DEF PostFound, PostPromote, PostEmbedRead, PostEmbedApply, PostScoreRead, PostScoreStore, PostCrash
  <2>2. PostOK' /\ \A q \in Owners \ {o} : post'[q] = post[q]
    BY <1>4, PostSteps1, PostSteps2 DEF PostAt
  <2> QED
    BY <2>1, <2>2
<1> QED
  BY <1>1, <1>2, <1>3, <1>4, NextIsPost DEF Owners

-----------------------------------------------------------------------------
\* Types.

OutsideOK == today \in Nat /\ source \in [Records -> Texts] /\ zip \in [copy : [Records -> Texts], stamp : Nat]
MarksOK   == marks \in [day : NoDay..today, stamp : 0..zip.stamp, harvest : NoDay..today]
JobsOK    == jobs \in [queued : SUBSET (0..today), taken : SUBSET (0..today)] /\ jobs.queued \subseteq jobs.taken
HistoryOK == mixed \in SUBSET Records /\ older \in SUBSET Records /\ happened \in SUBSET FaultKinds

LEMMA AllParts == TypeOK <=> OutsideOK /\ RowsOK /\ MarksOK /\ WeeklyOK /\ HarvestOK /\ PostOK /\ JobsOK /\ HistoryOK
BY DEF TypeOK, OutsideOK, RowsOK, MarksOK, JobsOK, HistoryOK, Papers

\* What happens outside.
LEMMA OutsideStep ==
  ASSUME TypeOK, Next
  PROVE  /\ OutsideOK' /\ today <= today' /\ Texts \subseteq Texts'
         /\ \A r \in Records : \/ source'[r] = source[r]
                               \/ source'[r].ver = source[r].ver + 1 /\ source'[r].day = today /\ today' = today
                                  /\ UNCHANGED <<zip, row, marks, weekly, harvest, older>>
         /\ \/ zip' = zip
            \/ /\ zip'.copy = source /\ zip'.stamp = zip.stamp + 1
               /\ UNCHANGED <<today, source, row, marks, weekly, harvest, older>>
<1>0. OutsideOK
  BY AllParts
<1>1. CASE UNCHANGED outside
  BY <1>0, <1>1 DEF outside, OutsideOK, Texts
<1>2. CASE NewDay
  <2>1. today' = today + 1 /\ UNCHANGED <<source, zip>>
    BY <1>2 DEF NewDay
  <2>2. today' \in Nat /\ today <= today'
    BY <1>0, <2>1 DEF OutsideOK
  <2>3. Texts \subseteq Texts'
    BY <1>0, <2>1 DEF OutsideOK, Texts
  <2>4. OutsideOK'
    <3>1. source' \in [Records -> Texts'] /\ zip' \in [copy : [Records -> Texts'], stamp : Nat]
      BY <1>0, <2>1, <2>3 DEF OutsideOK
    <3> QED
      BY <2>2, <3>1 DEF OutsideOK
  <2> QED
    BY <2>1, <2>2, <2>3, <2>4
<1>3. ASSUME NEW r \in InWindow, Change(r)
      PROVE  /\ OutsideOK' /\ today <= today' /\ Texts \subseteq Texts'
             /\ \A q \in Records : \/ source'[q] = source[q]
                                   \/ source'[q].ver = source[q].ver + 1 /\ source'[q].day = today /\ today' = today
             /\ UNCHANGED <<zip, row, marks, weekly, harvest, older>>
  <2>0. r \in Records
    BY ConstantsOK
  <2>1. PICK n : n = [ver |-> source[r].ver + 1, day |-> today]
    OBVIOUS
  <2>2. source' = [source EXCEPT ![r] = n] /\ UNCHANGED <<today, zip, row, marks, weekly, harvest, older>>
    BY <1>3, <2>1 DEF Change, history
  <2>3. source[r].ver \in Nat /\ today \in Nat
    BY <2>0, TypeParts
  <2>4. n \in Texts
    BY <2>1, <2>3 DEF Texts
  <2>5. source \in [Records -> Texts] /\ zip \in [copy : [Records -> Texts], stamp : Nat]
    BY <1>0 DEF OutsideOK
  <2>6. source' \in [Records -> Texts]
    BY <2>2, <2>4, <2>5
  <2>7. Texts' = Texts
    BY <2>2 DEF Texts
  <2>8. \A q \in Records : source'[q] = IF q = r THEN n ELSE source[q]
    BY <2>2, <2>5
  <2> QED
    BY <2>1, <2>2, <2>3, <2>5, <2>6, <2>7, <2>8 DEF OutsideOK
<1>4. CASE Snapshot
  <2>1. PICK z : z = [copy |-> source, stamp |-> zip.stamp + 1]
    OBVIOUS
  <2>2. zip' = z /\ UNCHANGED <<today, source, row, marks, weekly, harvest, older>>
    BY <1>4, <2>1 DEF Snapshot, history
  <2>3. source \in [Records -> Texts] /\ zip.stamp \in Nat /\ today \in Nat
    BY <1>0 DEF OutsideOK
  <2>4. z \in [copy : [Records -> Texts], stamp : Nat] /\ z.copy = source /\ z.stamp = zip.stamp + 1
    BY <2>1, <2>3
  <2>5. Texts' = Texts
    BY <2>2 DEF Texts
  <2> QED
    BY <2>2, <2>3, <2>4, <2>5 DEF OutsideOK
<1>5. \/ UNCHANGED outside \/ NewDay \/ Snapshot \/ \E r \in InWindow : Change(r)
  BY DEF Next, outside, Discover, GetFullText, Cite, Sets, WeeklyWrite, HarvestPage, WeeklyStart,
         WeeklyMark, WeeklyStamp, WeeklyCrash, QueueHarvest, HarvestEnd, HarvestFail, HarvestStart,
         PostStart, PostForgotten, PostFound, PostPromote, PostEmbedRead, PostEmbedApply, PostScoreRead,
         PostScoreStore, PostCrash
<1>6. CASE \E r \in InWindow : Change(r)
  BY <1>3, <1>6
<1> QED
  BY <1>1, <1>2, <1>4, <1>5, <1>6

LEMMA DayOf ==
  ASSUME NEW copy \in [Records -> Texts], today \in Nat, Known(copy) # {}
  PROVE  /\ Max({copy[r].day : r \in Known(copy)}) \in 0..today
         /\ \E r \in Known(copy) : copy[r].day = Max({copy[q].day : q \in Known(copy)})
         /\ \A r \in Known(copy) : copy[r].day <= Max({copy[q].day : q \in Known(copy)})
<1>1. PICK S : S = {copy[r].day : r \in Known(copy)}
  OBVIOUS
<1>2. S \in SUBSET (0..today) /\ S # {}
  BY <1>1 DEF Known, Texts
<1>3. Max(S) \in S /\ \A x \in S : x <= Max(S)
  BY <1>2, LastDay
<1> QED
  BY <1>1, <1>2, <1>3

\* What a step does to the marks.
LEMMA MarksStep ==
  ASSUME TypeOK, Next
  PROVE  /\ MarksOK'
         /\ \/ marks' = marks
            \/ /\ WeeklyMark /\ Known(weekly.copy) # {}
               /\ marks'.day = Max({weekly.copy[r].day : r \in Known(weekly.copy)})
               /\ marks'.stamp = marks.stamp /\ marks'.harvest = marks.harvest
            \/ /\ WeeklyStamp /\ marks'.stamp = weekly.stamp
               /\ marks'.day = marks.day /\ marks'.harvest = marks.harvest
            \/ /\ HarvestEnd /\ marks'.harvest = harvest.run.started
               /\ marks'.day = marks.day /\ marks'.stamp = marks.stamp
<1>0. MarksOK /\ today \in Nat /\ zip.stamp \in Nat
  BY AllParts DEF OutsideOK
<1>1. today' \in Nat /\ today <= today' /\ zip'.stamp \in Nat /\ zip.stamp <= zip'.stamp
  BY <1>0, OutsideStep DEF OutsideOK
<1>2. marks \in [day : NoDay..today', stamp : 0..zip'.stamp, harvest : NoDay..today']
  BY <1>0, <1>1 DEF MarksOK, NoDay
<1>3. CASE marks' = marks
  BY <1>2, <1>3 DEF MarksOK
<1>4. CASE WeeklyMark /\ marks' # marks
  <2>1. weekly.copy \in [Records -> Texts] /\ Known(weekly.copy) # {}
    BY <1>4 DEF WeeklyMark, TypeOK, WeeklyOK
  <2>2. PICK d : d = Max({weekly.copy[r].day : r \in Known(weekly.copy)})
    OBVIOUS
  <2>3. d \in 0..today
    BY <1>0, <2>1, <2>2, DayOf
  <2>4. marks' = [marks EXCEPT !.day = d]
    BY <1>4, <2>1, <2>2 DEF WeeklyMark
  <2>5. d \in NoDay..today'
    BY <1>0, <1>1, <2>3 DEF NoDay
  <2>6. /\ marks' \in [day : NoDay..today', stamp : 0..zip'.stamp, harvest : NoDay..today']
        /\ marks'.day = d /\ marks'.stamp = marks.stamp /\ marks'.harvest = marks.harvest
    BY <1>2, <2>4, <2>5
  <2> QED
    BY <1>4, <2>1, <2>2, <2>6 DEF MarksOK
<1>5. CASE WeeklyStamp
  <2>1. weekly.stamp \in 0..zip.stamp /\ marks' = [marks EXCEPT !.stamp = weekly.stamp]
    BY <1>5 DEF WeeklyStamp, TypeOK, WeeklyOK
  <2>2. weekly.stamp \in 0..zip'.stamp
    BY <1>0, <1>1, <2>1
  <2>3. /\ marks' \in [day : NoDay..today', stamp : 0..zip'.stamp, harvest : NoDay..today']
        /\ marks'.stamp = weekly.stamp /\ marks'.day = marks.day /\ marks'.harvest = marks.harvest
    BY <1>2, <2>1, <2>2
  <2> QED
    BY <1>5, <2>3 DEF MarksOK
<1>6. CASE HarvestEnd
  <2>1. harvest.run.started \in NoDay..today
    BY DEF TypeOK, HarvestOK
  <2>2. marks' = [marks EXCEPT !.harvest = harvest.run.started]
    BY <1>6 DEF HarvestEnd, Marked
  <2>3. harvest.run.started \in NoDay..today'
    BY <1>0, <1>1, <2>1 DEF NoDay
  <2>4. /\ marks' \in [day : NoDay..today', stamp : 0..zip'.stamp, harvest : NoDay..today']
        /\ marks'.harvest = harvest.run.started /\ marks'.day = marks.day /\ marks'.stamp = marks.stamp
    BY <1>2, <2>2, <2>3
  <2> QED
    BY <1>6, <2>4 DEF MarksOK
<1>7. marks' = marks \/ WeeklyMark \/ WeeklyStamp \/ HarvestEnd
  BY DEF Next, NewDay, Snapshot, Change, Discover, GetFullText, Cite, Sets, WeeklyWrite, HarvestPage, WeeklyStart,
         WeeklyCrash, QueueHarvest, HarvestFail, HarvestStart,
         PostStart, PostForgotten, PostFound, PostPromote, PostEmbedRead, PostEmbedApply, PostScoreRead,
         PostScoreStore, PostCrash
<1> QED
  BY <1>3, <1>4, <1>5, <1>6, <1>7

\* What a step does to the weekly pass.
LEMMA WeeklyStep ==
  ASSUME TypeOK, Next
  PROVE  /\ WeeklyOK'
         /\ \/ weekly' = weekly
            \/ (WeeklyStamp \/ WeeklyCrash) /\ weekly'.at = "idle"
            \/ /\ WeeklyStart /\ weekly'.at = "read" /\ weekly'.copy = zip.copy
               /\ weekly'.todo = Since(zip.copy, marks.day) /\ weekly'.stamp = zip.stamp
            \/ /\ weekly.at = "read" /\ weekly'.at = "read" /\ weekly'.copy = weekly.copy /\ weekly'.stamp = weekly.stamp
               /\ \E r \in Records : WeeklyWrite(r) /\ weekly'.todo = weekly.todo \ {r}
            \/ /\ WeeklyMark /\ weekly.at = "read" /\ weekly.todo = {} /\ weekly'.at = "stamp"
               /\ weekly'.copy = weekly.copy /\ weekly'.todo = weekly.todo /\ weekly'.stamp = weekly.stamp
<1>0. OutsideOK /\ OutsideOK' /\ WeeklyOK /\ Texts \subseteq Texts' /\ MarksOK /\ MarksOK'
  BY AllParts, OutsideStep, MarksStep
<1>1. zip.stamp \in Nat /\ zip'.stamp \in Nat /\ zip.stamp <= zip'.stamp
  BY <1>0, OutsideStep DEF OutsideOK
<1>2. CASE weekly'.at = "idle" /\ (weekly' = weekly \/ WeeklyStamp \/ WeeklyCrash)
  BY <1>2 DEF WeeklyOK
<1>3. CASE weekly' = weekly /\ weekly.at # "idle"
  <2>1. /\ weekly = [at |-> weekly.at, copy |-> weekly.copy, todo |-> weekly.todo, stamp |-> weekly.stamp]
        /\ weekly.copy \in [Records -> Texts] /\ weekly.todo \subseteq Known(weekly.copy)
        /\ weekly.stamp \in 0..zip.stamp /\ marks.stamp <= weekly.stamp
        /\ post["weekly"].at = "idle" /\ weekly.at \in {"idle", "read", "stamp"}
    BY <1>0, <1>3 DEF WeeklyOK
  <2>2. weekly.copy \in [Records -> Texts']
    BY <1>0, <2>1
  <2>3. weekly.stamp \in 0..zip'.stamp
    BY <1>1, <2>1
  <2>4. ~WeeklyStamp
    BY <1>3 DEF WeeklyStamp, IdlePass
  <2>5. post'["weekly"].at = "idle" /\ marks'.stamp = marks.stamp
    BY <2>1, <2>4, PostTyping, MarksStep
  <2>6. Known(weekly.copy)' = Known(weekly'.copy)
    BY DEF Known
  <2> QED
    BY <1>3, <2>1, <2>2, <2>3, <2>5, <2>6 DEF WeeklyOK, Known
<1>4. CASE WeeklyStart
  <2>1. PICK w : w = [at |-> "read", copy |-> zip.copy, todo |-> Since(zip.copy, marks.day), stamp |-> zip.stamp]
    OBVIOUS
  <2>2. weekly' = w /\ post["weekly"].at = "idle" /\ UNCHANGED <<today, zip, marks, post>>
    BY <1>4, <2>1 DEF WeeklyStart, outside
  <2>3. zip.copy \in [Records -> Texts] /\ zip.stamp \in Nat /\ marks.stamp \in 0..zip.stamp
    BY <1>0 DEF OutsideOK, MarksOK
  <2>4. Since(zip.copy, marks.day) \subseteq Known(zip.copy)
    BY DEF Since
  <2>5. Texts' = Texts
    BY <2>2 DEF Texts
  <2>6. w.at = "read" /\ w.copy = zip.copy /\ w.todo = Since(zip.copy, marks.day) /\ w.stamp = zip.stamp
        /\ w = [at |-> w.at, copy |-> w.copy, todo |-> w.todo, stamp |-> w.stamp]
    BY <2>1
  <2>7. zip.stamp \in 0..zip.stamp /\ marks.stamp <= zip.stamp
    BY <2>3
  <2>8. WeeklyOK'
    BY <2>2, <2>3, <2>4, <2>5, <2>6, <2>7 DEF WeeklyOK, Known
  <2> QED
    BY <1>4, <2>2, <2>6, <2>8
<1>5. ASSUME NEW r \in Records, WeeklyWrite(r)
      PROVE  /\ WeeklyOK' /\ weekly.at = "read" /\ weekly'.at = "read"
             /\ weekly'.copy = weekly.copy /\ weekly'.stamp = weekly.stamp
             /\ weekly'.todo = weekly.todo \ {r}
  <2>1. weekly.at = "read" /\ weekly' = [weekly EXCEPT !.todo = weekly.todo \ {r}] /\ UNCHANGED <<today, zip, marks, post>>
    BY <1>5 DEF WeeklyWrite, outside
  <2>2. /\ weekly = [at |-> weekly.at, copy |-> weekly.copy, todo |-> weekly.todo, stamp |-> weekly.stamp]
        /\ weekly.copy \in [Records -> Texts] /\ weekly.todo \subseteq Known(weekly.copy)
        /\ weekly.stamp \in 0..zip.stamp /\ marks.stamp <= weekly.stamp
        /\ post["weekly"].at = "idle"
    BY <1>0, <2>1 DEF WeeklyOK
  <2>3. PICK t : t = weekly.todo \ {r}
    OBVIOUS
  <2>4. weekly' = [at |-> "read", copy |-> weekly.copy, todo |-> t, stamp |-> weekly.stamp]
    BY <2>1, <2>2, <2>3
  <2>5. /\ weekly'.at = "read" /\ weekly'.copy = weekly.copy /\ weekly'.stamp = weekly.stamp /\ weekly'.todo = t
        /\ weekly' = [at |-> weekly'.at, copy |-> weekly'.copy, todo |-> weekly'.todo, stamp |-> weekly'.stamp]
    BY <2>4
  <2>6. Texts' = Texts
    BY <2>1 DEF Texts
  <2>7. WeeklyOK'
    BY <2>1, <2>2, <2>3, <2>5, <2>6 DEF WeeklyOK, Known
  <2> QED
    BY <2>1, <2>3, <2>5, <2>7
<1>6. CASE WeeklyMark
  <2>1. weekly.at = "read" /\ weekly.todo = {} /\ weekly' = [weekly EXCEPT !.at = "stamp"] /\ UNCHANGED <<today, zip, post>>
    BY <1>6 DEF WeeklyMark, outside
  <2>2. /\ weekly = [at |-> weekly.at, copy |-> weekly.copy, todo |-> weekly.todo, stamp |-> weekly.stamp]
        /\ weekly.copy \in [Records -> Texts] /\ weekly.todo \subseteq Known(weekly.copy)
        /\ weekly.stamp \in 0..zip.stamp /\ marks.stamp <= weekly.stamp
        /\ post["weekly"].at = "idle"
    BY <1>0, <2>1 DEF WeeklyOK
  <2>3. weekly' = [at |-> "stamp", copy |-> weekly.copy, todo |-> weekly.todo, stamp |-> weekly.stamp]
    BY <2>1, <2>2
  <2>4. /\ weekly'.at = "stamp" /\ weekly'.copy = weekly.copy /\ weekly'.stamp = weekly.stamp /\ weekly'.todo = weekly.todo
        /\ weekly' = [at |-> weekly'.at, copy |-> weekly'.copy, todo |-> weekly'.todo, stamp |-> weekly'.stamp]
    BY <2>3
  <2>5. Texts' = Texts
    BY <2>1 DEF Texts
  <2>6. marks'.stamp = marks.stamp
    BY <1>6 DEF WeeklyMark
  <2>7. WeeklyOK'
    BY <2>1, <2>2, <2>4, <2>5, <2>6 DEF WeeklyOK, Known
  <2> QED
    BY <1>6, <2>1, <2>4, <2>7
<1>7. \/ UNCHANGED weekly \/ WeeklyStart \/ WeeklyMark \/ WeeklyCrash \/ WeeklyStamp
      \/ \E r \in Records : WeeklyWrite(r)
  BY DEF Next, NewDay, Snapshot, Change, Discover, GetFullText, Cite, Sets, HarvestPage, HarvestEnd,
         QueueHarvest, HarvestFail, HarvestStart,
         PostStart, PostForgotten, PostFound, PostPromote, PostEmbedRead, PostEmbedApply, PostScoreRead,
         PostScoreStore, PostCrash
<1>9. CASE WeeklyCrash \/ WeeklyStamp
  BY <1>2, <1>9 DEF WeeklyCrash, WeeklyStamp, IdlePass
<1>8. CASE \E r \in Records : WeeklyWrite(r)
  BY <1>5, <1>8
<1> QED
  BY <1>2, <1>3, <1>4, <1>6, <1>7, <1>8, <1>9

\* What a step does to the harvests.
LEMMA HarvestStep ==
  ASSUME TypeOK, Next
  PROVE  /\ HarvestOK'
         /\ \/ UNCHANGED harvest
            \/ /\ QueueHarvest /\ harvest'.run = harvest.run
               /\ \E ours \in {today, today + 1} : harvest'.queued = harvest.queued \cup {HarvestFrom(ours)}
            \/ /\ \E f \in harvest.queued :
                     /\ harvest'.queued = harvest.queued \ {f}
                     /\ harvest'.run.todo = {r \in Known(source) : source[r].day >= IF f > today THEN today ELSE f}
               /\ ~harvest.run.on /\ harvest'.run.on /\ harvest'.run.started = today
               /\ UNCHANGED <<today, source, row, marks, older>>
            \/ /\ harvest'.run = NoHarvest /\ harvest'.queued = harvest.queued
               /\ HarvestEnd \/ HarvestFail
            \/ /\ harvest'.queued = harvest.queued /\ harvest.run.on /\ harvest'.run.on
               /\ harvest'.run.started = harvest.run.started
               /\ \E r \in Records : HarvestPage(r) /\ harvest'.run.todo = harvest.run.todo \ {r}
<1> DEFINE Runs == [on : BOOLEAN, from : Nat \cup {NoDay}, started : NoDay..today, todo : SUBSET Records]
           Harvests == [queued : SUBSET Nat, count : Nat, run : Runs]
<1>0. OutsideOK /\ OutsideOK' /\ HarvestOK /\ MarksOK /\ MarksOK' /\ today <= today' /\ today \in Nat /\ today' \in Nat
  BY AllParts, OutsideStep, MarksStep DEF OutsideOK
<1>1. /\ harvest \in Harvests /\ harvest.run \in Runs
      /\ harvest = [queued |-> harvest.queued, count |-> harvest.count, run |-> harvest.run]
      /\ harvest.queued \in SUBSET Nat /\ harvest.count \in Nat
  BY <1>0 DEF HarvestOK
<1>2. Known(source) \subseteq Known(source')
  <2> SUFFICES ASSUME NEW r \in Records, source[r].ver > 0 PROVE source'[r].ver > 0
    BY DEF Known
  <2>1. source[r].ver \in Nat /\ (source'[r] = source[r] \/ source'[r].ver = source[r].ver + 1)
    BY TypeParts, OutsideStep
  <2> QED
    BY <2>1
<1>3. CASE UNCHANGED harvest
  <2>1. NoDay..today \subseteq NoDay..today'
    BY <1>0 DEF NoDay
  <2>2. Runs \subseteq Runs'
    BY <2>1
  <2>3. harvest' \in Harvests'
    BY <1>1, <1>3, <2>2
  <2>4. harvest'.run.todo \subseteq Known(source')
    BY <1>0, <1>2, <1>3 DEF HarvestOK
  <2>5. harvest'.run.on => harvest'.run.started >= 0 /\ marks'.harvest <= harvest'.run.started
    <3>1. SUFFICES ASSUME harvest'.run.on PROVE harvest'.run.started >= 0 /\ marks'.harvest <= harvest'.run.started
      OBVIOUS
    <3>2. ~HarvestEnd
      <4>1. SUFFICES ASSUME HarvestEnd PROVE FALSE
        OBVIOUS
      <4>2. harvest' = [queued |-> harvest.queued, count |-> harvest.count, run |-> NoHarvest]
        BY <1>1, <4>1 DEF HarvestEnd
      <4> QED
        BY <3>1, <4>2 DEF NoHarvest
    <3>3. marks'.harvest = marks.harvest
      BY <3>2, MarksStep
    <3> QED
      BY <1>0, <1>3, <3>1, <3>3 DEF HarvestOK
  <2> QED
    BY <1>3, <2>3, <2>4, <2>5 DEF HarvestOK
<1>4. CASE QueueHarvest
  <2>1. PICK ours \in {today, today + 1} :
           harvest' = [harvest EXCEPT !.queued = harvest.queued \cup {HarvestFrom(ours)}, !.count = harvest.count + 1]
    BY <1>4 DEF QueueHarvest
  <2>2. HarvestFrom(ours) \in Nat
    <3>1. PICK e \in Int : e = IF marks.harvest = NoDay THEN ours - FirstRunDays ELSE marks.harvest - 1
      BY <1>0, <2>1, ConstantsOK DEF MarksOK, NoDay
    <3> QED
      BY <3>1, MaxOfTwo DEF HarvestFrom
  <2>3. PICK q \in SUBSET Nat : q = harvest.queued \cup {HarvestFrom(ours)}
    BY <1>1, <2>2
  <2>4. PICK c \in Nat : c = harvest.count + 1
    BY <1>1
  <2>5. harvest' = [queued |-> q, count |-> c, run |-> harvest.run]
    BY <1>1, <2>1, <2>3, <2>4
  <2>6. harvest'.run = harvest.run /\ harvest'.queued = q /\ harvest' \in Harvests
    BY <1>1, <2>5
  <2>7. UNCHANGED <<today, source, marks>>
    BY <1>4 DEF QueueHarvest, outside
  <2>8. HarvestOK'
    BY <1>0, <2>6, <2>7 DEF HarvestOK, Known
  <2> QED
    BY <1>4, <2>1, <2>3, <2>6, <2>8
<1>5. ASSUME NEW f, HarvestStart(f)
      PROVE  /\ HarvestOK' /\ f \in harvest.queued
             /\ harvest'.queued = harvest.queued \ {f}
             /\ harvest'.run.todo = {r \in Known(source) : source[r].day >= IF f > today THEN today ELSE f}
             /\ ~harvest.run.on /\ harvest'.run.on /\ harvest'.run.started = today
             /\ UNCHANGED <<today, source, row, marks, older>>
  <2>1. PICK from : from = IF f > today THEN today ELSE f
    OBVIOUS
  <2>2. PICK todo : todo = {r \in Known(source) : source[r].day >= from}
    OBVIOUS
  <2>3. PICK run : run = [on |-> TRUE, from |-> from, started |-> today, todo |-> todo]
    OBVIOUS
  <2>4. harvest' = [harvest EXCEPT !.queued = harvest.queued \ {f}, !.run = run]
    BY <1>5, <2>1, <2>2, <2>3 DEF HarvestStart
  <2>5. f \in harvest.queued /\ ~harvest.run.on /\ UNCHANGED <<today, source, row, marks, older>>
    BY <1>5 DEF HarvestStart, outside, history
  <2>6. from \in Nat
    BY <1>0, <1>1, <2>1, <2>5
  <2>7. today \in NoDay..today /\ todo \in SUBSET Records
    BY <1>0, <2>2 DEF Known, NoDay
  <2>8. run \in Runs /\ run.on /\ run.started = today /\ run.todo = todo
    BY <2>3, <2>6, <2>7
  <2>9. PICK q \in SUBSET Nat : q = harvest.queued \ {f}
    BY <1>1
  <2>10. harvest' = [queued |-> q, count |-> harvest.count, run |-> run]
    BY <1>1, <2>4, <2>9
  <2>11. harvest' \in Harvests /\ harvest'.run = run /\ harvest'.queued = q
    BY <1>1, <2>8, <2>10
  <2>12. today >= 0 /\ marks.harvest <= today
    BY <1>0 DEF MarksOK
  <2>13. HarvestOK'
    BY <2>2, <2>5, <2>8, <2>11, <2>12 DEF HarvestOK, Known
  <2> QED
    BY <2>1, <2>2, <2>5, <2>8, <2>9, <2>11, <2>13
<1>6. ASSUME HarvestEnd \/ HarvestFail
      PROVE  HarvestOK' /\ harvest'.run = NoHarvest /\ harvest'.queued = harvest.queued
  <2>1. harvest' = [harvest EXCEPT !.run = NoHarvest] /\ UNCHANGED <<today, source>>
    BY <1>6 DEF HarvestEnd, HarvestFail, outside
  <2>2. NoHarvest \in Runs /\ ~NoHarvest.on /\ NoHarvest.todo = {}
    BY <1>0 DEF NoHarvest, NoDay
  <2>3. harvest' = [queued |-> harvest.queued, count |-> harvest.count, run |-> NoHarvest]
    BY <1>1, <2>1
  <2>4. harvest' \in Harvests /\ harvest'.run = NoHarvest /\ harvest'.queued = harvest.queued
    BY <1>1, <2>2, <2>3
  <2>5. HarvestOK'
    BY <2>1, <2>2, <2>4 DEF HarvestOK, Known
  <2> QED
    BY <2>4, <2>5
<1>7. ASSUME NEW r \in Records, HarvestPage(r)
      PROVE  /\ HarvestOK' /\ harvest'.queued = harvest.queued /\ harvest.run.on /\ harvest'.run.on
             /\ harvest'.run.started = harvest.run.started /\ harvest'.run.todo = harvest.run.todo \ {r}
  <2>1. harvest.run.on /\ harvest' = [harvest EXCEPT !.run.todo = harvest.run.todo \ {r}] /\ UNCHANGED <<today, source, marks>>
    BY <1>7 DEF HarvestPage, outside
  <2>2. PICK run : run = [harvest.run EXCEPT !.todo = harvest.run.todo \ {r}]
    OBVIOUS
  <2>3. PICK old : old = harvest.run
    OBVIOUS
  <2>4. old \in Runs /\ run = [old EXCEPT !.todo = old.todo \ {r}] /\ old.on
    BY <1>1, <2>1, <2>2, <2>3
  <2>5. run \in Runs /\ run.on /\ run.started = old.started /\ run.todo = old.todo \ {r}
    BY <2>4
  <2>6. harvest' = [queued |-> harvest.queued, count |-> harvest.count, run |-> run]
    BY <1>1, <2>1, <2>2
  <2>7. harvest' \in Harvests /\ harvest'.run = run /\ harvest'.queued = harvest.queued
    BY <1>1, <2>5, <2>6
  <2>8. HarvestOK'
    BY <1>0, <2>1, <2>3, <2>5, <2>7 DEF HarvestOK, Known
  <2> QED
    BY <2>1, <2>3, <2>5, <2>7, <2>8
<1>8. \/ UNCHANGED harvest \/ QueueHarvest \/ HarvestEnd \/ HarvestFail
      \/ (\E f \in 0..(MaxDay + 1) : HarvestStart(f)) \/ \E r \in Records : HarvestPage(r)
  BY DEF Next, NewDay, Snapshot, Change, Discover, GetFullText, Cite, Sets, WeeklyWrite, WeeklyStart,
         WeeklyMark, WeeklyStamp, WeeklyCrash,
         PostStart, PostForgotten, PostFound, PostPromote, PostEmbedRead, PostEmbedApply, PostScoreRead,
         PostScoreStore, PostCrash
<1>9. CASE \E r \in Records : HarvestPage(r)
  BY <1>7, <1>9
<1>10. CASE \E f \in 0..(MaxDay + 1) : HarvestStart(f)
  BY <1>5, <1>10
<1> QED
  BY <1>3, <1>4, <1>6, <1>8, <1>9, <1>10

LEMMA JobsStep == ASSUME TypeOK, Next PROVE JobsOK'
<1>0. JobsOK /\ today \in Nat /\ today' \in Nat /\ today <= today'
  BY AllParts, OutsideStep DEF OutsideOK
<1>1. 0..today \subseteq 0..today'
  BY <1>0
<1>2. CASE UNCHANGED jobs
  BY <1>0, <1>1, <1>2 DEF JobsOK
<1>3. CASE HarvestEnd /\ ~UNCHANGED jobs
  <2>1. PICK d : d = harvest.run.started
    OBVIOUS
  <2>2. jobs' = [queued |-> jobs.queued \cup {d}, taken |-> jobs.taken \cup {d}]
    BY <1>3, <2>1 DEF HarvestEnd, Marked
  <2>3. d \in 0..today
    BY <1>0, <1>3, <2>1 DEF HarvestEnd, TypeOK, HarvestOK
  <2> QED
    BY <1>0, <1>1, <2>2, <2>3 DEF JobsOK
<1>4. ASSUME NEW d, PostStart(d) \/ PostForgotten(d) PROVE JobsOK'
  <2>1. CASE PostStart(d)
    <3>1. jobs' = [jobs EXCEPT !.queued = jobs.queued \ {d}]
      BY <2>1 DEF PostStart
    <3> QED
      BY <1>0, <1>1, <3>1 DEF JobsOK
  <2>2. CASE PostForgotten(d)
    <3>1. d \notin jobs.queued /\ jobs' = [jobs EXCEPT !.taken = jobs.taken \ {d}]
      BY <2>2 DEF PostForgotten
    <3> QED
      BY <1>0, <1>1, <3>1 DEF JobsOK
  <2> QED
    BY <1>4, <2>1, <2>2
<1>5. UNCHANGED jobs \/ HarvestEnd \/ \E d \in 0..(MaxDay + 1) : PostStart(d) \/ PostForgotten(d)
  BY DEF Next, NewDay, Snapshot, Change, Discover, GetFullText, Cite, Sets, WeeklyWrite, WeeklyStart,
         WeeklyMark, WeeklyStamp, WeeklyCrash, QueueHarvest, HarvestFail, HarvestStart, HarvestPage,
         PostFound, PostPromote, PostEmbedRead, PostEmbedApply, PostScoreRead, PostScoreStore, PostCrash
<1> QED
  BY <1>2, <1>3, <1>4, <1>5

LEMMA HistoryStep == ASSUME TypeOK, Next PROVE HistoryOK'
<1>0. HistoryOK
  BY AllParts
<1>1. happened' \in SUBSET FaultKinds
  <2>1. UNCHANGED happened \/ \E k \in FaultKinds : happened' = happened \cup {k}
    BY DEF Next, NewDay, Snapshot, Change, Discover, GetFullText, Cite, Sets, WeeklyWrite, WeeklyStart,
         WeeklyMark, WeeklyStamp, WeeklyCrash, QueueHarvest, HarvestFail, HarvestStart, HarvestPage, HarvestEnd,
         PostStart, PostForgotten, PostFound, PostPromote, PostEmbedRead, PostEmbedApply, PostScoreRead,
         PostScoreStore, PostCrash, Happens, FaultKinds
  <2> QED
    BY <1>0, <2>1 DEF HistoryOK
<1>2. mixed' \in SUBSET Records /\ older' \in SUBSET Records
  <2>1. \/ UNCHANGED <<mixed, older>>
        \/ \E r \in Records : mixed' \in {mixed, mixed \cup {r}} /\ older' \in {older, older \cup {r}, older \ {r}}
    BY DEF Next, NewDay, Snapshot, Change, Discover, GetFullText, Cite, Sets, WeeklyWrite, WeeklyStart, Write,
         WeeklyMark, WeeklyStamp, WeeklyCrash, QueueHarvest, HarvestFail, HarvestStart, HarvestPage, HarvestEnd,
         PostStart, PostForgotten, PostFound, PostPromote, PostEmbedRead, PostEmbedApply, PostScoreRead,
         PostScoreStore, PostCrash, history
  <2> QED
    BY <1>0, <2>1 DEF HistoryOK
<1> QED
  BY <1>1, <1>2 DEF HistoryOK

LEMMA TypingStep == ASSUME TypeOK, Next PROVE TypeOK'
<1>1. RowsOK'
  BY RowStep DEF RowsOK, Moves
<1>2. (OutsideOK /\ RowsOK /\ MarksOK /\ WeeklyOK /\ HarvestOK /\ PostOK /\ JobsOK /\ HistoryOK)'
  BY <1>1, OutsideStep, MarksStep, WeeklyStep, HarvestStep, PostTyping, JobsStep, HistoryStep
<1> QED
  BY <1>2 DEF TypeOK, OutsideOK, RowsOK, MarksOK, JobsOK, HistoryOK, Papers

LEMMA TypingStutters == ASSUME TypeOK, UNCHANGED vars PROVE TypeOK'
BY DEF TypeOK, vars, outside, history, WeeklyOK, HarvestOK, PostOK, Texts, Known

LEMMA TypingInit == Init => TypeOK
<1> SUFFICES ASSUME Init PROVE TypeOK
  OBVIOUS
<1>1. today = 0 /\ today \in Nat
  BY DEF Init
<1>2. source \in [Records -> Texts] /\ zip = [copy |-> source, stamp |-> 0]
  BY <1>1 DEF Init, Texts
<1>3. OutsideOK
  BY <1>1, <1>2 DEF OutsideOK
<1>4. RowsOK
  BY ConstantsOK, RankIs DEF Init, RowsOK, Papers
<1>5. MarksOK
  BY <1>1, <1>2 DEF Init, MarksOK, NoDay
<1>6. WeeklyOK
  BY DEF Init, WeeklyOK, IdlePass
<1>7. HarvestOK
  BY <1>1 DEF Init, HarvestOK, NoHarvest, NoDay
<1>8. PostOK
  <2>1. PICK t : t = [r \in {} |-> 0]
    OBVIOUS
  <2>2. t \in [{} -> Nat] /\ DOMAIN t = {}
    BY <2>1
  <2>3. post = [o \in Owners |-> [at |-> "idle", taken |-> t]]
    BY <2>1 DEF Init, NoPost
  <2>4. \A o \in Owners : /\ post[o].at \in PostSteps /\ DOMAIN post[o].taken \subseteq Records
                          /\ post[o].taken \in [DOMAIN post[o].taken -> Nat]
    BY <2>2, <2>3 DEF PostSteps
  <2>5. post = [o \in Owners |-> [at |-> post[o].at, taken |-> post[o].taken]]
    BY <2>3
  <2> QED
    BY <2>4, <2>5 DEF PostOK
<1>9. JobsOK /\ HistoryOK
  BY DEF Init, JobsOK, HistoryOK
<1> QED
  BY <1>3, <1>4, <1>5, <1>6, <1>7, <1>8, <1>9, AllParts

\* The types hold for all records, days and versions.
THEOREM Typing == Spec => []TypeOK
<1>1. Init => TypeOK
  BY TypingInit
<1>2. TypeOK /\ [Next]_vars => TypeOK'
  BY TypingStep, TypingStutters
<1> QED
  BY <1>1, <1>2, PTL DEF Spec

\* No step of any pass takes a paper back to an earlier state: not an upsert of a known paper,
\* not the scores of a post_harvest that are applied late (metadata.py _UPSERT, _APPLY).
THEOREM PapersGoOn == Spec => StateNeverGoesBack
<1>1. TypeOK /\ [Next]_vars => [\A r \in Records : Rank[row'[r].state] >= Rank[row[r].state]]_vars
  <2> SUFFICES ASSUME TypeOK, Next PROVE \A r \in Records : Rank[row'[r].state] >= Rank[row[r].state]
    OBVIOUS
  <2> QED
    BY RowStep DEF Moves
<1> QED
  BY <1>1, Typing, PTL DEF Spec, StateNeverGoesBack

-----------------------------------------------------------------------------
\* The marks of the weekly pass.

\* One copy of arXiv is as old as another or older: a record that differs changed after all
\* that the older one has.
Past(c, d) ==
    \A r \in Records : \/ c[r] = d[r]
                       \/ c[r].ver < d[r].ver /\ \A q \in Records : c[q].day <= d[r].day

\* The day that is remembered is the day of something in the copy, or earlier.
DayIn(copy) == marks.day = NoDay \/ \E q \in Records : copy[q].day >= marks.day

\* What a row lacks of a copy is not skipped in it.
NotPassed(copy) == \A r \in InWindow : row[r].ver < copy[r].ver => copy[r].day >= marks.day

\* What the pass under way has not written yet it is going to write.
WeeklyCovers == \A r \in InWindow : row[r].ver < weekly.copy[r].ver => r \in weekly.todo

WeeklyInv ==
    /\ Past(weekly.copy, zip.copy) /\ DayIn(weekly.copy) /\ WeeklyCovers
    /\ weekly.stamp = zip.stamp => weekly.copy = zip.copy

(***************************************************************************)
(* The inductive invariant behind the marks of the weekly pass: the copies *)
(* of arXiv that are about (that of the pass, Kaggle's, arXiv itself) are  *)
(* each the past of the next, and what the pass reads covers what rows     *)
(* lack of its copy.                                                       *)
(***************************************************************************)
SnapshotInv ==
    /\ Past(zip.copy, source) /\ DayIn(zip.copy) /\ NotPassed(zip.copy) /\ NothingPassedOver
    /\ weekly.at # "idle" => WeeklyInv
    /\ weekly.at = "stamp" => weekly.todo = {}
    /\ StampMeansIngested

Copies == [Records -> [ver : Nat, day : Nat]]

LEMMA CopiesOK ==
  ASSUME TypeOK
  PROVE  /\ source \in Copies /\ zip.copy \in Copies
         /\ weekly.at # "idle" => weekly.copy \in Copies
         /\ \A r \in Records : source[r].day <= today /\ zip.copy[r].day <= today
         /\ marks.day \in Int /\ marks.day <= today /\ today \in Nat /\ marks.day >= NoDay
         /\ marks.stamp \in Nat /\ zip.stamp \in Nat /\ marks.stamp <= zip.stamp
<1>1. today \in Nat /\ source \in [Records -> Texts] /\ zip.copy \in [Records -> Texts] /\ zip.stamp \in Nat
      /\ (weekly.at # "idle" => weekly.copy \in [Records -> Texts])
  BY DEF TypeOK, WeeklyOK
<1>2. Texts \subseteq [ver : Nat, day : Nat] /\ \A x \in Texts : x.day <= today
  BY <1>1 DEF Texts
<1>3. marks.day \in NoDay..today /\ marks.stamp \in 0..zip.stamp
  BY DEF TypeOK
<1>4. source \in Copies /\ zip.copy \in Copies /\ (weekly.at # "idle" => weekly.copy \in Copies)
  BY <1>1, <1>2 DEF Copies
<1>5. \A r \in Records : source[r].day <= today /\ zip.copy[r].day <= today
  BY <1>1, <1>2
<1> QED
  BY <1>1, <1>3, <1>4, <1>5 DEF NoDay

LEMMA PastFacts ==
  ASSUME NEW c \in Copies, NEW d \in Copies, Past(c, d)
  PROVE  \A r \in Records : /\ c[r].ver <= d[r].ver /\ c[r].day <= d[r].day
                            /\ c[r].ver < d[r].ver => \A q \in Records : c[q].day <= d[r].day
BY DEF Past, Copies

LEMMA PastTransitive ==
  ASSUME NEW a \in Copies, NEW b \in Copies, NEW c \in Copies, Past(a, b), Past(b, c)
  PROVE  Past(a, c)
<1> SUFFICES ASSUME NEW r \in Records
             PROVE  a[r] = c[r] \/ (a[r].ver < c[r].ver /\ \A q \in Records : a[q].day <= c[r].day)
  BY DEF Past
<1>1. \A q \in Records : /\ a[q].ver \in Nat /\ a[q].day \in Nat /\ b[q].ver \in Nat /\ b[q].day \in Nat
                         /\ c[q].ver \in Nat /\ c[q].day \in Nat /\ a[q].day <= b[q].day /\ b[q].day <= c[q].day
  BY PastFacts DEF Copies
<1>2. CASE b[r].ver < c[r].ver /\ \A q \in Records : b[q].day <= c[r].day
  <2>1. \A q \in Records : a[q].day <= c[r].day
    BY <1>1, <1>2
  <2>2. a[r].ver <= b[r].ver
    BY PastFacts
  <2> QED
    BY <1>1, <1>2, <2>1, <2>2
<1>3. CASE b[r] = c[r]
  BY <1>3 DEF Past
<1> QED
  BY <1>2, <1>3 DEF Past

LEMMA PastSame == \A c : Past(c, c)
BY DEF Past

LEMMA PastDays ==
  ASSUME TypeOK, NEW c \in Copies, NEW d \in Copies, Past(c, d), DayIn(c)
  PROVE  /\ DayIn(d)
         /\ \A r \in Records : c[r].ver < d[r].ver => d[r].day >= marks.day
<1>1. marks.day \in Int /\ \A q \in Records : c[q].day \in Nat /\ d[q].day \in Nat /\ c[q].day <= d[q].day
  BY CopiesOK, PastFacts DEF Copies
<1>2. CASE marks.day = NoDay
  BY <1>1, <1>2 DEF DayIn, NoDay
<1>3. CASE marks.day # NoDay
  <2>1. PICK q \in Records : c[q].day >= marks.day
    BY <1>3 DEF DayIn
  <2>2. DayIn(d)
    BY <1>1, <2>1 DEF DayIn
  <2>3. ASSUME NEW r \in Records, c[r].ver < d[r].ver PROVE d[r].day >= marks.day
    <3>1. c[q].day <= d[r].day
      BY <2>3, PastFacts
    <3> QED
      BY <1>1, <2>1, <3>1
  <2> QED
    BY <2>2, <2>3
<1> QED
  BY <1>2, <1>3

\* While a pass is under way, its copy is the past of arXiv too.
LEMMA WeeklyPast ==
  ASSUME TypeOK, SnapshotInv, weekly.at # "idle"
  PROVE  /\ weekly.copy \in Copies /\ Past(weekly.copy, zip.copy) /\ Past(weekly.copy, source)
         /\ DayIn(weekly.copy) /\ WeeklyCovers /\ (weekly.stamp = zip.stamp => weekly.copy = zip.copy)
<1>1. weekly.copy \in Copies /\ zip.copy \in Copies /\ source \in Copies
  BY CopiesOK
<1>2. Past(weekly.copy, zip.copy) /\ Past(zip.copy, source) /\ DayIn(weekly.copy) /\ WeeklyCovers
      /\ (weekly.stamp = zip.stamp => weekly.copy = zip.copy)
  BY DEF SnapshotInv, WeeklyInv
<1>3. Past(weekly.copy, source)
  BY <1>1, <1>2, PastTransitive
<1> QED
  BY <1>1, <1>2, <1>3

\* A new snapshot.
LEMMA SnapshotTaken ==
  ASSUME TypeOK, SnapshotInv, zip'.copy = source, zip'.stamp = zip.stamp + 1,
         UNCHANGED <<source, row, marks, weekly>>
  PROVE  SnapshotInv'
<1>1. source \in Copies /\ zip.copy \in Copies
  BY CopiesOK
<1>2. Past(zip'.copy, source')
  BY PastSame
<1>3. DayIn(source)
  BY <1>1, PastDays DEF SnapshotInv
<1>4. DayIn(zip.copy)'
  BY <1>3 DEF DayIn
<1>5. NotPassed(zip.copy)'
  BY DEF SnapshotInv, NotPassed, NothingPassedOver, Behind
<1>6. NothingPassedOver'
  BY DEF SnapshotInv, NothingPassedOver, Behind
<1>7. ASSUME weekly.at # "idle" PROVE WeeklyInv'
  <2>1. Past(weekly.copy, source) /\ DayIn(weekly.copy) /\ WeeklyCovers
    BY <1>7, WeeklyPast
  <2>2. weekly.stamp \in 0..zip.stamp /\ zip.stamp \in Nat
    BY <1>7, CopiesOK DEF TypeOK, WeeklyOK
  <2>3. weekly.stamp # zip'.stamp
    BY <2>2
  <2>4. Past(weekly'.copy, zip'.copy) /\ DayIn(weekly.copy)' /\ WeeklyCovers'
    BY <2>1 DEF DayIn, WeeklyCovers
  <2> QED
    BY <2>3, <2>4 DEF WeeklyInv
<1>8. marks'.stamp # zip'.stamp
  BY CopiesOK
<1>9. weekly'.at = "stamp" => weekly'.todo = {}
  BY DEF SnapshotInv
<1> QED
  BY <1>2, <1>4, <1>5, <1>6, <1>7, <1>8, <1>9 DEF SnapshotInv, StampMeansIngested

\* The pass remembers the last day of its copy, all of which is written.
LEMMA SnapshotMarked ==
  ASSUME TypeOK, SnapshotInv, Next, WeeklyMark, Known(weekly.copy) # {},
         marks'.day = Max({weekly.copy[r].day : r \in Known(weekly.copy)}), marks'.stamp = marks.stamp
  PROVE  SnapshotInv'
<1>0. UNCHANGED <<today, source, zip, row>> /\ weekly.at = "read" /\ weekly.todo = {}
      /\ weekly'.at = "stamp" /\ weekly'.copy = weekly.copy /\ weekly'.stamp = weekly.stamp /\ weekly'.todo = {}
  <2>1. UNCHANGED <<today, source, zip, row>> /\ weekly.at = "read" /\ weekly.todo = {} /\ weekly' = [weekly EXCEPT !.at = "stamp"]
    BY DEF WeeklyMark, outside
  <2>2. weekly = [at |-> weekly.at, copy |-> weekly.copy, todo |-> weekly.todo, stamp |-> weekly.stamp]
    BY <2>1 DEF TypeOK, WeeklyOK
  <2>3. weekly' = [at |-> "stamp", copy |-> weekly.copy, todo |-> weekly.todo, stamp |-> weekly.stamp]
    BY <2>1, <2>2
  <2> QED
    BY <2>1, <2>3
<1>1. /\ weekly.copy \in Copies /\ Past(weekly.copy, zip.copy) /\ Past(weekly.copy, source) /\ WeeklyCovers
      /\ (weekly.stamp = zip.stamp => weekly.copy = zip.copy) /\ source \in Copies /\ zip.copy \in Copies
  BY <1>0, WeeklyPast, CopiesOK
<1>2. weekly.copy \in [Records -> Texts] /\ today \in Nat
  BY <1>0 DEF TypeOK, WeeklyOK
<1>3. PICK q \in Known(weekly.copy) :
         /\ weekly.copy[q].day = marks'.day
         /\ \A r \in Known(weekly.copy) : weekly.copy[r].day <= marks'.day
  BY <1>2, DayOf
<1>4. q \in Records /\ marks'.day \in Nat
  BY <1>1, <1>3 DEF Known, Copies
<1>5. ASSUME NEW d \in Copies, Past(weekly.copy, d)
      PROVE  /\ \E p \in Records : d[p].day >= marks'.day
             /\ \A r \in InWindow : row[r].ver < d[r].ver => d[r].day >= marks'.day
  <2>1. weekly.copy[q].day <= d[q].day /\ d[q].day \in Nat
    BY <1>1, <1>4, <1>5, PastFacts DEF Copies
  <2>2. ASSUME NEW r \in InWindow, row[r].ver < d[r].ver PROVE d[r].day >= marks'.day
    <3>0. r \in Records
      BY ConstantsOK
    <3>1. row[r].ver \in Nat /\ weekly.copy[r].ver \in Nat /\ d[r].ver \in Nat /\ d[r].day \in Nat
      BY <1>1, <1>5, <3>0, TypeParts DEF Copies
    <3>2. ~(row[r].ver < weekly.copy[r].ver)
      BY <1>0, <1>1 DEF WeeklyCovers
    <3>3. weekly.copy[r].ver < d[r].ver
      BY <2>2, <3>1, <3>2
    <3>4. weekly.copy[q].day <= d[r].day
      BY <1>1, <1>4, <1>5, <3>0, <3>3, PastFacts
    <3> QED
      BY <1>3, <1>4, <3>1, <3>4
  <2> QED
    BY <1>3, <1>4, <2>1, <2>2
<1>6. DayIn(zip.copy)' /\ NotPassed(zip.copy)'
  BY <1>0, <1>1, <1>5 DEF DayIn, NotPassed
<1>7. NothingPassedOver'
  BY <1>0, <1>1, <1>5 DEF NothingPassedOver, Behind
<1>8. WeeklyInv'
  <2>1. DayIn(weekly.copy)'
    BY <1>0, <1>1, <1>5, PastSame DEF DayIn
  <2>2. WeeklyCovers'
    BY <1>0, <1>1 DEF WeeklyCovers
  <2> QED
    BY <1>0, <1>1, <2>1, <2>2 DEF WeeklyInv
<1>9. StampMeansIngested'
  BY <1>0 DEF SnapshotInv, StampMeansIngested
<1> QED
  BY <1>0, <1>1, <1>6, <1>7, <1>8, <1>9 DEF SnapshotInv

\* How a step moves the version of a row that lacks something of a copy: it does not.
LEMMA StillLacks ==
  ASSUME TypeOK, SnapshotInv, Next, NEW r \in Records, NEW c \in Copies, Past(c, source),
         weekly.at # "idle" => weekly.copy[r].ver >= c[r].ver, row'[r].ver < c[r].ver
  PROVE  row'[r].ver = row[r].ver
<1>1. VerMoves(r)
  BY RowStep DEF Moves
<1>2. c[r].ver <= source[r].ver /\ c[r].ver \in Nat /\ source[r].ver \in Nat
  BY CopiesOK, PastFacts DEF Copies
<1>3. WeeklyWrite(r) => weekly.at # "idle" /\ weekly.copy[r].ver \in Nat
  BY WeeklyWriteIs
<1> QED
  BY <1>1, <1>2, <1>3 DEF VerMoves

\* What a step that writes leaves lacking of a copy changed on or after the remembered day.
LEMMA WriteLacks ==
  ASSUME TypeOK, SnapshotInv, Next, NEW r \in Records, NEW c \in Copies, Past(zip.copy, c), Past(c, source),
         row[r].ver < c[r].ver => c[r].day >= marks.day, row'[r].ver < c[r].ver
  PROVE  c[r].day >= marks.day
<1>1. VerMoves(r)
  BY RowStep DEF Moves
<1>2. c[r].ver <= source[r].ver /\ c[r].ver \in Nat /\ source[r].ver \in Nat
  BY CopiesOK, PastFacts DEF Copies
<1>3. CASE WeeklyWrite(r) /\ row'[r].ver = weekly.copy[r].ver
  <2>1. weekly.at # "idle"
    BY <1>3, WeeklyWriteIs
  <2>2. weekly.copy \in Copies /\ zip.copy \in Copies /\ Past(weekly.copy, zip.copy) /\ DayIn(weekly.copy)
    BY <2>1, WeeklyPast, CopiesOK
  <2>3. Past(weekly.copy, c)
    BY <2>2, PastTransitive
  <2> QED
    BY <1>3, <2>2, <2>3, PastDays
<1> QED
  BY <1>1, <1>2, <1>3 DEF VerMoves

\* What the pass still has to write after a step.
LEMMA WeeklyCovered ==
  ASSUME TypeOK, SnapshotInv, Next, weekly.at # "idle",
         weekly'.copy = weekly.copy,
         weekly'.todo = weekly.todo \/ \E q \in Records : WeeklyWrite(q) /\ weekly'.todo = weekly.todo \ {q}
  PROVE  WeeklyCovers'
<1>1. weekly.copy \in Copies /\ Past(weekly.copy, source) /\ WeeklyCovers
  BY WeeklyPast
<1> SUFFICES ASSUME NEW r \in InWindow, row'[r].ver < weekly.copy[r].ver PROVE r \in weekly'.todo
  BY DEF WeeklyCovers
<1>2. r \in Records /\ weekly.copy[r].ver \in Nat
  BY <1>1, ConstantsOK DEF Copies
<1>3. row'[r].ver = row[r].ver
  BY <1>1, <1>2, StillLacks
<1>4. r \in weekly.todo
  BY <1>1, <1>3 DEF WeeklyCovers
<1>5. ASSUME NEW q \in Records, WeeklyWrite(q) PROVE r # q
  <2>1. Write(q, weekly.copy[q].ver) /\ weekly.copy[q].ver \in Nat
    BY <1>5, WeeklyWriteIs
  <2>2. q \in InWindow => row'[q].ver = weekly.copy[q].ver
    BY <2>1, WriteIs DEF Becomes
  <2> QED
    BY <1>2, <2>2
<1> QED
  BY <1>4, <1>5

\* A row that has all of the snapshot that is remembered keeps having it.
LEMMA StillIngested ==
  ASSUME TypeOK, SnapshotInv, Next, marks.stamp = zip.stamp, NEW r \in InWindow
  PROVE  row'[r].ver >= zip.copy[r].ver
<1>0. r \in Records
  BY ConstantsOK
<1>1. VerMoves(r) /\ Past(zip.copy, source) /\ row[r].ver >= zip.copy[r].ver
  BY <1>0, RowStep DEF Moves, SnapshotInv, StampMeansIngested
<1>2. zip.copy[r].ver <= source[r].ver /\ zip.copy[r].ver \in Nat /\ source[r].ver \in Nat
  BY <1>0, <1>1, CopiesOK, PastFacts DEF Copies
<1>3. CASE WeeklyWrite(r) /\ row'[r].ver = weekly.copy[r].ver
  <2>1. weekly.at # "idle"
    BY <1>0, <1>3, WeeklyWriteIs
  <2>2. weekly.stamp \in 0..zip.stamp /\ marks.stamp <= weekly.stamp /\ zip.stamp \in Nat
    BY <2>1 DEF TypeOK, WeeklyOK
  <2>3. weekly.copy = zip.copy
    BY <2>1, <2>2, WeeklyPast
  <2> QED
    BY <1>2, <1>3, <2>3
<1> QED
  BY <1>1, <1>2, <1>3 DEF VerMoves

LEMMA SnapshotRest ==
  ASSUME TypeOK, SnapshotInv, Next, zip' = zip, marks'.day = marks.day
  PROVE  SnapshotInv'
<1>0. /\ source \in Copies /\ zip.copy \in Copies /\ source' \in Copies
      /\ Past(zip.copy, source) /\ DayIn(zip.copy) /\ NotPassed(zip.copy) /\ NothingPassedOver
  <2>1. source' \in Copies
    BY TypingStep DEF TypeOK, Copies, Texts
  <2> QED
    BY <2>1, CopiesOK DEF SnapshotInv
<1>1. \A r \in Records : \/ source'[r] = source[r]
                         \/ source'[r].ver = source[r].ver + 1 /\ source'[r].day = today /\ row' = row
  BY OutsideStep
<1>2. Past(zip'.copy, source')
  <2> SUFFICES ASSUME NEW r \in Records, source'[r].ver = source[r].ver + 1, source'[r].day = today
               PROVE  zip.copy[r].ver < source'[r].ver /\ \A q \in Records : zip.copy[q].day <= source'[r].day
    BY <1>0, <1>1 DEF Past
  <2>1. zip.copy[r].ver <= source[r].ver /\ zip.copy[r].ver \in Nat /\ source[r].ver \in Nat
    BY <1>0, PastFacts DEF Copies
  <2> QED
    BY <2>1, CopiesOK
<1>3. DayIn(zip.copy)'
  BY <1>0 DEF DayIn
<1>4. NotPassed(zip.copy)'
  <2> SUFFICES ASSUME NEW r \in InWindow, row'[r].ver < zip.copy[r].ver PROVE zip.copy[r].day >= marks.day
    BY DEF NotPassed
  <2>1. r \in Records /\ (row[r].ver < zip.copy[r].ver => zip.copy[r].day >= marks.day)
    BY <1>0, ConstantsOK DEF NotPassed
  <2> QED
    BY <1>0, <2>1, PastSame, WriteLacks
<1>5. NothingPassedOver'
  <2> SUFFICES ASSUME NEW r \in InWindow, row'[r].ver < source'[r].ver PROVE source'[r].day >= marks.day
    BY DEF NothingPassedOver, Behind
  <2>0. r \in Records
    BY ConstantsOK
  <2>1. CASE source'[r] = source[r]
    <3>1. row[r].ver < source[r].ver => source[r].day >= marks.day
      BY <1>0 DEF NothingPassedOver, Behind
    <3> QED
      BY <1>0, <2>0, <2>1, <3>1, PastSame, WriteLacks
  <2>2. CASE source'[r].day = today
    BY <2>2, CopiesOK
  <2> QED
    BY <1>1, <2>0, <2>1, <2>2
<1>6. ASSUME weekly'.at # "idle" PROVE WeeklyInv' /\ (weekly'.at = "stamp" => weekly'.todo = {})
  <2>1. CASE weekly.at # "idle" /\ weekly'.copy = weekly.copy /\ weekly'.stamp = weekly.stamp
             /\ \/ weekly'.todo = weekly.todo
                \/ \E q \in Records : WeeklyWrite(q) /\ weekly'.todo = weekly.todo \ {q}
    <3>1. /\ Past(weekly.copy, zip.copy) /\ DayIn(weekly.copy)
          /\ (weekly.stamp = zip.stamp => weekly.copy = zip.copy)
      BY <2>1, WeeklyPast
    <3>2. WeeklyCovers'
      BY <2>1, WeeklyCovered
    <3>3. DayIn(weekly.copy)'
      BY <2>1, <3>1 DEF DayIn
    <3>4. WeeklyInv'
      BY <2>1, <3>1, <3>2, <3>3 DEF WeeklyInv
    <3>5. weekly'.at = "stamp" => weekly'.todo = {}
      BY <1>6, <2>1, WeeklyStep DEF SnapshotInv, WeeklyStart
    <3> QED
      BY <3>4, <3>5
  <2>2. CASE WeeklyStart /\ weekly'.at = "read" /\ weekly'.copy = zip.copy /\ weekly'.todo = Since(zip.copy, marks.day)
    <3>1. row' = row
      BY <2>2 DEF WeeklyStart
    <3>2. DayIn(weekly.copy)'
      BY <1>0, <2>2 DEF DayIn
    <3>3. ASSUME NEW r \in InWindow, row[r].ver < zip.copy[r].ver PROVE r \in Since(zip.copy, marks.day)
      <4>1. r \in Records /\ row[r].ver \in Nat /\ zip.copy[r].ver \in Nat /\ zip.copy[r].day >= marks.day
        BY <1>0, <3>3, ConstantsOK, TypeParts DEF NotPassed, Copies
      <4>2. zip.copy[r].ver > 0
        BY <3>3, <4>1
      <4> QED
        BY <4>1, <4>2 DEF Since, Known
    <3>4. WeeklyCovers'
      BY <2>2, <3>1, <3>3 DEF WeeklyCovers
    <3> QED
      BY <2>2, <3>2, <3>4, PastSame DEF WeeklyInv
  <2>3. \/ weekly' = weekly
        \/ WeeklyStart /\ weekly'.at = "read" /\ weekly'.copy = zip.copy /\ weekly'.todo = Since(zip.copy, marks.day)
        \/ weekly.at = "read" /\ weekly'.copy = weekly.copy /\ weekly'.stamp = weekly.stamp
           /\ \/ weekly'.todo = weekly.todo
              \/ \E q \in Records : WeeklyWrite(q) /\ weekly'.todo = weekly.todo \ {q}
    BY <1>6, WeeklyStep
  <2> QED
    BY <1>6, <2>1, <2>2, <2>3
<1>7. StampMeansIngested'
  <2> SUFFICES ASSUME NEW r \in InWindow, marks'.stamp = zip.stamp PROVE row'[r].ver >= zip.copy[r].ver
    BY DEF StampMeansIngested
  <2>1. CASE marks'.stamp = marks.stamp
    BY <2>1, StillIngested
  <2>2. CASE WeeklyStamp /\ marks'.stamp = weekly.stamp
    <3>1. weekly.at = "stamp" /\ row' = row
      BY <2>2 DEF WeeklyStamp
    <3>2. weekly.copy = zip.copy /\ WeeklyCovers /\ weekly.todo = {}
      BY <2>2, <3>1, WeeklyPast DEF SnapshotInv
    <3>3. row[r].ver \in Nat /\ zip.copy[r].ver \in Nat
      BY <1>0, ConstantsOK, TypeParts DEF Copies
    <3> QED
      BY <3>1, <3>2, <3>3 DEF WeeklyCovers
  <2> QED
    BY <2>1, <2>2, MarksStep
<1> QED
  BY <1>2, <1>3, <1>4, <1>5, <1>6, <1>7 DEF SnapshotInv

LEMMA SnapshotStep == ASSUME TypeOK, SnapshotInv, [Next]_vars PROVE SnapshotInv'
<1>1. CASE UNCHANGED vars
  BY <1>1 DEF vars, outside, SnapshotInv, WeeklyInv, DayIn, NotPassed, WeeklyCovers, NothingPassedOver, Behind,
              StampMeansIngested
<1>2. CASE Next
  <2>1. CASE zip' # zip
    BY <1>2, <2>1, OutsideStep, SnapshotTaken
  <2>2. CASE zip' = zip /\ WeeklyMark /\ Known(weekly.copy) # {}
             /\ marks'.day = Max({weekly.copy[r].day : r \in Known(weekly.copy)}) /\ marks'.stamp = marks.stamp
    BY <1>2, <2>2, SnapshotMarked
  <2>3. CASE zip' = zip /\ marks'.day = marks.day
    BY <1>2, <2>3, SnapshotRest
  <2>4. \/ marks'.day = marks.day
        \/ WeeklyMark /\ Known(weekly.copy) # {}
           /\ marks'.day = Max({weekly.copy[r].day : r \in Known(weekly.copy)}) /\ marks'.stamp = marks.stamp
    BY <1>2, MarksStep
  <2> QED
    BY <2>1, <2>2, <2>3, <2>4
<1> QED
  BY <1>1, <1>2

LEMMA SnapshotInit == Init => SnapshotInv
<1> SUFFICES ASSUME Init PROVE SnapshotInv
  OBVIOUS
<1>1. /\ zip.copy = source /\ marks.day = NoDay /\ marks.stamp = zip.stamp /\ weekly.at = "idle"
      /\ \A r \in InWindow : source[r].ver = 0 /\ source[r].day = 0 /\ row[r].ver = 0
  BY ConstantsOK DEF Init, IdlePass
<1>2. Past(zip.copy, source) /\ DayIn(zip.copy)
  BY <1>1, PastSame DEF DayIn
<1>3. NotPassed(zip.copy) /\ NothingPassedOver /\ StampMeansIngested
  BY <1>1 DEF NotPassed, NothingPassedOver, Behind, StampMeansIngested
<1> QED
  BY <1>1, <1>2, <1>3 DEF SnapshotInv

-----------------------------------------------------------------------------
\* The mark of the harvest.

\* The day up to which harvests have been joined, when the mark is h.
Joint(h) == IF h = NoDay THEN 0 ELSE Max({0, h - 1})

\* What the harvest that runs has still to write, or will be left to the next.
HarvestCovers ==
    \A r \in InWindow \ older : Behind(r) => r \in harvest.run.todo \/ source[r].day >= harvest.run.started

(***************************************************************************)
(* The inductive invariant behind the mark of the harvest: no harvest is   *)
(* queued from a day later than the last one joined, and what the harvest  *)
(* that runs has not read was changed after it began.                      *)
(***************************************************************************)
HarvestInv ==
    today < FirstRunDays =>
        /\ HarvestsJoin
        /\ \A f \in harvest.queued : f <= Joint(marks.harvest)
        /\ harvest.run.on => HarvestCovers

LEMMA JointIs ==
  ASSUME NEW h \in Int
  PROVE  Joint(h) = IF h = NoDay \/ h <= 1 THEN 0 ELSE h - 1
<1>1. Max({0, h - 1}) = IF h - 1 > 0 THEN h - 1 ELSE 0
  BY MaxOfTwo
<1> QED
  BY <1>1 DEF Joint, NoDay

LEMMA FromIs ==
  ASSUME TypeOK, NEW ours \in Nat
  PROVE  HarvestFrom(ours) = IF marks.harvest = NoDay
                             THEN IF ours > FirstRunDays THEN ours - FirstRunDays ELSE 0
                             ELSE Joint(marks.harvest)
<1>1. marks.harvest \in Int /\ FirstRunDays \in Nat
  <2>1. today \in Nat /\ marks.harvest \in NoDay..today
    BY DEF TypeOK
  <2> QED
    BY <2>1, ConstantsOK DEF NoDay
<1>2. CASE marks.harvest = NoDay
  <2>1. Max({0, ours - FirstRunDays}) = IF ours - FirstRunDays > 0 THEN ours - FirstRunDays ELSE 0
    BY <1>1, MaxOfTwo
  <2> QED
    BY <1>1, <1>2, <2>1 DEF HarvestFrom
<1>3. CASE marks.harvest # NoDay
  BY <1>3 DEF HarvestFrom, Joint
<1> QED
  BY <1>2, <1>3

\* HarvestsJoin, said of the day up to which harvests are joined.
LackFrom(d) == \A r \in InWindow \ older : Behind(r) => source[r].day >= d

LEMMA JoinIs ==
  ASSUME TypeOK, today < FirstRunDays
  PROVE  HarvestsJoin <=> LackFrom(Joint(marks.harvest))
<1>1. today \in Nat
  BY DEF TypeOK
<1>2. CASE marks.harvest = NoDay
  <2>1. Joint(marks.harvest) = 0
    BY <1>2 DEF Joint
  <2>2. \A r \in InWindow : source[r].day \in Nat
    BY ConstantsOK, CopiesOK DEF Copies
  <2> QED
    BY <1>2, <2>1, <2>2 DEF HarvestsJoin, LackFrom
<1>3. CASE marks.harvest # NoDay
  BY <1>1, <1>3, FromIs DEF HarvestsJoin, LackFrom
<1> QED
  BY <1>2, <1>3

LEMMA HarvestDays ==
  ASSUME TypeOK
  PROVE  /\ marks.harvest \in Int /\ marks.harvest >= NoDay /\ marks.harvest <= today
         /\ today \in Nat /\ Joint(marks.harvest) \in Nat /\ Joint(marks.harvest) <= today
         /\ harvest.queued \in SUBSET Nat
         /\ harvest.run.on => harvest.run.started \in Nat /\ harvest.run.started <= today
                              /\ marks.harvest <= harvest.run.started
<1>1. today \in Nat /\ marks.harvest \in NoDay..today /\ HarvestOK /\ harvest.run.started \in NoDay..today
  BY DEF TypeOK, HarvestOK
<1>2. marks.harvest \in Int /\ marks.harvest >= NoDay /\ marks.harvest <= today
  BY <1>1 DEF NoDay
<1>3. Joint(marks.harvest) \in Nat /\ Joint(marks.harvest) <= today
  BY <1>1, <1>2, JointIs DEF NoDay
<1>4. harvest.run.on => harvest.run.started \in Nat /\ harvest.run.started <= today
                        /\ marks.harvest <= harvest.run.started
  BY <1>1 DEF HarvestOK, NoDay
<1> QED
  BY <1>1, <1>2, <1>3, <1>4 DEF HarvestOK

\* A row that is behind after a step, and not because of the weekly pass, was so before.
LEMMA StillBehind ==
  ASSUME TypeOK, Next, NEW r \in InWindow, r \notin older', row'[r].ver < source'[r].ver, source'[r] = source[r]
  PROVE  Behind(r) /\ r \notin older /\ ~HarvestPage(r)
<1>0. r \in Records
  BY ConstantsOK
<1>1. VerMoves(r) /\ row[r].ver \in Nat /\ source[r].ver \in Nat
  BY <1>0, RowStep, TypeParts DEF Moves
<1>2. ~HarvestPage(r)
  <2>1. SUFFICES ASSUME HarvestPage(r) PROVE FALSE
    OBVIOUS
  <2>2. row'[r].ver = source[r].ver
    BY <1>0, <2>1, HarvestPageIs, WriteIs DEF Becomes
  <2> QED
    BY <1>1, <2>2
<1>3. CASE WeeklyWrite(r)
  <2>1. weekly.copy[r].ver \in Nat /\ Write(r, weekly.copy[r].ver)
    BY <1>0, <1>3, WeeklyWriteIs
  <2>2. row'[r].ver = weekly.copy[r].ver
    BY <1>0, <2>1, WriteIs DEF Becomes
  <2>3. weekly.copy[r].ver # source[r].ver
    BY <1>1, <2>1, <2>2
  <2>4. ~(weekly.copy[r].ver < row[r].ver) /\ older' = older
    BY <1>3, <2>3 DEF WeeklyWrite
  <2> QED
    BY <1>1, <1>2, <2>1, <2>2, <2>4 DEF Behind
<1>4. CASE ~WeeklyWrite(r)
  <2>1. row'[r].ver = row[r].ver
    BY <1>1, <1>2, <1>4 DEF VerMoves
  <2>2. \/ UNCHANGED older
        \/ \E q \in Records : (WeeklyWrite(q) \/ HarvestPage(q)) /\ older' \in {older, older \cup {q}, older \ {q}}
    BY DEF Next, NewDay, Snapshot, Change, Discover, GetFullText, Cite, Sets, WeeklyWrite, WeeklyStart,
         WeeklyMark, WeeklyStamp, WeeklyCrash, QueueHarvest, HarvestFail, HarvestStart, HarvestPage, HarvestEnd,
         PostStart, PostForgotten, PostFound, PostPromote, PostEmbedRead, PostEmbedApply, PostScoreRead,
         PostScoreStore, PostCrash, history
  <2>3. r \notin older
    BY <1>2, <1>4, <2>2
  <2> QED
    BY <1>2, <2>1, <2>3 DEF Behind
<1> QED
  BY <1>3, <1>4

\* What is lacking after a step was lacking before, or changed today.
LEMMA LackingStep ==
  ASSUME TypeOK, Next, NEW r \in InWindow \ older', row'[r].ver < source'[r].ver
  PROVE  \/ source'[r].day = today
         \/ source'[r] = source[r] /\ Behind(r) /\ r \in InWindow \ older /\ ~HarvestPage(r)
<1>1. source'[r] = source[r] \/ source'[r].day = today
  BY ConstantsOK, OutsideStep
<1> QED
  BY <1>1, StillBehind

LEMMA HarvestInvStep == ASSUME TypeOK, HarvestInv, Next PROVE HarvestInv'
<1> SUFFICES ASSUME today' < FirstRunDays
             PROVE  /\ HarvestsJoin'
                    /\ \A f \in harvest'.queued : f <= Joint(marks'.harvest)
                    /\ harvest'.run.on => HarvestCovers'
  BY DEF HarvestInv
<1>0. today \in Nat /\ today' \in Nat /\ today <= today' /\ FirstRunDays \in Nat
  BY OutsideStep, TypeParts, ConstantsOK DEF OutsideOK
<1>1. today < FirstRunDays
  BY <1>0
<1>2. /\ LackFrom(Joint(marks.harvest))
      /\ \A f \in harvest.queued : f <= Joint(marks.harvest)
      /\ harvest.run.on => HarvestCovers
  BY <1>1, JoinIs DEF HarvestInv
<1>3. TypeOK'
  BY TypingStep
<1>4. PICK j \in Nat : j = Joint(marks.harvest) /\ j <= today
  BY HarvestDays
<1>5. HarvestEnd => harvest.run.on /\ harvest.run.todo = {} /\ marks'.harvest = harvest.run.started
                    /\ UNCHANGED <<today, source, row, older>>
  <2>1. SUFFICES ASSUME HarvestEnd PROVE harvest.run.on /\ harvest.run.todo = {} /\ marks'.harvest = harvest.run.started
                                         /\ UNCHANGED <<today, source, row, older>>
    OBVIOUS
  <2>2. marks' = [marks EXCEPT !.harvest = harvest.run.started]
    BY <2>1 DEF HarvestEnd, Marked
  <2>3. marks'.harvest = harvest.run.started
    BY <2>2 DEF TypeOK
  <2> QED
    BY <2>1, <2>3 DEF HarvestEnd, outside
<1>6. ~HarvestEnd => marks'.harvest = marks.harvest
  BY MarksStep
<1>7. PICK k \in Nat : k = Joint(marks'.harvest) /\ j <= k /\ (HarvestEnd => k <= harvest.run.started) /\ (~HarvestEnd => k = j)
  <2>1. CASE HarvestEnd
    <3>1. /\ marks.harvest \in Int /\ harvest.run.started \in Nat /\ marks.harvest <= harvest.run.started
          /\ marks'.harvest = harvest.run.started
      BY <1>5, <2>1, HarvestDays
    <3>2. /\ Joint(marks.harvest) = IF marks.harvest = NoDay \/ marks.harvest <= 1 THEN 0 ELSE marks.harvest - 1
          /\ Joint(harvest.run.started) = IF harvest.run.started = NoDay \/ harvest.run.started <= 1 THEN 0 ELSE harvest.run.started - 1
      BY <3>1, JointIs
    <3> QED
      BY <1>4, <2>1, <3>1, <3>2 DEF NoDay
  <2>2. CASE ~HarvestEnd
    BY <1>4, <1>6, <2>2
  <2> QED
    BY <2>1, <2>2
<1>8. \A r \in InWindow : source[r].day \in Nat /\ source'[r].day \in Nat
  <2>1. source' \in Copies /\ source \in Copies
    BY <1>3, CopiesOK DEF TypeOK, Copies, Texts
  <2> QED
    BY <2>1, ConstantsOK DEF Copies
<1>9. HarvestsJoin'
  <2> SUFFICES ASSUME marks'.harvest # NoDay, NEW r \in InWindow \ older', row'[r].ver < source'[r].ver
               PROVE  source'[r].day >= k
    <3>1. marks'.harvest # NoDay => HarvestFrom(today)' = k
      BY <1>7 DEF HarvestFrom, Joint
    <3> QED
      BY <3>1 DEF HarvestsJoin, Behind
  <2>1. CASE HarvestEnd
    <3>1. Behind(r) /\ r \in InWindow \ older /\ source'[r] = source[r]
      BY <1>5, <2>1 DEF Behind
    <3>2. source[r].day >= harvest.run.started
      BY <1>2, <1>5, <2>1, <3>1 DEF HarvestCovers
    <3>3. harvest.run.started \in Nat
      BY <1>5, <2>1, HarvestDays
    <3> QED
      BY <1>7, <1>8, <2>1, <3>1, <3>2, <3>3
  <2>2. CASE ~HarvestEnd
    <3>1. k = j
      BY <1>7, <2>2
    <3>2. CASE source'[r].day = today
      BY <1>4, <3>1, <3>2
    <3>3. CASE source'[r] = source[r] /\ Behind(r) /\ r \in InWindow \ older
      BY <1>2, <1>4, <3>1, <3>3 DEF LackFrom
    <3> QED
      BY <3>2, <3>3, LackingStep
  <2> QED
    BY <2>1, <2>2
<1>10. ASSUME NEW f \in harvest'.queued PROVE f <= Joint(marks'.harvest)
  <2>1. CASE f \in harvest.queued
    <3>1. f \in Nat /\ f <= j
      BY <1>2, <1>4, <2>1, HarvestDays
    <3> QED
      BY <1>7, <3>1
  <2>2. CASE f \notin harvest.queued
    <3>1. PICK ours \in {today, today + 1} : QueueHarvest /\ f = HarvestFrom(ours)
      BY <1>10, <2>2, HarvestStep
    <3>2. marks'.harvest = marks.harvest
      BY <3>1 DEF QueueHarvest
    <3>3. ours \in Nat /\ ours <= FirstRunDays
      BY <1>0, <1>1, <3>1
    <3>4. f = IF marks.harvest = NoDay THEN IF ours > FirstRunDays THEN ours - FirstRunDays ELSE 0 ELSE j
      BY <1>4, <3>1, <3>3, FromIs
    <3>5. f <= j
      BY <1>0, <1>4, <3>3, <3>4
    <3> QED
      BY <1>4, <3>2, <3>5
  <2> QED
    BY <2>1, <2>2
<1>11. ASSUME harvest'.run.on PROVE HarvestCovers'
  <2> SUFFICES ASSUME NEW r \in InWindow \ older', row'[r].ver < source'[r].ver
               PROVE  r \in harvest'.run.todo \/ source'[r].day >= harvest'.run.started
    BY DEF HarvestCovers, Behind
  <2>1. CASE harvest.run.on /\ harvest'.run.started = harvest.run.started
             /\ \/ harvest'.run.todo = harvest.run.todo
                \/ \E q \in Records : HarvestPage(q) /\ harvest'.run.todo = harvest.run.todo \ {q}
    <3>1. CASE source'[r].day = today
      BY <1>0, <2>1, <3>1, HarvestDays
    <3>2. CASE source'[r] = source[r] /\ Behind(r) /\ r \in InWindow \ older /\ ~HarvestPage(r)
      <4>1. r \in harvest.run.todo \/ source[r].day >= harvest.run.started
        BY <1>2, <2>1, <3>2 DEF HarvestCovers
      <4> QED
        BY <2>1, <3>2, <4>1
    <3> QED
      BY <3>1, <3>2, LackingStep
  <2>2. CASE UNCHANGED <<today, source, row, marks, older>> /\ \E f \in harvest.queued :
                harvest'.run.todo = {q \in Known(source) : source[q].day >= IF f > today THEN today ELSE f}
    <3>1. PICK f \in harvest.queued :
                harvest'.run.todo = {q \in Known(source) : source[q].day >= IF f > today THEN today ELSE f}
      BY <2>2
    <3>2. Behind(r) /\ r \in InWindow \ older
      BY <2>2 DEF Behind
    <3>3. source[r].day >= j /\ f <= j /\ f \in Nat /\ source[r].day \in Nat
      BY <1>2, <1>4, <1>8, <3>1, <3>2, HarvestDays DEF LackFrom
    <3>4. source[r].day >= IF f > today THEN today ELSE f
      BY <1>0, <1>4, <3>3
    <3>5. r \in Records /\ row[r].ver \in Nat /\ source[r].ver \in Nat
      BY ConstantsOK, TypeParts
    <3>6. r \in Known(source)
      BY <3>2, <3>5 DEF Known, Behind
    <3> QED
      BY <3>1, <3>4, <3>6
  <2>3. harvest'.run # NoHarvest
    BY <1>11 DEF NoHarvest
  <2> QED
    BY <1>11, <2>1, <2>2, <2>3, HarvestStep
<1> QED
  BY <1>9, <1>10, <1>11

LEMMA HarvestInvInit == Init => HarvestInv
<1> SUFFICES ASSUME Init PROVE HarvestInv
  OBVIOUS
<1> QED
  BY DEF Init, HarvestInv, HarvestsJoin, HarvestCovers, NoHarvest, NoDay

LEMMA HarvestInvStutters == ASSUME HarvestInv, UNCHANGED vars PROVE HarvestInv'
BY DEF HarvestInv, HarvestsJoin, HarvestFrom, HarvestCovers, Behind, vars, outside, history

\* The marks that the weekly pass and the harvest leave in Redis keep their promises, whatever
\* the order of the two passes, the days of the snapshots and the crashes (metadata.py run;
\* weekly.py weekly_snapshot; nightly.py harvest_from; fetcher.py harvest).
THEOREM MarksAreRight == Spec => []MarksInv
<1> DEFINE IInv == TypeOK /\ SnapshotInv /\ HarvestInv
<1>1. Init => IInv
  BY TypingInit, SnapshotInit, HarvestInvInit
<1>2. IInv /\ [Next]_vars => IInv'
  <2> SUFFICES ASSUME IInv, [Next]_vars PROVE IInv'
    OBVIOUS
  <2>1. TypeOK' /\ SnapshotInv'
    BY TypingStep, TypingStutters, SnapshotStep
  <2>2. HarvestInv'
    BY HarvestInvStep, HarvestInvStutters
  <2> QED
    BY <2>1, <2>2
<1>3. IInv => MarksInv
  <2> SUFFICES ASSUME IInv PROVE MarksInv
    OBVIOUS
  <2>1. HarvestsJoin
    BY DEF HarvestInv, HarvestsJoin
  <2> QED
    BY <2>1 DEF MarksInv, SnapshotInv
<1> QED
  BY <1>1, <1>2, <1>3, PTL DEF Spec

-----------------------------------------------------------------------------
\* Rows and the post_harvests.

\* What a step makes of a row, but for its citations.
PaperMoves(r) ==
    \/ Becomes(row'[r], row[r].state, row[r].ver, row[r].emb, row[r].found)
    \/ Discover(r) /\ row[r].ver = 0 /\ row[r].state = "absent"
       /\ Becomes(row'[r], "discovered", source[r].ver, row[r].emb, row[r].found)
    \/ row[r].state = "signals_done" /\ Becomes(row'[r], "fulltext", row[r].ver, row[r].emb, row[r].found)
    \/ \E v \in Nat :
          /\ v > 0 /\ r \in InWindow /\ Write(r, v) /\ (WeeklyWrite(r) \/ HarvestPage(r))
          /\ Becomes(row'[r],
                     IF row[r].state \in {"absent", "discovered"} THEN "metadata_done" ELSE row[r].state,
                     v, IF v = row[r].ver THEN row[r].emb ELSE 0, row[r].found)
    \/ \E o \in Owners : PostFound(o) /\ \E found \in BOOLEAN :
          (found => row[r].ver > 0) /\ Becomes(row'[r], row[r].state, row[r].ver, row[r].emb, found)
    \/ \E o \in Owners : PostPromote(o) /\
          Becomes(row'[r], IF row[r].found /\ row[r].state = "discovered" THEN "metadata_done" ELSE row[r].state,
                  row[r].ver, row[r].emb, row[r].found)
    \/ \E o \in Owners : PostEmbedApply(o) /\
          Becomes(row'[r], row[r].state, row[r].ver,
                  IF r \in DOMAIN post[o].taken THEN post[o].taken[r] ELSE row[r].emb, row[r].found)
    \/ \E o \in Owners : PostScoreStore(o) /\
          Becomes(row'[r], IF r \in DOMAIN post[o].taken THEN Scored(row[r].state) ELSE row[r].state,
                  row[r].ver, row[r].emb, row[r].found)

LEMMA SamePaper ==
  ASSUME TypeOK, NEW r \in Records, row'[r] = row[r]
  PROVE  Becomes(row'[r], row[r].state, row[r].ver, row[r].emb, row[r].found)
BY TypeParts DEF Becomes

LEMMA WritePaper ==
  ASSUME TypeOK, NEW q \in Records, NEW r \in Records, WeeklyWrite(q) \/ HarvestPage(q)
  PROVE  PaperMoves(r)
<1>1. PICK v \in Nat : v > 0 /\ Write(q, v)
  BY WeeklyWriteIs, HarvestPageIs
<1>2. CASE r # q \/ r \notin InWindow
  <2>1. row'[r] = row[r]
    BY <1>1, <1>2, WriteIs
  <2> QED
    BY <2>1, SamePaper DEF PaperMoves
<1>3. CASE r = q /\ r \in InWindow
  BY <1>1, <1>3, WriteIs DEF PaperMoves
<1> QED
  BY <1>2, <1>3

LEMMA PaperStep == ASSUME TypeOK, Next, NEW r \in Records PROVE PaperMoves(r)
<1>1. CASE row'[r] = row[r]
  BY <1>1, SamePaper DEF PaperMoves
<1>2. ASSUME NEW q \in Records, Discover(q), row'[r] # row[r] PROVE PaperMoves(r)
  BY <1>2, DiscoverIs, TypeParts DEF PaperMoves, RowsOK
<1>3. ASSUME NEW q \in Records, GetFullText(q), row'[r] # row[r] PROVE PaperMoves(r)
  BY <1>3, GetFullTextIs DEF PaperMoves
<1>4. ASSUME NEW q \in Records, Cite(q), row'[r] # row[r] PROVE PaperMoves(r)
  BY <1>4, CiteIs DEF PaperMoves
<1>5. ASSUME NEW q \in Records, WeeklyWrite(q) \/ HarvestPage(q) PROVE PaperMoves(r)
  BY <1>5, WritePaper
<1>6. ASSUME NEW o \in Owners, PostFound(o) PROVE PaperMoves(r)
  BY <1>6, PostFoundIs DEF PaperMoves
<1>7. ASSUME NEW o \in Owners, PostPromote(o) PROVE PaperMoves(r)
  BY <1>7, PostPromoteIs DEF PaperMoves
<1>8. ASSUME NEW o \in Owners, PostEmbedApply(o) PROVE PaperMoves(r)
  BY <1>8, PostEmbedApplyIs DEF PaperMoves
<1>9. ASSUME NEW o \in Owners, PostScoreStore(o) PROVE PaperMoves(r)
  BY <1>9, PostScoreStoreIs DEF PaperMoves
<1>10. CASE Elsewhere
  BY <1>1, <1>10, ElsewhereIs
<1> QED
  BY <1>1, <1>2, <1>3, <1>4, <1>5, <1>6, <1>7, <1>8, <1>9, <1>10, NextIs

\* What a step makes of a post_harvest.
LEMMA PostMoves ==
  ASSUME TypeOK, Next, NEW o \in Owners
  PROVE  \/ post'[o] = post[o]
         \/ post[o].at = "idle" /\ post'[o].at = "found"
         \/ PostFound(o) /\ post[o].at = "found" /\ post'[o].at = "promote"
         \/ PostPromote(o) /\ post[o].at = "promote" /\ post'[o].at = "embed"
         \/ PostEmbedRead(o) /\ post[o].at = "embed" /\ post'[o].at = "apply" /\ post'[o].taken = TextsNow
         \/ PostEmbedApply(o) /\ post[o].at = "apply" /\ post'[o].at = "score"
         \/ PostScoreRead(o) /\ post[o].at = "score" /\ post'[o].at = "store" /\ post'[o].taken = Unscored
         \/ PostScoreStore(o) /\ post[o].at = "store" /\ post'[o].at = "idle"
         \/ PostCrash(o) /\ post'[o].at = "idle" /\ happened' # {}
<1>1. CASE NoPostStep
  BY <1>1, NoPostStepIs
<1>2. CASE WeeklyStamp
  <2>1. post["weekly"].at = "idle"
    BY <1>2 DEF WeeklyStamp, TypeOK, WeeklyOK
  <2> QED
    BY <1>2, <2>1, PostSteps1 DEF PostAt
<1>3. ASSUME NEW d, PostStart(d) PROVE post'[o] = post[o] \/ (post[o].at = "idle" /\ post'[o].at = "found")
  <2>1. post["job"].at = "idle"
    BY <1>3 DEF PostStart
  <2> QED
    BY <1>3, <2>1, PostSteps1 DEF PostAt
<1>4. ASSUME NEW p \in Owners,
             \/ PostFound(p) \/ PostPromote(p) \/ PostEmbedRead(p) \/ PostEmbedApply(p)
             \/ PostScoreRead(p) \/ PostScoreStore(p) \/ PostCrash(p), p # o
      PROVE  post'[o] = post[o]
  BY <1>4, PostSteps1, PostSteps2 DEF PostAt
<1>5. PostFound(o) => post[o].at = "found" /\ post'[o].at = "promote"
  BY PostSteps1 DEF PostAt, PostFound
<1>6. PostPromote(o) => post[o].at = "promote" /\ post'[o].at = "embed"
  BY PostSteps1 DEF PostAt, PostPromote
<1>7. PostEmbedRead(o) => post[o].at = "embed" /\ post'[o].at = "apply" /\ post'[o].taken = TextsNow
  BY PostSteps2 DEF PostAt, PostEmbedRead
<1>8. PostEmbedApply(o) => post[o].at = "apply" /\ post'[o].at = "score"
  BY PostSteps2 DEF PostAt, PostEmbedApply
<1>9. PostScoreRead(o) => post[o].at = "score" /\ post'[o].at = "store" /\ post'[o].taken = Unscored
  BY PostSteps2 DEF PostAt, PostScoreRead
<1>10. PostScoreStore(o) => post[o].at = "store" /\ post'[o].at = "idle"
  BY PostSteps2 DEF PostAt, PostScoreStore
<1>11. PostCrash(o) => post'[o].at = "idle" /\ happened' # {}
  <2>1. PostCrash(o) => happened' = happened \cup {"postCrash"}
    BY DEF PostCrash, Happens
  <2> QED
    BY <2>1, PostSteps2 DEF PostAt
<1> QED
  BY <1>1, <1>2, <1>3, <1>4, <1>5, <1>6, <1>7, <1>8, <1>9, <1>10, <1>11, NextIsPost

-----------------------------------------------------------------------------
\* Embeddings.

\* What a post_harvest read and has not applied yet are the texts of the rows it took, but
\* for those that were written since.
TakenAreTexts ==
    \A o \in Owners : post[o].at = "apply" => \A r \in DOMAIN post[o].taken :
        /\ post[o].taken[r] > 0 /\ row[r].ver > 0
        /\ r \notin mixed => post[o].taken[r] = row[r].ver

LEMMA MixedStep ==
  ASSUME Next
  PROVE  /\ mixed \subseteq mixed'
         /\ \A r \in InWindow : Embedding(r) /\ (WeeklyWrite(r) \/ HarvestPage(r)) => r \in mixed'
<1>1. mixed \subseteq mixed'
  BY DEF Next, NewDay, Snapshot, Change, Discover, GetFullText, Cite, Sets, WeeklyWrite, WeeklyStart, Write,
         WeeklyMark, WeeklyStamp, WeeklyCrash, QueueHarvest, HarvestFail, HarvestStart, HarvestPage, HarvestEnd,
         PostStart, PostForgotten, PostFound, PostPromote, PostEmbedRead, PostEmbedApply, PostScoreRead,
         PostScoreStore, PostCrash, history
<1> QED
  BY <1>1 DEF WeeklyWrite, HarvestPage, Write

LEMMA EmbedStep ==
  ASSUME TypeOK, EmbeddingIsCurrent, TakenAreTexts, Next
  PROVE  EmbeddingIsCurrent' /\ TakenAreTexts'
<1>1. EmbeddingIsCurrent'
  <2> SUFFICES ASSUME NEW r \in Records, r \notin mixed' PROVE row'[r].emb \in {0, row'[r].ver}
    BY DEF EmbeddingIsCurrent
  <2>1. r \notin mixed /\ row[r].emb \in {0, row[r].ver}
    BY MixedStep DEF EmbeddingIsCurrent
  <2>2. ASSUME NEW o \in Owners, PostEmbedApply(o), r \in DOMAIN post[o].taken PROVE post[o].taken[r] = row[r].ver
    BY <2>1, <2>2 DEF TakenAreTexts, PostEmbedApply
  <2> QED
    BY <2>1, <2>2, PaperStep DEF PaperMoves, Becomes
<1>2. TakenAreTexts'
  <2> SUFFICES ASSUME NEW o \in Owners, post'[o].at = "apply", NEW r \in DOMAIN post'[o].taken
               PROVE  /\ post'[o].taken[r] > 0 /\ row'[r].ver > 0
                      /\ r \notin mixed' => post'[o].taken[r] = row'[r].ver
    BY DEF TakenAreTexts
  <2>1. CASE post'[o] = post[o]
    <3>1. /\ post[o].taken[r] > 0 /\ row[r].ver > 0
          /\ r \notin mixed => post[o].taken[r] = row[r].ver
          /\ r \in DOMAIN post[o].taken /\ post[o].at = "apply"
      BY <2>1 DEF TakenAreTexts
    <3>2. r \in Records
      BY <3>1 DEF TypeOK, PostOK
    <3>3. VerMoves(r) /\ row[r].ver \in Nat /\ source[r].ver \in Nat
      BY <3>2, RowStep, TypeParts DEF Moves
    <3>4. ~(Discover(r) /\ row[r].ver = 0)
      BY <3>1, <3>3
    <3>5. row'[r].ver > 0
      BY <3>1, <3>2, <3>3, <3>4, WeeklyWriteIs, HarvestPageIs DEF VerMoves
    <3>6. r \notin mixed' => row'[r].ver = row[r].ver
      BY <3>1, <3>3, <3>4, MixedStep DEF VerMoves, Embedding
    <3>7. r \notin mixed' => r \notin mixed
      BY MixedStep
    <3> QED
      BY <2>1, <3>1, <3>5, <3>6, <3>7
  <2>2. CASE PostEmbedRead(o) /\ post'[o].taken = TextsNow
    <3>1. r \in Unembedded /\ post'[o].taken[r] = row[r].ver /\ row' = row
      BY <2>2 DEF TextsNow, PostEmbedRead
    <3>2. r \in Records /\ row[r].state # "absent"
      BY <3>1, RankIs DEF Unembedded
    <3>3. row[r].ver \in Nat /\ row[r].ver # 0
      BY <3>2, TypeParts DEF RowsOK
    <3> QED
      BY <3>1, <3>3
  <2> QED
    BY <2>1, <2>2, PostMoves
<1> QED
  BY <1>1, <1>2

LEMMA EmbedStutters == ASSUME EmbeddingIsCurrent, TakenAreTexts, UNCHANGED vars PROVE EmbeddingIsCurrent' /\ TakenAreTexts'
BY DEF EmbeddingIsCurrent, TakenAreTexts, vars, history

LEMMA EmbedInit == Init => EmbeddingIsCurrent /\ TakenAreTexts
BY DEF Init, EmbeddingIsCurrent, TakenAreTexts, NoPost

\* An embedding is that of the text of its row, unless the text was written while a
\* post_harvest was embedding the one before (abstract_embed.py applies vectors by id only).
THEOREM EmbeddingsAreCurrent == Spec => []EmbeddingIsCurrent
<1> DEFINE IInv == TypeOK /\ EmbeddingIsCurrent /\ TakenAreTexts
<1>1. Init => IInv
  BY TypingInit, EmbedInit
<1>2. IInv /\ [Next]_vars => IInv'
  BY TypingStep, TypingStutters, EmbedStep, EmbedStutters
<1> QED
  BY <1>1, <1>2, PTL DEF Spec

-----------------------------------------------------------------------------
\* A post_harvest follows.

\* Only rows that are there are foundational.
FoundIsThere == \A r \in Records : row[r].found => row[r].state # "absent"

\* The three waits of a row, and what is ahead of each.
WaitsForVector(r) == Rank[row[r].state] > 1 /\ row[r].emb = 0
VectorAhead(r) ==
    \/ Coming
    \/ \E o \in Owners : Ahead(o, ToEmbed) \/ (Ahead(o, {"apply"}) /\ r \in DOMAIN post[o].taken)
WaitsForScore(r) == row[r].state = "metadata_done"
ScoreAhead(r) ==
    \/ Coming
    \/ \E o \in Owners : Ahead(o, ToScore) \/ (Ahead(o, {"store"}) /\ r \in DOMAIN post[o].taken)
WaitsForPromotion(r) == row[r].found /\ row[r].state = "discovered"
PromotionAhead == \E o \in Owners : Ahead(o, {"promote"})

LEMMA PostFollowsIs ==
  PostFollows <=> (happened = {} => \A r \in Records :
                      /\ WaitsForVector(r) => VectorAhead(r)
                      /\ WaitsForScore(r) => ScoreAhead(r)
                      /\ WaitsForPromotion(r) => PromotionAhead)
BY DEF PostFollows, WaitsForVector, VectorAhead, WaitsForScore, ScoreAhead, WaitsForPromotion, PromotionAhead

LEMMA FoundStep == ASSUME TypeOK, FoundIsThere, Next PROVE FoundIsThere'
<1> SUFFICES ASSUME NEW r \in Records, row'[r].found PROVE row'[r].state # "absent"
  BY DEF FoundIsThere
<1>1. CASE row[r].found
  <2>1. row[r].state # "absent" /\ row[r].state \in DOMAIN Rank
    BY <1>1, TypeParts DEF FoundIsThere, Papers
  <2>2. Rank[row'[r].state] >= Rank[row[r].state]
    BY RowStep DEF Moves
  <2> QED
    BY <2>1, <2>2, RankIs
<1>2. CASE ~row[r].found
  <2>1. (row[r].state = "absent") = (row[r].ver = 0)
    BY TypeParts DEF RowsOK
  <2>2. row'[r].found = row[r].found \/ (row[r].ver > 0 /\ row'[r].state = row[r].state)
    BY PaperStep DEF PaperMoves, Becomes
  <2>3. row'[r].found = TRUE /\ row[r].found = FALSE
    BY <1>2, RowStep, TypeParts DEF Moves, Papers
  <2>4. row[r].ver > 0 /\ row'[r].state = row[r].state
    BY <2>2, <2>3
  <2>5. row[r].ver # 0
    BY <2>4, TypeParts
  <2> QED
    BY <2>1, <2>4, <2>5
<1> QED
  BY <1>1, <1>2

\* What fails shows.
LEMMA NothingFailed ==
  ASSUME TypeOK, Next, happened' = {}
  PROVE  happened = {} /\ ~WeeklyCrash /\ ~HarvestFail /\ (\A o : ~PostCrash(o))
         /\ (HarvestEnd => jobs'.queued # {})
<1>1. UNCHANGED happened \/ \E k \in FaultKinds : happened' = happened \cup {k}
  BY DEF Next, NewDay, Snapshot, Change, Discover, GetFullText, Cite, Sets, WeeklyWrite, WeeklyStart,
         WeeklyMark, WeeklyStamp, WeeklyCrash, QueueHarvest, HarvestFail, HarvestStart, HarvestPage, HarvestEnd,
         PostStart, PostForgotten, PostFound, PostPromote, PostEmbedRead, PostEmbedApply, PostScoreRead,
         PostScoreStore, PostCrash, Happens, FaultKinds
<1>2. ~WeeklyCrash /\ ~HarvestFail /\ (\A o : ~PostCrash(o))
  BY DEF WeeklyCrash, HarvestFail, PostCrash, Happens
<1>3. HarvestEnd => jobs'.queued # {}
  <2>1. SUFFICES ASSUME HarvestEnd PROVE jobs'.queued # {}
    OBVIOUS
  <2>2. PICK d : d = Marked(harvest.run)
    OBVIOUS
  <2>3. jobs' = [queued |-> jobs.queued \cup {d}, taken |-> jobs.taken \cup {d}]
    BY <2>1, <2>2 DEF HarvestEnd, Happens
  <2>4. jobs'.queued = jobs.queued \cup {d}
    BY <2>3
  <2> QED
    BY <2>4
<1> QED
  BY <1>1, <1>2, <1>3

\* The end of a pass that is coming comes nearer, until its post_harvest starts.
LEMMA ComingStep ==
  ASSUME TypeOK, Next, happened' = {}, Coming
  PROVE  Coming' \/ \E o \in Owners : post'[o].at = "found"
<1>0. /\ ~WeeklyCrash /\ ~HarvestFail /\ (HarvestEnd => jobs'.queued # {})
  BY NothingFailed
<1>1. CASE WeeklyStamp
  BY <1>1, PostSteps1 DEF PostAt, Owners
<1>2. ASSUME NEW d, PostStart(d) PROVE \E o \in Owners : post'[o].at = "found"
  BY <1>2, PostSteps1 DEF PostAt, Owners
<1>3. CASE HarvestEnd
  BY <1>0, <1>3 DEF Coming
<1>4. CASE ~WeeklyStamp /\ ~HarvestEnd /\ (\A d \in 0..(MaxDay + 1) : ~PostStart(d))
  <2>1. weekly.at # "idle" => weekly'.at # "idle"
    BY <1>0, <1>4, WeeklyStep
  <2>2. harvest.run.on => harvest'.run.on
    BY <1>0, <1>4, HarvestStep
  <2>3. jobs.queued # {} => jobs'.queued # {}
    <3>1. UNCHANGED jobs \/ \E d \in 0..(MaxDay + 1) : PostForgotten(d)
      BY <1>4 DEF Next, NewDay, Snapshot, Change, Discover, GetFullText, Cite, Sets, WeeklyWrite, WeeklyStart,
         WeeklyMark, WeeklyStamp, WeeklyCrash, QueueHarvest, HarvestFail, HarvestStart, HarvestPage,
         PostFound, PostPromote, PostEmbedRead, PostEmbedApply, PostScoreRead, PostScoreStore, PostCrash
    <3>2. ASSUME NEW d, PostForgotten(d) PROVE jobs'.queued = jobs.queued
      <4>1. jobs' = [jobs EXCEPT !.taken = jobs.taken \ {d}]
        BY <3>2 DEF PostForgotten
      <4>2. jobs = [queued |-> jobs.queued, taken |-> jobs.taken]
        BY DEF TypeOK
      <4> QED
        BY <4>1, <4>2
    <3> QED
      BY <3>1, <3>2
  <2> QED
    BY <2>1, <2>2, <2>3 DEF Coming
<1> QED
  BY <1>1, <1>2, <1>3, <1>4

\* A post_harvest that has not read the rows without a vector yet reads them.
LEMMA VectorStays ==
  ASSUME TypeOK, TakenAreTexts, Next, happened' = {}, NEW r \in Records,
         WaitsForVector(r), VectorAhead(r), WaitsForVector(r)'
  PROVE  VectorAhead(r)'
<1>1. CASE Coming
  BY <1>1, ComingStep DEF VectorAhead, Ahead, ToEmbed
<1>2. ASSUME NEW o \in Owners, post[o].at \in ToEmbed PROVE VectorAhead(r)'
  <2>1. r \in Unembedded
    BY DEF Unembedded, WaitsForVector
  <2>2. r \in DOMAIN TextsNow
    BY <2>1 DEF TextsNow
  <2>3. post'[o].at \in ToEmbed \/ (post'[o].at = "apply" /\ post'[o].taken = TextsNow)
    BY <1>2, PostMoves DEF ToEmbed
  <2> QED
    BY <2>2, <2>3 DEF VectorAhead, Ahead
<1>3. ASSUME NEW o \in Owners, post[o].at = "apply", r \in DOMAIN post[o].taken PROVE VectorAhead(r)'
  <2>1. ~PostEmbedApply(o)
    <3>1. SUFFICES ASSUME PostEmbedApply(o) PROVE FALSE
      OBVIOUS
    <3>2. row'[r].emb = post[o].taken[r] /\ post[o].taken[r] > 0
      BY <1>3, <3>1, PostEmbedApplyIs DEF Becomes, TakenAreTexts
    <3> QED
      BY <3>2 DEF WaitsForVector
  <2>2. post'[o] = post[o]
    BY <1>3, <2>1, PostMoves
  <2> QED
    BY <1>3, <2>2 DEF VectorAhead, Ahead
<1> QED
  BY <1>1, <1>2, <1>3 DEF VectorAhead, Ahead

LEMMA WriterComes ==
  ASSUME TypeOK, Next, NEW r \in Records, WeeklyWrite(r) \/ HarvestPage(r)
  PROVE  Coming'
<1>1. WeeklyWrite(r) => weekly.at = "read" /\ ~WeeklyStamp /\ ~WeeklyCrash
  <2>1. SUFFICES ASSUME WeeklyWrite(r) PROVE weekly.at = "read" /\ ~WeeklyStamp /\ ~WeeklyCrash
    OBVIOUS
  <2>2. weekly.at = "read" /\ r \in weekly.todo /\ weekly' = [weekly EXCEPT !.todo = weekly.todo \ {r}]
    BY <2>1 DEF WeeklyWrite
  <2>3. weekly = [at |-> weekly.at, copy |-> weekly.copy, todo |-> weekly.todo, stamp |-> weekly.stamp]
    BY <2>2 DEF TypeOK, WeeklyOK
  <2>4. weekly' = [at |-> weekly.at, copy |-> weekly.copy, todo |-> weekly.todo \ {r}, stamp |-> weekly.stamp]
    BY <2>2, <2>3
  <2>5. weekly'.at = "read"
    BY <2>2, <2>4
  <2> QED
    BY <2>2, <2>5 DEF WeeklyStamp, WeeklyCrash, IdlePass
<1>2. WeeklyWrite(r) => weekly'.at # "idle"
  BY <1>1, WeeklyStep
<1>3. HarvestPage(r) => harvest'.run.on
  <2>1. SUFFICES ASSUME HarvestPage(r) PROVE harvest'.run.on
    OBVIOUS
  <2>2. PICK old : old = harvest.run
    OBVIOUS
  <2>3. PICK run : run = [old EXCEPT !.todo = old.todo \ {r}]
    OBVIOUS
  <2>4. harvest = [queued |-> harvest.queued, count |-> harvest.count, run |-> old]
        /\ old = [on |-> old.on, from |-> old.from, started |-> old.started, todo |-> old.todo]
    BY <2>2 DEF TypeOK, HarvestOK
  <2>5. harvest' = [harvest EXCEPT !.run = run] /\ old.on
    BY <2>1, <2>2, <2>3 DEF HarvestPage
  <2>6. run = [on |-> old.on, from |-> old.from, started |-> old.started, todo |-> old.todo \ {r}]
    BY <2>3, <2>4
  <2>7. harvest'.run = run
    BY <2>4, <2>5
  <2> QED
    BY <2>5, <2>6, <2>7
<1> QED
  BY <1>2, <1>3 DEF Coming

\* A row begins to wait for its vector with a write of a pass, or when it is promoted.
LEMMA VectorBegins ==
  ASSUME TypeOK, TakenAreTexts, Next, NEW r \in Records, ~WaitsForVector(r), WaitsForVector(r)'
  PROVE  VectorAhead(r)'
<1>0. row[r].state \in DOMAIN Rank
  BY TypeParts DEF Papers
<1>1. CASE WeeklyWrite(r) \/ HarvestPage(r)
  BY <1>1, WriterComes DEF VectorAhead
<1>2. ASSUME NEW o \in Owners, PostPromote(o) PROVE VectorAhead(r)'
  BY <1>2, PostSteps1 DEF PostAt, VectorAhead, Ahead, ToEmbed
<1>3. ASSUME NEW o \in Owners, PostEmbedApply(o), row'[r].state = row[r].state,
             row'[r].emb = IF r \in DOMAIN post[o].taken THEN post[o].taken[r] ELSE row[r].emb
      PROVE  FALSE
  <2>1. r \in DOMAIN post[o].taken => post[o].taken[r] > 0
    BY <1>3 DEF TakenAreTexts, PostEmbedApply
  <2> QED
    BY <1>3, <2>1 DEF WaitsForVector
<1>4. ASSUME row'[r].emb = row[r].emb,
             row'[r].state \in {row[r].state, "discovered"} \/ row[r].state = "signals_done"
                 \/ row'[r].state = Scored(row[r].state)
      PROVE  FALSE
  BY <1>0, <1>4, RankIs DEF WaitsForVector, Scored
<1> QED
  BY <1>1, <1>2, <1>3, <1>4, PaperStep DEF PaperMoves, Becomes

\* Likewise for scores: every row that waits for one is among those that are read.
LEMMA ScoreStays ==
  ASSUME TypeOK, Next, happened' = {}, NEW r \in Records, WaitsForScore(r), ScoreAhead(r), WaitsForScore(r)'
  PROVE  ScoreAhead(r)'
<1>1. CASE Coming
  BY <1>1, ComingStep DEF ScoreAhead, Ahead, ToEmbed, ToScore
<1>2. ASSUME NEW o \in Owners, post[o].at \in ToScore PROVE ScoreAhead(r)'
  <2>1. r \in DOMAIN Unscored
    BY DEF Unscored, WaitsForScore
  <2>2. post'[o].at \in ToScore \/ (post'[o].at = "store" /\ post'[o].taken = Unscored)
    BY <1>2, PostMoves DEF ToScore, ToEmbed
  <2> QED
    BY <2>1, <2>2 DEF ScoreAhead, Ahead
<1>3. ASSUME NEW o \in Owners, post[o].at = "store", r \in DOMAIN post[o].taken PROVE ScoreAhead(r)'
  <2>1. ~PostScoreStore(o)
    <3>1. SUFFICES ASSUME PostScoreStore(o) PROVE FALSE
      OBVIOUS
    <3>2. row'[r].state = Scored(row[r].state)
      BY <1>3, <3>1, PostScoreStoreIs DEF Becomes
    <3> QED
      BY <3>2 DEF WaitsForScore, Scored
  <2>2. post'[o] = post[o]
    BY <1>3, <2>1, PostMoves
  <2> QED
    BY <1>3, <2>2 DEF ScoreAhead, Ahead
<1> QED
  BY <1>1, <1>2, <1>3 DEF ScoreAhead, Ahead

LEMMA ScoreBegins ==
  ASSUME TypeOK, Next, NEW r \in Records, ~WaitsForScore(r), WaitsForScore(r)'
  PROVE  ScoreAhead(r)'
<1>1. CASE WeeklyWrite(r) \/ HarvestPage(r)
  BY <1>1, WriterComes DEF ScoreAhead
<1>2. ASSUME NEW o \in Owners, PostPromote(o) PROVE ScoreAhead(r)'
  BY <1>2, PostSteps1 DEF PostAt, ScoreAhead, Ahead, ToEmbed, ToScore
<1>3. ASSUME row'[r].state \in {row[r].state, "discovered", "fulltext"} \/ row'[r].state = Scored(row[r].state)
      PROVE  FALSE
  BY <1>3 DEF WaitsForScore, Scored
<1> QED
  BY <1>1, <1>2, <1>3, PaperStep DEF PaperMoves, Becomes

\* A foundational row that waits to be promoted became foundational in the statement before.
LEMMA PromotionStep ==
  ASSUME TypeOK, FoundIsThere, Next, happened' = {}, NEW r \in Records,
         WaitsForPromotion(r) => PromotionAhead, WaitsForPromotion(r)'
  PROVE  PromotionAhead'
<1>1. CASE WaitsForPromotion(r)
  <2>1. PICK o \in Owners : post[o].at = "promote"
    BY <1>1 DEF PromotionAhead, Ahead
  <2>2. ~PostPromote(o)
    <3>1. SUFFICES ASSUME PostPromote(o) PROVE FALSE
      OBVIOUS
    <3>2. row'[r].state = "metadata_done"
      BY <1>1, <3>1, PostPromoteIs DEF Becomes, WaitsForPromotion
    <3> QED
      BY <3>2 DEF WaitsForPromotion
  <2>3. post'[o] = post[o]
    BY <2>1, <2>2, PostMoves
  <2> QED
    BY <2>1, <2>3 DEF PromotionAhead, Ahead
<1>2. CASE ~WaitsForPromotion(r)
  <2>1. ASSUME NEW o \in Owners, PostFound(o) PROVE PromotionAhead'
    BY <2>1, PostSteps1 DEF PostAt, PromotionAhead, Ahead
  <2>2. row[r].found \in BOOLEAN /\ row'[r].found \in BOOLEAN
    BY RowStep, TypeParts DEF Moves, Papers
  <2>3. row[r].found => row[r].state # "absent"
    BY DEF FoundIsThere
  <2>4. ASSUME row'[r].found = row[r].found,
               \/ row'[r].state \in {row[r].state, "metadata_done", "fulltext"}
               \/ row[r].state = "absent" \/ row'[r].state = Scored(row[r].state)
        PROVE  FALSE
    BY <1>2, <2>2, <2>3, <2>4 DEF WaitsForPromotion, Scored
  <2> QED
    BY <2>1, <2>4, PaperStep DEF PaperMoves, Becomes
<1> QED
  BY <1>1, <1>2

LEMMA FollowsStep ==
  ASSUME TypeOK, TakenAreTexts, FoundIsThere, PostFollows, Next
  PROVE  PostFollows'
<1> SUFFICES ASSUME happened' = {}, NEW r \in Records
             PROVE  /\ WaitsForVector(r)' => VectorAhead(r)'
                    /\ WaitsForScore(r)' => ScoreAhead(r)'
                    /\ WaitsForPromotion(r)' => PromotionAhead'
  BY DEF PostFollows, WaitsForVector, VectorAhead, WaitsForScore, ScoreAhead, WaitsForPromotion, PromotionAhead
<1>1. /\ WaitsForVector(r) => VectorAhead(r)
      /\ WaitsForScore(r) => ScoreAhead(r)
      /\ WaitsForPromotion(r) => PromotionAhead
  BY NothingFailed, PostFollowsIs
<1> QED
  BY <1>1, VectorStays, VectorBegins, ScoreStays, ScoreBegins, PromotionStep

LEMMA FollowsStutters == ASSUME FoundIsThere, PostFollows, UNCHANGED vars PROVE FoundIsThere' /\ PostFollows'
BY DEF FoundIsThere, PostFollows, Coming, Ahead, vars

LEMMA FollowsInit == Init => FoundIsThere /\ PostFollows
<1> SUFFICES ASSUME Init PROVE FoundIsThere /\ PostFollows
  OBVIOUS
<1>1. \A r \in Records : row[r].state = "absent" /\ row[r].found = FALSE
  BY DEF Init
<1> QED
  BY <1>1, RankIs DEF FoundIsThere, PostFollows

\* While nothing has failed, a row that waits for its vector, for its score or for its
\* promotion has a post_harvest ahead of it that has not read it yet, or a pass whose end
\* queues one (nightly.py post_harvest, weekly.py, fetcher.py harvest).
THEOREM PostHarvestFollows == Spec => []PostFollows
<1> DEFINE IInv == TypeOK /\ EmbeddingIsCurrent /\ TakenAreTexts /\ FoundIsThere /\ PostFollows
<1>1. Init => IInv
  BY TypingInit, EmbedInit, FollowsInit
<1>2. IInv /\ [Next]_vars => IInv'
  <2> SUFFICES ASSUME IInv, [Next]_vars PROVE IInv'
    OBVIOUS
  <2>1. CASE Next
    BY <2>1, TypingStep, EmbedStep, FoundStep, FollowsStep
  <2>2. CASE UNCHANGED vars
    BY <2>2, TypingStutters, EmbedStutters, FollowsStutters
  <2> QED
    BY <2>1, <2>2
<1> QED
  BY <1>1, <1>2, PTL DEF Spec
=============================================================================
