--------------------------- MODULE CitationsProofs ---------------------------
(***************************************************************************)
(* Proofs about Citations, for all papers, titles and reference lists: its *)
(* types, that edges and counts follow the references, that stubs are      *)
(* there when they are called for, and that unknown ids are asked for.     *)
(***************************************************************************)
EXTENDS Citations, TLAPS, FiniteSetTheorems

-----------------------------------------------------------------------------
\* Papers, titles and stubs are apart.

LEMMA StubsApart ==
  /\ \A t \in Titles, n \in Nat : <<t, n>> \in Targets /\ IsStub(<<t, n>>) /\ <<t, n>> # None
  /\ \A p \in Ids : p \in Targets /\ ~IsStub(p) /\ p # None
  /\ None \in Targets /\ ~IsStub(None)
  /\ \A x \in Targets : IsStub(x) => /\ x \in StubId /\ x = <<x[1], x[2]>>
                                     /\ x[1] \in Titles /\ x[2] \in Nat /\ x # None
  /\ None \notin Titles
<1>1. \A p \in Ids \cup {None} : p \notin Titles \X Nat
  BY ConstantsAssumption
<1>2. None \notin Ids /\ None \notin Titles
  BY ConstantsAssumption
<1>3. \A t \in Titles, n \in Nat : <<t, n>> \in Targets /\ IsStub(<<t, n>>) /\ <<t, n>> # None
  BY <1>1 DEF Targets, StubId, IsStub
<1>4. \A x \in Targets : IsStub(x) => x \in StubId
  BY DEF Targets, IsStub
<1>5. \A x \in StubId : x = <<x[1], x[2]>> /\ x[1] \in Titles /\ x[2] \in Nat
  BY DEF StubId
<1> QED
  BY <1>1, <1>2, <1>3, <1>4, <1>5 DEF Targets, IsStub, StubId

LEMMA CitingApart == IsFiniteSet(Citing) /\ Citing \cap Cited = {} /\ \A f \in Citing : f \in Ids /\ f # None
BY StubsApart, ConstantsAssumption DEF Ids

-----------------------------------------------------------------------------
\* Edges.

RefsOK(rs) == rs \in [Citing -> Seq(Rows)]

\* The papers, stubs and rows that the edges of a paper lead to.
Out(f, es) == {e[2] : e \in {e2 \in es : e2[1] = f}}

LEMMA RefsOf ==
  ASSUME NEW rs, RefsOK(rs), NEW f \in Citing
  PROVE  /\ Len(rs[f]) \in Nat /\ DOMAIN rs[f] = 1..Len(rs[f])
         /\ \A i \in DOMAIN rs[f] : rs[f][i] \in Rows /\ rs[f][i].ref \in References
                                    /\ rs[f][i].to \in Targets
<1>1. rs[f] \in Seq(Rows)
  BY DEF RefsOK
<1>2. \A i \in DOMAIN rs[f] : rs[f][i] \in Rows
  BY <1>1
<1> QED
  BY <1>1, <1>2 DEF Rows

LEMMA ResolvedOK ==
  ASSUME NEW rs, RefsOK(rs), NEW f \in Citing
  PROVE  Resolved(f, rs) \subseteq Targets \ {None} /\ IsFiniteSet(Resolved(f, rs))
<1> DEFINE T == {rs[f][i].to : i \in DOMAIN rs[f]}
           m == [i \in DOMAIN rs[f] |-> rs[f][i].to]
<1>1. IsFiniteSet(DOMAIN rs[f])
  BY RefsOf, FS_Interval
<1>2. m \in Surjection(DOMAIN rs[f], T)
  BY DEF Surjection
<1>3. IsFiniteSet(T)
  BY <1>1, <1>2, FS_Surjection
<1>4. T \subseteq Targets
  BY RefsOf
<1>5. Resolved(f, rs) = T \ {None, f}
  BY DEF Resolved
<1>6. IsFiniteSet(Resolved(f, rs))
  BY <1>3, <1>5, FS_Subset
<1> QED
  BY <1>4, <1>5, <1>6

\* rebuild_edges of some papers.
Rebuilt(citers, rs) ==
    {e \in edges : e[1] \notin citers} \cup UNION {{f} \X Resolved(f, rs) : f \in citers}

LEMMA RebuiltIn ==
  ASSUME NEW citers, NEW rs, edges \subseteq Citing \X Targets, NEW e
  PROVE  e \in Rebuilt(citers, rs) <=>
            \/ e \in edges /\ e[1] \notin citers
            \/ \E f \in citers : \E x \in Resolved(f, rs) : e = <<f, x>>
<1>1. \A f : e \in {f} \X Resolved(f, rs) <=> \E x \in Resolved(f, rs) : e = <<f, x>>
  OBVIOUS
<1>2. e \in UNION {{f} \X Resolved(f, rs) : f \in citers} <=> \E f \in citers : e \in {f} \X Resolved(f, rs)
  OBVIOUS
<1> QED
  BY <1>1, <1>2 DEF Rebuilt

LEMMA RebuiltOK ==
  ASSUME TypeOK, NEW citers \in SUBSET Citing, NEW rs, RefsOK(rs)
  PROVE  /\ Rebuilt(citers, rs) \subseteq Citing \X (Targets \ {None})
         /\ \A f \in citers : Out(f, Rebuilt(citers, rs)) = Resolved(f, rs)
         /\ \A f \in Citing \ citers : Out(f, Rebuilt(citers, rs)) = Out(f, edges)
<1> DEFINE R == Rebuilt(citers, rs)
<1>1. edges \subseteq Citing \X (Targets \ {None})
  BY DEF TypeOK
<1>2. \A e : e \in R <=> \/ e \in edges /\ e[1] \notin citers
                         \/ \E f \in citers : \E x \in Resolved(f, rs) : e = <<f, x>>
  BY <1>1, RebuiltIn
<1> HIDE DEF R
<1>3. R \subseteq Citing \X (Targets \ {None})
  BY <1>1, <1>2, ResolvedOK
<1>4. ASSUME NEW f \in citers PROVE Out(f, R) = Resolved(f, rs)
  <2>1. ASSUME NEW x \in Out(f, R) PROVE x \in Resolved(f, rs)
    <3>1. PICK e \in R : e[1] = f /\ e[2] = x
      BY <2>1 DEF Out
    <3>2. PICK g \in citers : \E y \in Resolved(g, rs) : e = <<g, y>>
      BY <1>2, <3>1
    <3> QED
      BY <3>1, <3>2
  <2>2. ASSUME NEW x \in Resolved(f, rs) PROVE x \in Out(f, R)
    <3>1. <<f, x>> \in R /\ <<f, x>>[1] = f /\ <<f, x>>[2] = x
      BY <1>2
    <3> QED
      BY <3>1 DEF Out
  <2> QED
    BY <2>1, <2>2
<1>5. ASSUME NEW f \in Citing \ citers PROVE Out(f, R) = Out(f, edges)
  <2>1. \A e : e[1] = f => (e \in R <=> e \in edges)
    <3> SUFFICES ASSUME NEW e, e[1] = f PROVE e \in R <=> e \in edges
      OBVIOUS
    <3>1. \A g \in citers : \A x : e = <<g, x>> => e[1] = g
      OBVIOUS
    <3> QED
      BY <1>2, <3>1
  <2> QED
    BY <2>1 DEF Out
<1> QED
  BY <1>3, <1>4, <1>5 DEF R

LEMMA RebuiltFinite ==
  ASSUME IsFiniteSet(edges), NEW citers \in SUBSET Citing, NEW rs, RefsOK(rs)
  PROVE  IsFiniteSet(Rebuilt(citers, rs))
<1> DEFINE S == {{f} \X Resolved(f, rs) : f \in citers}
           m == [f \in citers |-> {f} \X Resolved(f, rs)]
<1>1. IsFiniteSet(citers)
  BY CitingApart, FS_Subset
<1>2. m \in Surjection(citers, S)
  BY DEF Surjection
<1>3. IsFiniteSet(S)
  BY <1>1, <1>2, FS_Surjection
<1>4. \A f \in citers : IsFiniteSet({f} \X Resolved(f, rs))
  BY ResolvedOK, FS_Singleton, FS_Product
<1>5. IsFiniteSet(UNION S)
  <2>1. \A T \in S : IsFiniteSet(T)
    BY <1>4
  <2> HIDE DEF S
  <2> QED
    BY <1>3, <2>1, FS_UNION
<1>6. IsFiniteSet({e \in edges : e[1] \notin citers})
  BY FS_Subset
<1> QED
  BY <1>5, <1>6, FS_Union DEF Rebuilt

LEMMA InDegreeNat ==
  ASSUME NEW es, IsFiniteSet(es), NEW x
  PROVE  InDegree(x, es) \in Nat /\ (InDegree(x, es) = 0 <=> \A e \in es : e[2] # x)
<1>1. IsFiniteSet({e \in es : e[2] = x})
  BY FS_Subset
<1> QED
  BY <1>1, FS_CardinalityType, FS_EmptySet DEF InDegree

\* A target that is not refreshed has the in-degree it had.
LEMMA NotRefreshed ==
  ASSUME edges \subseteq Citing \X Targets, NEW citers, NEW rs,
         NEW x, x \notin Refreshed(citers, edges, Rebuilt(citers, rs))
  PROVE  InDegree(x, Rebuilt(citers, rs)) = InDegree(x, edges)
<1> DEFINE R == Rebuilt(citers, rs)
<1>1. \A e \in edges \cup R : e[1] \in citers => e[2] # x
  BY DEF Refreshed
<1>2. \A e \in R : e \in edges \/ e[1] \in citers
  <2>1. \A f, y : <<f, y>>[1] = f
    OBVIOUS
  <2> QED
    BY <2>1, RebuiltIn
<1>3. \A e \in edges : e[1] \notin citers => e \in R
  BY RebuiltIn
<1> HIDE DEF R
<1>4. {e \in R : e[2] = x} = {e \in edges : e[2] = x}
  BY <1>1, <1>2, <1>3
<1> QED
  BY <1>4 DEF InDegree, R

StubsOK(sts) == sts \in [Titles -> [n : Nat, live : BOOLEAN, count : Nat]]

\* A row that is counted, and a stub.
Counted(p)  == citations[p] = InDegree(p, edges)

StubCounted(sts, t) == sts[t].live => sts[t].count = InDegree(<<t, sts[t].n>>, edges)

\* What rebuild_edges and refresh_counts make of the graph.
LEMMA RebuildOK ==
  ASSUME TypeOK, IsFiniteSet(edges), NEW citers \in SUBSET Citing, NEW rs, RefsOK(rs),
         NEW sts, StubsOK(sts), NEW rows \in SUBSET Ids, NEW waiting \in SUBSET rows,
         Rebuild(citers, rs, sts, rows, waiting)
  PROVE  /\ refs' = rs /\ edges' = Rebuilt(citers, rs)
         /\ edges' \subseteq Citing \X (Targets \ {None}) /\ IsFiniteSet(edges')
         /\ citations' \in [Ids -> Nat] /\ StubsOK(stubs') /\ late' \subseteq waiting
         /\ \A t \in Titles : stubs'[t].n = sts[t].n /\ stubs'[t].live = sts[t].live
         /\ \A p \in Ids \ rows : citations'[p] = citations[p]
         /\ \A p \in rows : (p \in waiting \/ Counted(p)) => (p \in late' \/ Counted(p)')
         /\ \A t \in Titles : StubCounted(sts, t) =>
               (stubs'[t].live => stubs'[t].count = InDegree(<<t, stubs'[t].n>>, edges'))
<1> DEFINE R    == Rebuilt(citers, rs)
           done == Refreshed(citers, edges, R)
<1>0. /\ refs' = rs /\ edges' = R /\ late' = waiting \ done
      /\ citations' = [p \in Ids |-> IF p \in done \cap rows THEN InDegree(p, R) ELSE citations[p]]
      /\ stubs' = [t \in Titles |->
              IF sts[t].live /\ <<t, sts[t].n>> \in done
              THEN [sts[t] EXCEPT !.count = InDegree(<<t, sts[t].n>>, R)] ELSE sts[t]]
  BY DEF Rebuild, Rebuilt
<1>1. R \subseteq Citing \X (Targets \ {None}) /\ IsFiniteSet(R)
  BY RebuiltOK, RebuiltFinite
<1>2. \A x : InDegree(x, R) \in Nat
  BY <1>1, InDegreeNat
<1>3. \A x : x \notin done => InDegree(x, R) = InDegree(x, edges)
  <2>1. edges \subseteq Citing \X Targets
    BY DEF TypeOK
  <2> QED
    BY <2>1, NotRefreshed
<1> HIDE DEF R, done
<1>4. citations' \in [Ids -> Nat]
  BY <1>0, <1>2 DEF TypeOK
<1>5. \A p \in Ids : citations'[p] = IF p \in done \cap rows THEN InDegree(p, R) ELSE citations[p]
  BY <1>0
<1>6. \A p \in rows : (p \in waiting \/ Counted(p)) => (p \in late' \/ Counted(p)')
  BY <1>0, <1>3, <1>5 DEF Counted
<1>7. ASSUME NEW t \in Titles
      PROVE  /\ stubs'[t] \in [n : Nat, live : BOOLEAN, count : Nat]
             /\ stubs'[t].n = sts[t].n /\ stubs'[t].live = sts[t].live
             /\ stubs'[t].count = IF sts[t].live /\ <<t, sts[t].n>> \in done
                                  THEN InDegree(<<t, sts[t].n>>, R) ELSE sts[t].count
  <2>1. sts[t] \in [n : Nat, live : BOOLEAN, count : Nat]
    BY DEF StubsOK
  <2>2. PICK k \in Nat : k = InDegree(<<t, sts[t].n>>, R)
    BY <1>2
  <2>3. stubs'[t] = IF sts[t].live /\ <<t, sts[t].n>> \in done THEN [sts[t] EXCEPT !.count = k] ELSE sts[t]
    BY <1>0, <2>2
  <2> QED
    BY <2>1, <2>2, <2>3
<1>8. StubsOK(stubs')
  <2>1. stubs' = [t \in Titles |-> stubs'[t]]
    BY <1>0
  <2> QED
    BY <1>7, <2>1 DEF StubsOK
<1>9. \A t \in Titles : StubCounted(sts, t) =>
         (stubs'[t].live => stubs'[t].count = InDegree(<<t, stubs'[t].n>>, edges'))
  BY <1>0, <1>3, <1>7 DEF StubCounted
<1> QED
  BY <1>0, <1>1, <1>4, <1>5, <1>6, <1>7, <1>8, <1>9 DEF R

-----------------------------------------------------------------------------
\* References that are set.

\* The same references, which may point elsewhere.
SameRefs(rs, rs0) ==
    /\ RefsOK(rs)
    /\ \A g \in Citing : /\ DOMAIN rs[g] = DOMAIN rs0[g]
                         /\ \A i \in DOMAIN rs0[g] : rs[g][i].ref = rs0[g][i].ref

LEMMA RowSet ==
  ASSUME NEW r \in Rows, NEW x \in Targets
  PROVE  /\ [r EXCEPT !.to = x] \in Rows
         /\ [r EXCEPT !.to = x].ref = r.ref /\ [r EXCEPT !.to = x].to = x
BY DEF Rows

LEMMA SeqMade ==
  ASSUME NEW S, NEW n \in Nat, NEW s \in [1..n -> S]
  PROVE  s \in Seq(S) /\ DOMAIN s = 1..n /\ Len(s) = n
OBVIOUS

LEMMA RefsMade ==
  ASSUME NEW rs0, RefsOK(rs0), NEW rs, rs = [g \in Citing |-> rs[g]],
         \A g \in Citing : /\ rs[g] = [i \in DOMAIN rs0[g] |-> rs[g][i]]
                           /\ \A i \in DOMAIN rs0[g] : rs[g][i] \in Rows /\ rs[g][i].ref = rs0[g][i].ref
  PROVE  SameRefs(rs, rs0)
<1>1. ASSUME NEW g \in Citing PROVE rs[g] \in Seq(Rows) /\ DOMAIN rs[g] = DOMAIN rs0[g]
  <2>1. Len(rs0[g]) \in Nat /\ DOMAIN rs0[g] = 1..Len(rs0[g])
    BY RefsOf
  <2>2. PICK s : s = rs[g]
    OBVIOUS
  <2>3. PICK n \in Nat : n = Len(rs0[g])
    BY <2>1
  <2>4. s = [i \in 1..n |-> s[i]] /\ \A i \in 1..n : s[i] \in Rows
    BY <2>1, <2>2, <2>3
  <2>5. s \in [1..n -> Rows]
    BY <2>4
  <2>6. s \in Seq(Rows) /\ DOMAIN s = 1..n
    BY <2>5, SeqMade
  <2> QED
    BY <2>1, <2>2, <2>3, <2>6
<1>2. rs \in [Citing -> Seq(Rows)]
  BY <1>1
<1> QED
  BY <1>1, <1>2 DEF SameRefs, RefsOK

LEMMA WrittenOK ==
  ASSUME TypeOK, NEW f \in Citing
  PROVE  /\ SameRefs(Written(f), refs)
         /\ \A g \in Citing \ {f} : Written(f)[g] = refs[g]
         /\ \A i \in DOMAIN refs[f] :
               Written(f)[f][i].to = IF i \in DOMAIN tx.match THEN tx.match[i] ELSE refs[f][i].to
<1>0. RefsOK(refs)
  BY DEF TypeOK, RefsOK
<1>1. \A i \in DOMAIN tx.match : tx.match[i] \in Targets
  BY DEF TypeOK, TxOK, Targets
<1> DEFINE row(i) == IF i \in DOMAIN tx.match THEN [refs[f][i] EXCEPT !.to = tx.match[i]] ELSE refs[f][i]
<1>2. Written(f) = [refs EXCEPT ![f] = [i \in DOMAIN refs[f] |-> row(i)]]
  BY <1>0 DEF Written, RefsOK
<1>3. \A i \in DOMAIN refs[f] :
         /\ row(i) \in Rows /\ row(i).ref = refs[f][i].ref
         /\ row(i).to = IF i \in DOMAIN tx.match THEN tx.match[i] ELSE refs[f][i].to
  BY <1>0, <1>1, RowSet, RefsOf
<1> HIDE DEF row
<1> DEFINE rs == Written(f)
<1>4. rs = [g \in Citing |-> rs[g]] /\ \A g \in Citing \ {f} : rs[g] = refs[g]
  BY <1>0, <1>2 DEF RefsOK
<1>5. rs[f] = [i \in DOMAIN refs[f] |-> row(i)]
  BY <1>0, <1>2 DEF RefsOK
<1> HIDE DEF rs
<1>6. rs[f] = [i \in DOMAIN refs[f] |-> rs[f][i]] /\ \A i \in DOMAIN refs[f] : rs[f][i] = row(i)
  BY <1>5
<1>7. \A g \in Citing : /\ rs[g] = [i \in DOMAIN refs[g] |-> rs[g][i]]
                        /\ \A i \in DOMAIN refs[g] : rs[g][i] \in Rows /\ rs[g][i].ref = refs[g][i].ref
  <2> SUFFICES ASSUME NEW g \in Citing
               PROVE  /\ rs[g] = [i \in DOMAIN refs[g] |-> rs[g][i]]
                      /\ \A i \in DOMAIN refs[g] : rs[g][i] \in Rows /\ rs[g][i].ref = refs[g][i].ref
    OBVIOUS
  <2>1. CASE g = f
    BY <1>3, <1>6, <2>1
  <2>2. CASE g # f
    <3>1. refs[g] \in Seq(Rows)
      BY <1>0 DEF RefsOK
    <3>2. refs[g] = [i \in DOMAIN refs[g] |-> refs[g][i]]
      BY <3>1
    <3> QED
      BY <1>0, <1>4, <2>2, <3>2, RefsOf
  <2> QED
    BY <2>1, <2>2
<1>8. SameRefs(rs, refs)
  BY <1>0, <1>4, <1>7, RefsMade
<1> QED
  BY <1>3, <1>4, <1>6, <1>8 DEF rs

\* The parts of a resolution (Resolve), by name.
OpenTitles == {tx.read[i].title : i \in {j \in DOMAIN tx.read : tx.match[j] = None}} \ {None}

Looked == Written(tx.paper)

Used == {t \in OpenTitles : stubs[t].live \/ Cardinality(Without(t, Looked)) >= StubMin}

MadeStubs == [t \in Titles |-> IF t \in Used /\ ~stubs[t].live
                               THEN [n |-> stubs[t].n + 1, live |-> TRUE, count |-> 0]
                               ELSE stubs[t]]

Linked == [g \in Citing |-> [i \in DOMAIN Looked[g] |->
              IF Looked[g][i].to = None /\ Looked[g][i].ref.title \in Used
              THEN [Looked[g][i] EXCEPT !.to = <<Looked[g][i].ref.title, MadeStubs[Looked[g][i].ref.title].n>>]
              ELSE Looked[g][i]]]

Relinked == Touched(tx.paper, Looked, Linked)

LEMMA ResolveIs ==
  ASSUME Resolve
  PROVE  /\ Rebuild(Relinked, Linked, MadeStubs, papers, late)
         /\ stale' = IF tx.read = [i \in DOMAIN refs[tx.paper] |-> refs[tx.paper][i].ref]
                     THEN stale \ {tx.paper} ELSE stale
         /\ tx' = NoTx
BY DEF Resolve, Relinked, Linked, MadeStubs, Used, Looked, OpenTitles, Hit

LEMMA UsedOK ==
  ASSUME TypeOK
  PROVE  OpenTitles \subseteq Titles /\ Used \subseteq Titles
<1>1. \A i \in DOMAIN tx.read : tx.read[i] \in References
  BY DEF TypeOK, TxOK
<1>2. \A i \in DOMAIN tx.read : tx.read[i].title \in Titles \cup {None}
  BY <1>1 DEF References
<1> QED
  BY <1>2 DEF OpenTitles, Used

LEMMA MadeOK ==
  ASSUME TypeOK
  PROVE  /\ StubsOK(MadeStubs)
         /\ \A t \in Titles : /\ MadeStubs[t].live <=> stubs[t].live \/ t \in Used
                              /\ stubs[t].live \/ t \notin Used => MadeStubs[t] = stubs[t]
                              /\ ~stubs[t].live /\ t \in Used =>
                                    MadeStubs[t].n = stubs[t].n + 1 /\ MadeStubs[t].count = 0
<1>1. StubsOK(stubs)
  BY DEF TypeOK, StubsOK
<1>2. \A t \in Titles : stubs[t] \in [n : Nat, live : BOOLEAN, count : Nat]
  BY <1>1 DEF StubsOK
<1>3. \A t \in Titles : [n |-> stubs[t].n + 1, live |-> TRUE, count |-> 0] \in [n : Nat, live : BOOLEAN, count : Nat]
  BY <1>2
<1> QED
  BY <1>2, <1>3 DEF MadeStubs, StubsOK

LEMMA LinkedOK ==
  ASSUME TypeOK, tx.paper \in Citing
  PROVE  /\ SameRefs(Looked, refs) /\ SameRefs(Linked, Looked) /\ SameRefs(Linked, refs)
         /\ \A g \in Citing : \A i \in DOMAIN Looked[g] :
               Linked[g][i].to = IF Looked[g][i].to = None /\ Looked[g][i].ref.title \in Used
                                 THEN <<Looked[g][i].ref.title, MadeStubs[Looked[g][i].ref.title].n>>
                                 ELSE Looked[g][i].to
<1>1. SameRefs(Looked, refs)
  BY WrittenOK DEF Looked
<1>2. RefsOK(Looked)
  BY <1>1 DEF SameRefs
<1> DEFINE stub(t) == <<t, MadeStubs[t].n>>
           row(g, i) == IF Looked[g][i].to = None /\ Looked[g][i].ref.title \in Used
                        THEN [Looked[g][i] EXCEPT !.to = stub(Looked[g][i].ref.title)]
                        ELSE Looked[g][i]
<1>3. \A t \in Used : stub(t) \in Targets
  BY UsedOK, MadeOK, StubsApart DEF StubsOK
<1>4. Linked = [g \in Citing |-> [i \in DOMAIN Looked[g] |-> row(g, i)]]
  BY DEF Linked
<1> HIDE DEF stub
<1>5. \A g \in Citing : \A i \in DOMAIN Looked[g] :
         /\ row(g, i) \in Rows /\ row(g, i).ref = Looked[g][i].ref
         /\ row(g, i).to = IF Looked[g][i].to = None /\ Looked[g][i].ref.title \in Used
                           THEN stub(Looked[g][i].ref.title) ELSE Looked[g][i].to
  BY <1>2, <1>3, RowSet, RefsOf
<1> HIDE DEF row
<1>6. /\ Linked = [g \in Citing |-> Linked[g]]
      /\ \A g \in Citing : /\ Linked[g] = [i \in DOMAIN Looked[g] |-> Linked[g][i]]
                           /\ \A i \in DOMAIN Looked[g] : Linked[g][i] = row(g, i)
  BY <1>4
<1>7. SameRefs(Linked, Looked)
  <2>1. \A g \in Citing :
          /\ Linked[g] = [i \in DOMAIN Looked[g] |-> Linked[g][i]]
          /\ \A i \in DOMAIN Looked[g] : Linked[g][i] \in Rows /\ Linked[g][i].ref = Looked[g][i].ref
    BY <1>5, <1>6
  <2> QED
    BY <1>2, <1>6, <2>1, RefsMade
<1>8. SameRefs(Linked, refs)
  BY <1>1, <1>7 DEF SameRefs
<1> QED
  BY <1>1, <1>5, <1>6, <1>7, <1>8 DEF stub

LEMMA NamedOK ==
  ASSUME TypeOK, NEW new \in SUBSET Cited
  PROVE  /\ SameRefs(Named(new), refs)
         /\ \A g \in Citing : \A i \in DOMAIN refs[g] :
               \/ Named(new)[g][i].to = refs[g][i].to
               \/ refs[g][i].to = None /\ Named(new)[g][i].to \in new
<1>0. RefsOK(refs)
  BY DEF TypeOK, RefsOK
<1> DEFINE fits(g, i) == {p \in new \ {g} : TitleOf[p] = refs[g][i].ref.title}
           chosen(g, i) == CHOOSE p \in fits(g, i) : TRUE
           row(g, i) == IF refs[g][i].to = None /\ fits(g, i) # {}
                        THEN [refs[g][i] EXCEPT !.to = chosen(g, i)] ELSE refs[g][i]
<1>1. Named(new) = [g \in Citing |-> [i \in DOMAIN refs[g] |-> row(g, i)]]
  BY DEF Named
<1>2. \A g, i : fits(g, i) # {} => chosen(g, i) \in new
  OBVIOUS
<1>3. \A x \in new : x \in Targets
  BY DEF Targets, Ids
<1> HIDE DEF fits, chosen
<1>4. \A g \in Citing : \A i \in DOMAIN refs[g] :
         /\ row(g, i) \in Rows /\ row(g, i).ref = refs[g][i].ref
         /\ row(g, i).to = IF refs[g][i].to = None /\ fits(g, i) # {}
                           THEN chosen(g, i) ELSE refs[g][i].to
  BY <1>0, <1>2, <1>3, RowSet, RefsOf
<1> HIDE DEF row
<1> DEFINE rs == Named(new)
<1> HIDE DEF rs
<1>5. /\ rs = [g \in Citing |-> rs[g]]
      /\ \A g \in Citing : /\ rs[g] = [i \in DOMAIN refs[g] |-> rs[g][i]]
                           /\ \A i \in DOMAIN refs[g] : rs[g][i] = row(g, i)
  BY <1>1 DEF rs
<1>6. SameRefs(rs, refs)
  <2>1. \A g \in Citing : /\ rs[g] = [i \in DOMAIN refs[g] |-> rs[g][i]]
                          /\ \A i \in DOMAIN refs[g] : rs[g][i] \in Rows /\ rs[g][i].ref = refs[g][i].ref
    BY <1>4, <1>5
  <2> QED
    BY <1>0, <1>5, <2>1, RefsMade
<1> QED
  BY <1>2, <1>4, <1>5, <1>6 DEF rs

-----------------------------------------------------------------------------
\* The invariants of the graph.

\* A paper without a row has no count.
Rowless == \A p \in Ids \ papers : citations[p] = 0

\* No edge leads to a stub that is still to be made.
StubsPast == \A e \in edges : IsStub(e[2]) => e[2][2] <= stubs[e[2][1]].n

\* A reference to a stub is one to the stub of its title, which is there.
StubRefs ==
    \A f \in Citing : \A i \in DOMAIN refs[f] :
        IsStub(refs[f][i].to) => refs[f][i].to = StubOf(refs[f][i].ref.title)
                                 /\ refs[f][i].ref.title \in Titles
                                 /\ stubs[refs[f][i].ref.title].live

\* What a transaction has read is what is stored, or is read again.
CurrentRefs(f) == [i \in DOMAIN refs[f] |-> refs[f][i].ref]
ReadIsCurrent == tx.paper # None => tx.read = CurrentRefs(tx.paper) \/ tx.paper \in stale

\* Where a stub is there, only papers that are not resolved yet name its title in vain.
NoneInVain ==
    \A f \in Citing \ stale : \A i \in DOMAIN refs[f] :
        refs[f][i].to = None /\ refs[f][i].ref.title \in Titles => ~stubs[refs[f][i].ref.title].live

\* Where none is, too few resolved papers do.
TooFew == \A t \in Titles : ~stubs[t].live => Cardinality(Without(t, refs) \ stale) < StubMin

(***************************************************************************)
(* The inductive invariant behind GraphInv and StubsInv.                   *)
(***************************************************************************)
GraphIInv ==
    /\ IsFiniteSet(edges)
    /\ Rowless /\ StubsPast /\ StubRefs
    /\ ReadIsCurrent /\ NoneInVain /\ TooFew
    /\ EdgesFollowRefs /\ CountsFollowEdges

LEMMA FollowIsOut == EdgesFollowRefs <=> \A f \in Citing \ stale : Out(f, edges) = Resolved(f, refs)
BY DEF EdgesFollowRefs, Out

LEMMA FewerWithout ==
  ASSUME NEW S \in SUBSET Citing, NEW T \in SUBSET S, Cardinality(S) < StubMin
  PROVE  Cardinality(T) < StubMin
<1>1. IsFiniteSet(S) /\ IsFiniteSet(T)
  BY CitingApart, FS_Subset
<1>2. Cardinality(T) <= Cardinality(S) /\ Cardinality(T) \in Nat /\ Cardinality(S) \in Nat
  BY <1>1, FS_Subset, FS_CardinalityType
<1> QED
  BY <1>2, ConstantsAssumption

LEMMA WithoutCiting ==
  ASSUME NEW t, NEW rs
  PROVE  Without(t, rs) \subseteq Citing
BY DEF Without

-----------------------------------------------------------------------------
\* A resolution.

\* The match of a resolution that has read what is stored is made of all that is stored.
LEMMA LookedIs ==
  ASSUME TypeOK, tx.paper \in Citing
  PROVE  /\ \A g \in Citing \ {tx.paper} : Looked[g] = refs[g]
         /\ \A i \in DOMAIN refs[tx.paper] :
               \/ Looked[tx.paper][i].to = refs[tx.paper][i].to
               \/ Looked[tx.paper][i].to \in Ids \cup {None}
         /\ tx.read = CurrentRefs(tx.paper) =>
               \A i \in DOMAIN refs[tx.paper] :
                  /\ Looked[tx.paper][i].to \in Ids \cup {None}
                  /\ Looked[tx.paper][i].to = None => refs[tx.paper][i].ref.title \in OpenTitles \cup {None}
<1> DEFINE f == tx.paper
<1>1. \A i \in DOMAIN tx.match : tx.match[i] \in Ids \cup {None}
  BY DEF TypeOK, TxOK
<1>2. DOMAIN tx.match = DOMAIN tx.read
  BY DEF TypeOK, TxOK
<1>3. /\ \A g \in Citing \ {f} : Looked[g] = refs[g]
      /\ \A i \in DOMAIN refs[f] :
            Looked[f][i].to = IF i \in DOMAIN tx.match THEN tx.match[i] ELSE refs[f][i].to
  BY WrittenOK DEF Looked
<1>4. ASSUME tx.read = CurrentRefs(f), NEW i \in DOMAIN refs[f]
      PROVE  /\ Looked[f][i].to \in Ids \cup {None}
             /\ Looked[f][i].to = None => refs[f][i].ref.title \in OpenTitles \cup {None}
  <2>1. i \in DOMAIN tx.read /\ tx.read[i] = refs[f][i].ref
    BY <1>4 DEF CurrentRefs
  <2>2. Looked[f][i].to = tx.match[i]
    BY <1>2, <1>3, <2>1
  <2>3. tx.match[i] = None => tx.read[i].title \in OpenTitles \cup {None}
    BY <2>1 DEF OpenTitles
  <2> QED
    BY <1>1, <1>2, <2>1, <2>2, <2>3
<1> QED
  BY <1>1, <1>3, <1>4

\* All references to stubs that a resolution leaves.
LEMMA LinkedStubs ==
  ASSUME TypeOK, tx.paper \in Citing, StubRefs, NEW g \in Citing, NEW i \in DOMAIN refs[g]
  PROVE  IsStub(Linked[g][i].to) =>
            /\ refs[g][i].ref.title \in Titles
            /\ Linked[g][i].to = <<refs[g][i].ref.title, MadeStubs[refs[g][i].ref.title].n>>
            /\ MadeStubs[refs[g][i].ref.title].live
<1> DEFINE t == refs[g][i].ref.title
<1>1. Looked[g][i].ref.title = t /\ i \in DOMAIN Looked[g]
  BY LinkedOK DEF SameRefs
<1>2. Linked[g][i].to = IF Looked[g][i].to = None /\ t \in Used
                        THEN <<t, MadeStubs[t].n>> ELSE Looked[g][i].to
  BY <1>1, LinkedOK
<1>3. CASE Looked[g][i].to = None /\ t \in Used
  BY <1>2, <1>3, UsedOK, MadeOK
<1>4. CASE Linked[g][i].to = Looked[g][i].to /\ IsStub(Looked[g][i].to)
  <2>1. Looked[g][i].to = refs[g][i].to
    BY <1>4, LookedIs, StubsApart
  <2>2. refs[g][i].to = StubOf(t) /\ t \in Titles /\ stubs[t].live
    BY <1>4, <2>1 DEF StubRefs
  <2>3. MadeStubs[t] = stubs[t]
    BY <2>2, MadeOK
  <2> QED
    BY <1>4, <2>1, <2>2, <2>3 DEF StubOf
<1> QED
  BY <1>2, <1>3, <1>4

LEMMA ResolveGraph ==
  ASSUME TypeOK, GraphIInv, tx.paper \in Citing, Resolve, UNCHANGED papers
  PROVE  /\ refs' = Linked /\ edges' = Rebuilt(Relinked, Linked)
         /\ edges' \subseteq Citing \X (Targets \ {None}) /\ IsFiniteSet(edges')
         /\ citations' \in [Ids -> Nat] /\ StubsOK(stubs') /\ late' \subseteq late
         /\ \A t \in Titles : stubs'[t].n = MadeStubs[t].n /\ stubs'[t].live = MadeStubs[t].live
         /\ Rowless' /\ CountsFollowEdges'
<1>1. Relinked \in SUBSET Citing /\ RefsOK(Linked) /\ StubsOK(MadeStubs) /\ IsFiniteSet(edges)
  BY LinkedOK, MadeOK DEF Relinked, Touched, SameRefs, GraphIInv
<1>2. papers \in SUBSET Ids /\ late \in SUBSET papers
  BY DEF TypeOK
<1>3. Rebuild(Relinked, Linked, MadeStubs, papers, late)
  BY ResolveIs
<1>4. /\ refs' = Linked /\ edges' = Rebuilt(Relinked, Linked)
      /\ edges' \subseteq Citing \X (Targets \ {None}) /\ IsFiniteSet(edges')
      /\ citations' \in [Ids -> Nat] /\ StubsOK(stubs') /\ late' \subseteq late
      /\ \A t \in Titles : stubs'[t].n = MadeStubs[t].n /\ stubs'[t].live = MadeStubs[t].live
      /\ \A p \in Ids \ papers : citations'[p] = citations[p]
      /\ \A p \in papers : (p \in late \/ Counted(p)) => (p \in late' \/ Counted(p)')
      /\ \A t \in Titles : StubCounted(MadeStubs, t) =>
            (stubs'[t].live => stubs'[t].count = InDegree(<<t, stubs'[t].n>>, edges'))
  BY <1>1, <1>2, <1>3, RebuildOK
<1>5. Rowless'
  BY <1>4 DEF Rowless, GraphIInv
<1>6. \A p \in papers' \ late' : citations'[p] = InDegree(p, edges')
  BY <1>2, <1>4 DEF GraphIInv, CountsFollowEdges, Counted
<1>7. ASSUME NEW t \in Titles PROVE StubCounted(MadeStubs, t)
  <2>1. CASE stubs[t].live \/ t \notin Used
    BY <2>1, MadeOK DEF StubCounted, GraphIInv, CountsFollowEdges, StubOf
  <2>2. CASE ~stubs[t].live /\ t \in Used
    <3>1. MadeStubs[t].n = stubs[t].n + 1 /\ MadeStubs[t].count = 0
      BY <2>2, MadeOK
    <3>2. stubs[t].n \in Nat
      BY DEF TypeOK
    <3>3. \A e \in edges : e[2] # <<t, stubs[t].n + 1>>
      <4> SUFFICES ASSUME NEW e \in edges, e[2] = <<t, stubs[t].n + 1>> PROVE FALSE
        OBVIOUS
      <4>1. IsStub(e[2]) /\ e[2][1] = t /\ e[2][2] = stubs[t].n + 1
        BY <3>2, StubsApart
      <4>2. e[2][2] <= stubs[t].n
        BY <4>1 DEF GraphIInv, StubsPast
      <4> QED
        BY <3>2, <4>1, <4>2
    <3>4. InDegree(<<t, stubs[t].n + 1>>, edges) = 0
      BY <1>1, <3>3, InDegreeNat
    <3> QED
      BY <3>1, <3>4 DEF StubCounted
  <2> QED
    BY <2>1, <2>2
<1>8. CountsFollowEdges'
  BY <1>4, <1>6, <1>7 DEF CountsFollowEdges, StubOf
<1> QED
  BY <1>4, <1>5, <1>8

\* When a resolution takes a paper off those to be read again, it has read what is stored.
LEMMA ResolvedIsCurrent ==
  ASSUME TypeOK, GraphIInv, tx.paper \in Citing, Resolve
  PROVE  /\ tx.paper \notin stale' => tx.read = CurrentRefs(tx.paper)
         /\ \A g \in Citing \ {tx.paper} : g \in stale' <=> g \in stale
<1>1. tx.paper # None
  BY CitingApart
<1>2. stale' = IF tx.read = CurrentRefs(tx.paper) THEN stale \ {tx.paper} ELSE stale
  BY ResolveIs DEF CurrentRefs
<1> QED
  BY <1>1, <1>2 DEF GraphIInv, ReadIsCurrent

LEMMA ResolveStubs ==
  ASSUME TypeOK, GraphIInv, tx.paper \in Citing, Resolve, UNCHANGED papers
  PROVE  StubsPast' /\ StubRefs' /\ ReadIsCurrent'
<1>1. /\ refs' = Linked /\ edges' = Rebuilt(Relinked, Linked)
      /\ \A t \in Titles : stubs'[t].n = MadeStubs[t].n /\ stubs'[t].live = MadeStubs[t].live
  BY ResolveGraph
<1>2. \A g \in Citing : DOMAIN Linked[g] = DOMAIN refs[g]
                        /\ \A i \in DOMAIN refs[g] : Linked[g][i].ref = refs[g][i].ref
  BY LinkedOK DEF SameRefs
<1>3. StubRefs'
  BY <1>1, <1>2, LinkedStubs DEF StubRefs, StubOf, GraphIInv
<1>4. ASSUME NEW e \in edges', IsStub(e[2]) PROVE e[2][2] <= stubs'[e[2][1]].n
  <2>1. edges \subseteq Citing \X Targets /\ \A t \in Titles : stubs[t].n \in Nat
    BY DEF TypeOK
  <2>2. CASE e \in edges
    <3>1. e[2] \in Targets
      BY <2>1, <2>2
    <3>2. e[2][1] \in Titles /\ e[2][2] \in Nat
      BY <1>4, <3>1, StubsApart
    <3>3. e[2][2] <= stubs[e[2][1]].n
      BY <1>4, <2>2 DEF GraphIInv, StubsPast
    <3>4. MadeStubs[e[2][1]].n = stubs[e[2][1]].n \/ MadeStubs[e[2][1]].n = stubs[e[2][1]].n + 1
      BY <3>2, MadeOK
    <3> QED
      BY <1>1, <2>1, <3>2, <3>3, <3>4
  <2>3. CASE \E f \in Relinked : \E x \in Resolved(f, Linked) : e = <<f, x>>
    <3>1. PICK f \in Relinked : \E x \in Resolved(f, Linked) : e = <<f, x>>
      BY <2>3
    <3>2. f \in Citing /\ e[2] \in Resolved(f, Linked)
      BY <3>1 DEF Relinked, Touched
    <3>3. PICK i \in DOMAIN Linked[f] : e[2] = Linked[f][i].to
      BY <3>2 DEF Resolved
    <3>4. i \in DOMAIN refs[f]
      BY <1>2, <3>2
    <3>5. refs[f][i].ref.title \in Titles /\ e[2] = <<refs[f][i].ref.title, MadeStubs[refs[f][i].ref.title].n>>
      BY <1>4, <3>2, <3>3, <3>4, LinkedStubs DEF GraphIInv
    <3>6. e[2][1] = refs[f][i].ref.title /\ e[2][2] = MadeStubs[e[2][1]].n /\ MadeStubs[e[2][1]].n \in Nat
      BY <3>5, MadeOK DEF StubsOK
    <3> QED
      BY <1>1, <3>5, <3>6
  <2> QED
    BY <1>1, <2>1, <2>2, <2>3, RebuiltIn
<1>5. ReadIsCurrent'
  BY ResolveIs DEF ReadIsCurrent, NoTx
<1> QED
  BY <1>3, <1>4, <1>5 DEF StubsPast

LEMMA ResolveEdges ==
  ASSUME TypeOK, GraphIInv, tx.paper \in Citing, Resolve, UNCHANGED papers
  PROVE  EdgesFollowRefs'
<1>1. refs' = Linked /\ edges' = Rebuilt(Relinked, Linked)
  BY ResolveGraph
<1>2. Relinked \in SUBSET Citing /\ RefsOK(Linked)
  BY LinkedOK DEF Relinked, Touched, SameRefs
<1>3. ASSUME NEW f \in Citing, f \notin stale' PROVE Out(f, edges') = Resolved(f, refs')
  <2>1. CASE f \in Relinked
    BY <1>1, <1>2, <2>1, RebuiltOK
  <2>2. CASE f \notin Relinked
    <3>1. f # tx.paper /\ Linked[f] = Looked[f]
      BY <2>2 DEF Relinked, Touched
    <3>2. Looked[f] = refs[f] /\ f \notin stale
      BY <1>3, <3>1, LookedIs, ResolvedIsCurrent
    <3>3. Resolved(f, Linked) = Resolved(f, refs)
      BY <3>1, <3>2 DEF Resolved
    <3>4. Out(f, edges') = Out(f, edges)
      BY <1>1, <1>2, <2>2, RebuiltOK
    <3> QED
      BY <1>1, <3>2, <3>3, <3>4, FollowIsOut DEF GraphIInv
  <2> QED
    BY <2>1, <2>2
<1> QED
  BY <1>3 DEF EdgesFollowRefs, Out

LEMMA ResolveInVain ==
  ASSUME TypeOK, GraphIInv, tx.paper \in Citing, Resolve, UNCHANGED papers
  PROVE  NoneInVain' /\ TooFew'
<1>0. NoneInVain /\ TooFew
  BY DEF GraphIInv
<1>1. /\ refs' = Linked
      /\ \A t \in Titles : stubs'[t].live <=> stubs[t].live \/ t \in Used
  BY ResolveGraph, MadeOK
<1>2. \A g \in Citing :
        /\ DOMAIN Linked[g] = DOMAIN refs[g] /\ DOMAIN Looked[g] = DOMAIN refs[g]
        /\ \A i \in DOMAIN refs[g] : Linked[g][i].ref = refs[g][i].ref /\ Looked[g][i].ref = refs[g][i].ref
  BY LinkedOK DEF SameRefs
<1>3. \A g \in Citing : \A i \in DOMAIN refs[g] :
        Linked[g][i].to = IF Looked[g][i].to = None /\ refs[g][i].ref.title \in Used
                          THEN <<refs[g][i].ref.title, MadeStubs[refs[g][i].ref.title].n>>
                          ELSE Looked[g][i].to
  BY <1>2, LinkedOK
<1>4. None \notin Titles /\ \A t \in Titles : <<t, MadeStubs[t].n>> # None
  BY StubsApart, MadeOK DEF StubsOK
<1>5. ASSUME NEW f \in Citing, f \notin stale', NEW i \in DOMAIN Linked[f],
             Linked[f][i].to = None, Linked[f][i].ref.title \in Titles
      PROVE  ~stubs'[Linked[f][i].ref.title].live
  <2> DEFINE t == refs[f][i].ref.title
  <2>1. i \in DOMAIN refs[f] /\ Linked[f][i].ref.title = t /\ t \in Titles
    BY <1>2, <1>5
  <2>2. Looked[f][i].to = None /\ t \notin Used
    BY <1>3, <1>4, <1>5, <2>1
  <2>3. CASE f = tx.paper
    <3>1. t \in OpenTitles
      BY <1>4, <1>5, <2>1, <2>2, <2>3, ResolvedIsCurrent, LookedIs
    <3>2. ~stubs[t].live
      BY <2>2, <3>1 DEF Used
    <3> QED
      BY <1>1, <2>1, <2>2, <3>2
  <2>4. CASE f # tx.paper
    <3>1. f \notin stale /\ Looked[f] = refs[f]
      BY <1>5, <2>4, ResolvedIsCurrent, LookedIs
    <3>2. ~stubs[t].live
      BY <1>0, <2>1, <2>2, <3>1 DEF NoneInVain
    <3> QED
      BY <1>1, <2>1, <2>2, <3>2
  <2> QED
    BY <2>3, <2>4
<1>6. NoneInVain'
  BY <1>1, <1>5 DEF NoneInVain
<1>7. ASSUME NEW t \in Titles, ~stubs'[t].live
      PROVE  Cardinality(Without(t, refs') \ stale') < StubMin
  <2>1. t \notin Used /\ ~stubs[t].live
    BY <1>1, <1>7
  <2>2. Without(t, Linked) \subseteq Without(t, Looked)
    <3> SUFFICES ASSUME NEW g \in Without(t, Linked) PROVE g \in Without(t, Looked)
      OBVIOUS
    <3>1. PICK i \in DOMAIN Linked[g] :
            Linked[g][i].ref.title = t /\ (Linked[g][i].to = None \/ IsStub(Linked[g][i].to))
      BY DEF Without
    <3>2. g \in Citing /\ i \in DOMAIN Looked[g] /\ Looked[g][i].ref.title = t /\ Linked[g][i].to = Looked[g][i].to
      BY <1>2, <1>3, <2>1, <3>1 DEF Without
    <3> QED
      BY <3>1, <3>2 DEF Without
  <2>3. CASE t \in OpenTitles
    <3>1. ~(Cardinality(Without(t, Looked)) >= StubMin)
      BY <2>1, <2>3 DEF Used
    <3>2. IsFiniteSet(Without(t, Looked))
      BY WithoutCiting, CitingApart, FS_Subset
    <3>3. Cardinality(Without(t, Looked)) < StubMin
      BY <3>1, <3>2, FS_CardinalityType, ConstantsAssumption
    <3> QED
      BY <1>1, <2>2, <3>3, FewerWithout, WithoutCiting
  <2>4. CASE t \notin OpenTitles
    <3>1. ASSUME NEW g \in Without(t, Looked) \ stale' PROVE g \in Without(t, refs) \ stale
      <4>1. PICK i \in DOMAIN Looked[g] :
              Looked[g][i].ref.title = t /\ (Looked[g][i].to = None \/ IsStub(Looked[g][i].to))
        BY <3>1 DEF Without
      <4>2. g \in Citing /\ i \in DOMAIN refs[g] /\ refs[g][i].ref.title = t
        BY <1>2, <3>1, <4>1 DEF Without
      <4>3. g # tx.paper
        BY <1>4, <2>4, <3>1, <4>1, <4>2, ResolvedIsCurrent, LookedIs, StubsApart
      <4>4. Looked[g] = refs[g] /\ g \notin stale
        BY <3>1, <4>2, <4>3, ResolvedIsCurrent, LookedIs
      <4> QED
        BY <4>1, <4>2, <4>4 DEF Without
    <3>2. Cardinality(Without(t, refs) \ stale) < StubMin
      BY <1>0, <2>1 DEF TooFew
    <3>3. Without(t, refs') \ stale' \subseteq Without(t, refs) \ stale
      BY <1>1, <2>2, <3>1
    <3> QED
      BY <3>2, <3>3, FewerWithout, WithoutCiting
  <2> QED
    BY <2>3, <2>4
<1> QED
  BY <1>6, <1>7 DEF TooFew

-----------------------------------------------------------------------------
\* The other writers of the graph.

LEMMA StoreOK ==
  ASSUME TypeOK, NEW f \in Citing, NEW list \in Lists, Store(f, list)
  PROVE  /\ RefsOK(refs')
         /\ \A g \in Citing \ {f} : refs'[g] = refs[g]
         /\ \A i \in DOMAIN refs'[f] : refs'[f][i].to = None
         /\ f \in stale' /\ stale \subseteq stale' /\ stale' \subseteq stale \cup {f}
<1>1. list \in Seq(References)
  BY ConstantsAssumption
<1> DEFINE s == [i \in DOMAIN list |-> [ref |-> list[i], to |-> None]]
<1>2. refs' = [refs EXCEPT ![f] = s] /\ stale' = stale \cup {f}
  BY DEF Store
<1>3. s \in [1..Len(list) -> Rows] /\ \A i \in DOMAIN s : s[i].to = None
  BY <1>1, StubsApart DEF Rows
<1> HIDE DEF s
<1>4. s \in Seq(Rows)
  BY <1>1, <1>3, SeqMade
<1>5. RefsOK(refs')
  BY <1>2, <1>4 DEF RefsOK, TypeOK
<1> QED
  BY <1>2, <1>3, <1>5 DEF TypeOK

LEMMA StoreGraph ==
  ASSUME TypeOK, GraphIInv, NEW f \in Citing, NEW list \in Lists, Store(f, list)
  PROVE  GraphIInv'
<1>1. /\ \A g \in Citing \ {f} : refs'[g] = refs[g]
      /\ \A i \in DOMAIN refs'[f] : refs'[f][i].to = None
      /\ f \in stale' /\ stale \subseteq stale'
  BY StoreOK
<1>2. UNCHANGED <<papers, citations, edges, stubs, late, tx>>
  BY DEF Store
<1>3. ~IsStub(None)
  BY StubsApart
<1>4. StubRefs'
  BY <1>1, <1>2, <1>3 DEF StubRefs, StubOf, GraphIInv
<1>5. ReadIsCurrent'
  BY <1>1, <1>2, CitingApart DEF ReadIsCurrent, CurrentRefs, GraphIInv, TypeOK, TxOK
<1>6. NoneInVain'
  BY <1>1, <1>2 DEF NoneInVain, GraphIInv
<1>7. ASSUME NEW t \in Titles, ~stubs[t].live
      PROVE  Cardinality(Without(t, refs') \ stale') < StubMin
  <2>1. Without(t, refs') \ stale' \subseteq Without(t, refs) \ stale
    BY <1>1 DEF Without
  <2>2. Cardinality(Without(t, refs) \ stale) < StubMin
    BY <1>7 DEF GraphIInv, TooFew
  <2> QED
    BY <2>1, <2>2, FewerWithout, WithoutCiting
<1>8. TooFew'
  BY <1>2, <1>7 DEF TooFew
<1>9. EdgesFollowRefs'
  <2>1. \A g \in Citing \ stale' : g \notin stale /\ Resolved(g, refs') = Resolved(g, refs)
    BY <1>1 DEF Resolved
  <2> QED
    BY <1>2, <2>1 DEF EdgesFollowRefs, GraphIInv
<1>10. Rowless' /\ StubsPast' /\ CountsFollowEdges' /\ IsFiniteSet(edges')
  BY <1>2 DEF Rowless, StubsPast, CountsFollowEdges, StubOf, GraphIInv
<1> QED
  BY <1>4, <1>5, <1>6, <1>8, <1>9, <1>10 DEF GraphIInv

\* Without the stubs that nothing points to.
LEMMA CleanOK ==
  ASSUME TypeOK, IsFiniteSet(edges), CliClean
  PROVE  /\ StubsOK(stubs')
         /\ \A t \in Titles : /\ stubs'[t].n = stubs[t].n
                              /\ stubs'[t].live <=> stubs[t].live /\ ~Orphan(t)
                              /\ stubs'[t].live => stubs'[t].count = InDegree(StubOf(t), edges)
<1>1. ASSUME NEW t \in Titles
      PROVE  /\ stubs'[t] \in [n : Nat, live : BOOLEAN, count : Nat]
             /\ stubs'[t].n = stubs[t].n
             /\ stubs'[t].live <=> stubs[t].live /\ ~Orphan(t)
             /\ stubs'[t].live => stubs'[t].count = InDegree(StubOf(t), edges)
  <2>1. stubs[t] \in [n : Nat, live : BOOLEAN, count : Nat]
    BY DEF TypeOK
  <2>2. PICK k \in Nat : k = InDegree(StubOf(t), edges)
    BY InDegreeNat
  <2>3. CASE Orphan(t)
    <3>1. stubs'[t] = [stubs[t] EXCEPT !.live = FALSE, !.count = 0]
      BY <2>3 DEF CliClean
    <3>2. PICK s : s = stubs[t]
      OBVIOUS
    <3>3. PICK r : r = [s EXCEPT !.live = FALSE, !.count = 0]
      OBVIOUS
    <3>4. r \in [n : Nat, live : BOOLEAN, count : Nat] /\ r.n = s.n /\ ~r.live
      BY <2>1, <3>2, <3>3
    <3> QED
      BY <2>3, <3>1, <3>2, <3>3, <3>4
  <2>4. CASE ~Orphan(t) /\ stubs[t].live
    <3>1. stubs'[t] = [stubs[t] EXCEPT !.count = k]
      BY <2>2, <2>4 DEF CliClean
    <3> QED
      BY <2>1, <2>2, <2>4, <3>1
  <2>5. CASE ~Orphan(t) /\ ~stubs[t].live
    <3>1. stubs'[t] = stubs[t]
      BY <2>5 DEF CliClean
    <3> QED
      BY <2>1, <2>5, <3>1
  <2> QED
    BY <2>3, <2>4, <2>5
<1>2. stubs' = [t \in Titles |-> stubs'[t]]
  BY DEF CliClean
<1>3. StubsOK(stubs')
  BY <1>1, <1>2 DEF StubsOK
<1> QED
  BY <1>1, <1>3

LEMMA CleanGraph ==
  ASSUME TypeOK, GraphIInv, CliClean
  PROVE  GraphIInv'
<1>0. IsFiniteSet(edges) /\ NoneInVain /\ StubRefs /\ TooFew
  BY DEF GraphIInv
<1>1. \A t \in Titles : /\ stubs'[t].n = stubs[t].n
                        /\ stubs'[t].live <=> stubs[t].live /\ ~Orphan(t)
                        /\ stubs'[t].live => stubs'[t].count = InDegree(StubOf(t), edges)
  BY <1>0, CleanOK
<1>2. UNCHANGED <<papers, citations, refs, edges, late, tx, stale>>
  BY DEF CliClean, roundVars
<1>3. StubRefs'
  <2> SUFFICES ASSUME NEW f \in Citing, NEW i \in DOMAIN refs[f], IsStub(refs[f][i].to)
               PROVE  /\ refs[f][i].to = <<refs[f][i].ref.title, stubs'[refs[f][i].ref.title].n>>
                      /\ refs[f][i].ref.title \in Titles
                      /\ stubs'[refs[f][i].ref.title].live
    BY <1>2 DEF StubRefs, StubOf
  <2> DEFINE t == refs[f][i].ref.title
  <2>1. refs[f][i].to = StubOf(t) /\ t \in Titles /\ stubs[t].live
    BY <1>0 DEF StubRefs
  <2>2. ~Orphan(t)
    BY <2>1 DEF Orphan
  <2> QED
    BY <1>1, <2>1, <2>2 DEF StubOf
<1>4. NoneInVain'
  BY <1>0, <1>1, <1>2 DEF NoneInVain
<1>5. ASSUME NEW t \in Titles, ~stubs'[t].live
      PROVE  Cardinality(Without(t, refs) \ stale) < StubMin
  <2>1. CASE ~stubs[t].live
    BY <1>0, <2>1 DEF TooFew
  <2>2. CASE stubs[t].live
    <3>1. Orphan(t)
      BY <1>1, <1>5, <2>2
    <3>2. ASSUME NEW g \in Without(t, refs), g \notin stale PROVE FALSE
      <4>1. PICK i \in DOMAIN refs[g] :
              refs[g][i].ref.title = t /\ (refs[g][i].to = None \/ IsStub(refs[g][i].to))
        BY <3>2 DEF Without
      <4>2. g \in Citing
        BY <3>2 DEF Without
      <4>3. refs[g][i].to # None
        BY <1>0, <2>2, <3>2, <4>1, <4>2 DEF NoneInVain
      <4>4. refs[g][i].to = StubOf(t)
        BY <1>0, <4>1, <4>2, <4>3 DEF StubRefs
      <4> QED
        BY <3>1, <4>1, <4>2, <4>4 DEF Orphan
    <3>3. Without(t, refs) \ stale = {}
      BY <3>2
    <3> QED
      <4>1. Cardinality(Without(t, refs) \ stale) = 0
        BY <3>3, FS_EmptySet
      <4> QED
        BY <4>1, ConstantsAssumption
  <2> QED
    BY <2>1, <2>2
<1>6. TooFew'
  BY <1>2, <1>5 DEF TooFew
<1>7. CountsFollowEdges'
  BY <1>1, <1>2 DEF CountsFollowEdges, StubOf, GraphIInv
<1>8. StubsPast'
  <2>1. \A e \in edges : IsStub(e[2]) => e[2][1] \in Titles
    BY StubsApart DEF TypeOK
  <2> QED
    BY <1>1, <1>2, <2>1 DEF StubsPast, GraphIInv
<1>9. Rowless' /\ ReadIsCurrent' /\ EdgesFollowRefs' /\ IsFiniteSet(edges')
  BY <1>2 DEF Rowless, ReadIsCurrent, CurrentRefs, EdgesFollowRefs, GraphIInv
<1> QED
  BY <1>3, <1>4, <1>6, <1>7, <1>8, <1>9 DEF GraphIInv

\* The parts of the fetcher's transaction.
Renamed == {g \in Citing : Named(asked.got)[g] # refs[g]}

LEMMA MetaIs ==
  ASSUME TypeOK, IsFiniteSet(edges), MetaCommit
  PROVE  /\ asked.got \in SUBSET Cited /\ SameRefs(Named(asked.got), refs)
         /\ Renamed \in SUBSET Citing
         /\ papers' = papers \cup asked.got /\ papers' \in SUBSET Ids
         /\ refs' = Named(asked.got) /\ edges' = Rebuilt(Renamed, Named(asked.got))
         /\ edges' \subseteq Citing \X (Targets \ {None}) /\ IsFiniteSet(edges')
         /\ citations' \in [Ids -> Nat] /\ StubsOK(stubs') /\ late' \subseteq papers'
         /\ \A t \in Titles : stubs'[t].n = stubs[t].n /\ stubs'[t].live = stubs[t].live
         /\ Rowless => Rowless'
         /\ Rowless /\ CountsFollowEdges => CountsFollowEdges'
<1> DEFINE new     == asked.got
           waiting == late \cup {p \in new \ papers : InDegree(p, edges) > 0}
<1>1. new \in SUBSET Cited
  BY DEF TypeOK, AskedOK
<1>2. SameRefs(Named(new), refs)
  BY <1>1, NamedOK
<1>3. RefsOK(Named(new)) /\ StubsOK(stubs) /\ Renamed \in SUBSET Citing
  BY <1>2 DEF SameRefs, TypeOK, StubsOK, Renamed
<1>4. papers' = papers \cup new /\ papers' \in SUBSET Ids /\ waiting \in SUBSET papers'
  BY <1>1 DEF MetaCommit, TypeOK, Ids
<1>5. Rebuild(Renamed, Named(new), stubs, papers', waiting)
  BY <1>4 DEF MetaCommit, Renamed
<1> HIDE DEF waiting
<1>6. PICK rows : rows = papers'
  OBVIOUS
<1>7. /\ refs' = Named(new) /\ edges' = Rebuilt(Renamed, Named(new))
      /\ edges' \subseteq Citing \X (Targets \ {None}) /\ IsFiniteSet(edges')
      /\ citations' \in [Ids -> Nat] /\ StubsOK(stubs') /\ late' \subseteq waiting
      /\ \A t \in Titles : stubs'[t].n = stubs[t].n /\ stubs'[t].live = stubs[t].live
      /\ \A p \in Ids \ rows : citations'[p] = citations[p]
      /\ \A p \in rows : (p \in waiting \/ Counted(p)) => (p \in late' \/ Counted(p)')
      /\ \A t \in Titles : StubCounted(stubs, t) =>
            (stubs'[t].live => stubs'[t].count = InDegree(<<t, stubs'[t].n>>, edges'))
  <2> HIDE DEF new
  <2>1. Rebuild(Renamed, Named(new), stubs, rows, waiting) /\ rows \in SUBSET Ids /\ waiting \in SUBSET rows
    BY <1>4, <1>5, <1>6
  <2> QED
    BY <1>3, <2>1, RebuildOK
<1>8. Rowless => Rowless'
  BY <1>4, <1>6, <1>7 DEF Rowless
<1>9. ASSUME Rowless, CountsFollowEdges PROVE CountsFollowEdges'
  <2>1. ASSUME NEW p \in rows PROVE p \in waiting \/ Counted(p)
    <3>1. CASE p \in papers
      BY <1>9, <3>1 DEF waiting, Counted, CountsFollowEdges
    <3>2. CASE p \notin papers
      <4>1. InDegree(p, edges) \in Nat /\ p \in new /\ citations[p] = 0
        BY <1>4, <1>6, <1>9, <2>1, <3>2, InDegreeNat DEF Rowless
      <4> QED
        BY <3>2, <4>1 DEF waiting, Counted
    <3> QED
      BY <3>1, <3>2
  <2>2. \A p \in papers' \ late' : citations'[p] = InDegree(p, edges')
    BY <1>6, <1>7, <2>1 DEF Counted
  <2>3. \A t \in Titles : StubCounted(stubs, t)
    BY <1>9 DEF StubCounted, CountsFollowEdges, StubOf
  <2> QED
    BY <1>7, <2>2, <2>3 DEF CountsFollowEdges, StubOf
<1> QED
  BY <1>1, <1>2, <1>3, <1>4, <1>7, <1>8, <1>9

LEMMA MetaGraph ==
  ASSUME TypeOK, GraphIInv, MetaCommit
  PROVE  GraphIInv'
<1>0. /\ IsFiniteSet(edges) /\ NoneInVain /\ StubRefs /\ TooFew
      /\ Rowless /\ StubsPast /\ CountsFollowEdges /\ ReadIsCurrent
  BY DEF GraphIInv
<1> DEFINE rs == Named(asked.got)
<1>1. /\ asked.got \in SUBSET Cited /\ SameRefs(rs, refs) /\ Renamed \in SUBSET Citing
      /\ refs' = rs /\ edges' = Rebuilt(Renamed, rs) /\ IsFiniteSet(edges')
      /\ \A t \in Titles : stubs'[t].n = stubs[t].n /\ stubs'[t].live = stubs[t].live
      /\ Rowless' /\ CountsFollowEdges'
  BY <1>0, MetaIs
<1>2. UNCHANGED <<tx, stale>>
  BY DEF MetaCommit, roundVars
<1>3. \A g \in Citing :
        /\ DOMAIN rs[g] = DOMAIN refs[g]
        /\ \A i \in DOMAIN refs[g] :
              /\ rs[g][i].ref = refs[g][i].ref
              /\ \/ rs[g][i].to = refs[g][i].to
                 \/ /\ refs[g][i].to = None /\ rs[g][i].to \in Ids
                    /\ rs[g][i].to # None /\ ~IsStub(rs[g][i].to)
  <2>1. \A p \in asked.got : p \in Ids /\ p # None /\ ~IsStub(p)
    BY <1>1, StubsApart DEF Ids
  <2> QED
    BY <1>1, <2>1, NamedOK DEF SameRefs
<1>4. RefsOK(rs)
  BY <1>1 DEF SameRefs
<1> HIDE DEF rs
<1>5. StubRefs'
  BY <1>0, <1>1, <1>3 DEF StubRefs, StubOf
<1>6. NoneInVain'
  BY <1>0, <1>1, <1>2, <1>3 DEF NoneInVain
<1>7. ASSUME NEW t \in Titles, ~stubs[t].live
      PROVE  Cardinality(Without(t, rs) \ stale) < StubMin
  <2>1. Without(t, rs) \subseteq Without(t, refs)
    BY <1>3 DEF Without
  <2>2. Without(t, rs) \ stale \subseteq Without(t, refs) \ stale
    BY <2>1
  <2>3. Cardinality(Without(t, refs) \ stale) < StubMin
    BY <1>0, <1>7 DEF TooFew
  <2> QED
    BY <2>2, <2>3, FewerWithout, WithoutCiting
<1>8. TooFew'
  BY <1>1, <1>2, <1>7 DEF TooFew
<1>9. ReadIsCurrent'
  <2>1. \A g \in Citing : CurrentRefs(g)' = CurrentRefs(g)
    BY <1>1, <1>3 DEF CurrentRefs
  <2>2. tx.paper \in Citing \cup {None}
    BY DEF TypeOK, TxOK
  <2> QED
    BY <1>0, <1>2, <2>1, <2>2 DEF ReadIsCurrent
<1>10. ASSUME NEW f \in Citing, f \notin stale PROVE Out(f, edges') = Resolved(f, rs)
  <2>1. CASE f \in Renamed
    BY <1>1, <1>4, <2>1, RebuiltOK
  <2>2. CASE f \notin Renamed
    <3>1. rs[f] = refs[f]
      BY <2>2 DEF Renamed, rs
    <3>2. Resolved(f, rs) = Resolved(f, refs)
      BY <3>1 DEF Resolved
    <3>3. Out(f, edges') = Out(f, edges)
      BY <1>1, <1>4, <2>2, RebuiltOK
    <3> QED
      BY <1>10, <3>2, <3>3, FollowIsOut DEF GraphIInv
  <2> QED
    BY <2>1, <2>2
<1>11. EdgesFollowRefs'
  BY <1>1, <1>2, <1>10 DEF EdgesFollowRefs, Out
<1>12. ASSUME NEW e \in edges', IsStub(e[2]) PROVE e[2][2] <= stubs'[e[2][1]].n
  <2>1. edges \subseteq Citing \X Targets
    BY DEF TypeOK
  <2>2. CASE e \in edges
    <3>1. e[2] \in Targets
      BY <2>1, <2>2
    <3> QED
      BY <1>0, <1>1, <1>12, <2>2, <3>1, StubsApart DEF StubsPast
  <2>3. CASE \E f \in Renamed : \E x \in Resolved(f, rs) : e = <<f, x>>
    <3>1. PICK f \in Renamed : \E x \in Resolved(f, rs) : e = <<f, x>>
      BY <2>3
    <3>2. f \in Citing /\ e[2] \in Resolved(f, rs)
      BY <1>1, <3>1
    <3>3. PICK i \in DOMAIN rs[f] : e[2] = rs[f][i].to
      BY <3>2 DEF Resolved
    <3>4. i \in DOMAIN refs[f] /\ e[2] = refs[f][i].to
      BY <1>3, <1>12, <3>2, <3>3
    <3>5. /\ e[2] = <<refs[f][i].ref.title, stubs[refs[f][i].ref.title].n>>
          /\ refs[f][i].ref.title \in Titles
      BY <1>0, <1>12, <3>2, <3>4 DEF StubRefs, StubOf
    <3>6. e[2][1] \in Titles /\ e[2][2] = stubs[e[2][1]].n /\ stubs[e[2][1]].n \in Nat
      BY <3>5 DEF TypeOK
    <3> QED
      BY <1>1, <3>6
  <2> QED
    BY <1>1, <2>1, <2>2, <2>3, RebuiltIn
<1> QED
  BY <1>1, <1>5, <1>6, <1>8, <1>9, <1>11, <1>12 DEF GraphIInv, StubsPast

LEMMA InsertGraph ==
  ASSUME TypeOK, GraphIInv, NEW p \in Cited, Insert(p)
  PROVE  GraphIInv' /\ papers' \in SUBSET Ids /\ late' \subseteq papers'
<1>1. /\ p \notin papers /\ papers' = papers \cup {p}
      /\ late' = late \cup (IF InDegree(p, edges) > 0 THEN {p} ELSE {})
      /\ UNCHANGED <<citations, refs, edges, stubs, tx, stale>>
  BY DEF Insert, roundVars
<1>2. p \in Ids
  BY DEF Ids
<1>3. InDegree(p, edges) \in Nat /\ citations[p] = 0
  BY <1>1, <1>2, InDegreeNat DEF GraphIInv, Rowless
<1>4. \A q \in papers' \ late' : citations[q] = InDegree(q, edges)
  <2>1. p \notin late' => InDegree(p, edges) = 0
    BY <1>1, <1>3
  <2> QED
    BY <1>1, <1>3, <2>1 DEF GraphIInv, CountsFollowEdges
<1>5. CountsFollowEdges'
  BY <1>1, <1>4 DEF GraphIInv, CountsFollowEdges, StubOf
<1>6. /\ IsFiniteSet(edges') /\ Rowless' /\ StubsPast' /\ StubRefs' /\ ReadIsCurrent' /\ NoneInVain'
      /\ EdgesFollowRefs'
  BY <1>1 DEF GraphIInv, Rowless, StubsPast, StubRefs, StubOf, ReadIsCurrent, CurrentRefs, NoneInVain,
              EdgesFollowRefs
<1>7. TooFew'
  BY <1>1 DEF GraphIInv, TooFew
<1> QED
  BY <1>1, <1>2, <1>5, <1>6, <1>7 DEF GraphIInv, TypeOK

-----------------------------------------------------------------------------
\* Types.

LEMMA NoTxOK ==
  /\ NoTx \in [by : {None, "worker", "cli"}, paper : Citing \cup {None}, read : Seq(References),
               match : Seq(Ids \cup {None}), missing : SUBSET Cited]
  /\ NoTx.by = None /\ NoTx.paper = None /\ NoTx.by # "worker" /\ NoTx.by # "cli"
  /\ NoTx.match = <<>> /\ NoTx.read = <<>>
<1>1. None # "worker" /\ None # "cli"
  BY ConstantsAssumption
<1>2. <<>> \in Seq(References) /\ <<>> \in Seq(Ids \cup {None})
  OBVIOUS
<1> QED
  BY <1>1, <1>2 DEF NoTx

LEMMA NoJobOK ==
  /\ NoJob \in [ids : SUBSET Cited, attempt : 0..MaxRounds, got : SUBSET Cited, answered : BOOLEAN]
  /\ NoJob.ids = {} /\ NoJob.got = {} /\ ~NoJob.answered
<1>1. 0 \in 0..MaxRounds
  BY ConstantsAssumption
<1> QED
  BY <1>1 DEF NoJob

\* The lock is taken for a paper and its references are read.
LEMMA LookOK ==
  ASSUME TypeOK, NEW by \in {"worker", "cli"}, NEW f \in Citing, Look(by, f)
  PROVE  /\ tx' \in [by : {None, "worker", "cli"}, paper : Citing \cup {None}, read : Seq(References),
                     match : Seq(Ids \cup {None}), missing : SUBSET Cited]
         /\ tx'.by = by /\ tx'.paper = f /\ DOMAIN tx'.match = DOMAIN tx'.read
         /\ tx'.read = CurrentRefs(f)
         /\ \A i \in DOMAIN tx'.read : tx'.read[i].id \in papers \cup Catalog \cup {None} \cup tx'.missing
<1> DEFINE D == DOMAIN refs[f]
           read == [i \in D |-> refs[f][i].ref]
           missing == {refs[f][i].ref.id : i \in D} \ ({None} \cup papers \cup Catalog)
<1>0. RefsOK(refs)
  BY DEF TypeOK, RefsOK
<1>1. PICK match \in [D -> Ids \cup {None}] :
        tx' = [by |-> by, paper |-> f, read |-> read, match |-> match, missing |-> missing]
  BY DEF Look
<1>2. Len(refs[f]) \in Nat /\ D = 1..Len(refs[f]) /\ \A i \in D : refs[f][i].ref \in References
  BY <1>0, RefsOf
<1>3. read \in Seq(References) /\ DOMAIN read = D
  <2>1. read \in [1..Len(refs[f]) -> References]
    BY <1>2
  <2> QED
    BY <1>2, <2>1, SeqMade
<1>4. match \in Seq(Ids \cup {None}) /\ DOMAIN match = D
  BY <1>2, SeqMade
<1>5. missing \in SUBSET Cited
  <2>1. \A i \in D : refs[f][i].ref.id \in Ids \cup {None}
    BY <1>2 DEF References
  <2>2. Citing \subseteq papers
    BY DEF TypeOK
  <2> QED
    BY <2>1, <2>2 DEF Ids
<1>6. \A i \in D : refs[f][i].ref.id \in papers \cup Catalog \cup {None} \cup missing
  OBVIOUS
<1>7. read = CurrentRefs(f) /\ \A i \in D : read[i].id = refs[f][i].ref.id
  BY DEF CurrentRefs
<1> HIDE DEF D, read, missing
<1> QED
  BY <1>1, <1>3, <1>4, <1>5, <1>6, <1>7

LEMMA TxTyping ==
  ASSUME TypeOK, Next
  PROVE  TxOK'
<1>0. TxOK
  BY DEF TypeOK
<1>1. CASE UNCHANGED <<tx, cli>>
  BY <1>0, <1>1 DEF TxOK
<1>2. CASE tx' = NoTx
  BY <1>2, NoTxOK DEF TxOK
<1>3. ASSUME NEW f \in Citing, WorkerLook(f) PROVE TxOK'
  <2>1. Look("worker", f)
    BY <1>3 DEF WorkerLook
  <2> QED
    BY <2>1, LookOK, CitingApart, ConstantsAssumption DEF TxOK
<1>4. ASSUME NEW f \in Citing, CliLook(f) PROVE TxOK'
  <2>1. Look("cli", f) /\ f \in cli.todo /\ UNCHANGED cli /\ tx = NoTx
    BY <1>4 DEF CliLook, cliVars, Look
  <2>2. cli.todo # {} => cli.on
    BY DEF TypeOK
  <2> QED
    BY <2>1, <2>2, LookOK, CitingApart, ConstantsAssumption DEF TxOK
<1>5. CASE CliStart
  <2>1. tx.by # "cli" /\ UNCHANGED tx
    BY <1>0, <1>5 DEF CliStart, TxOK
  <2> QED
    BY <1>0, <2>1 DEF TxOK
<1>6. CASE CliClean
  BY <1>2, <1>6 DEF CliClean
<1>7. CASE CliCrash
  <2>1. CASE tx.by = "cli"
    BY <1>2, <1>7, <2>1 DEF CliCrash
  <2>2. CASE tx.by # "cli"
    BY <1>0, <1>7, <2>2 DEF CliCrash, TxOK
  <2> QED
    BY <2>1, <2>2
<1>8. CASE WorkerCrash
  BY <1>1, <1>2, <1>8 DEF WorkerCrash, cliVars
<1>9. CASE WorkerCommit \/ CliCommit
  BY <1>2, <1>9, ResolveIs DEF WorkerCommit, CliCommit
<1> QED
  BY <1>1, <1>3, <1>4, <1>5, <1>6, <1>7, <1>8, <1>9
     DEF Next, cliVars, Store, Srem, WorkerAsk, MetaPop, MetaFail, MetaAnswer, MetaCommit, Insert, FetcherCrash

\* What is asked for.
LEMMA CallsOK ==
  ASSUME TypeOK
  PROVE  /\ \A ids \in SUBSET Cited : EnqueueMeta(ids) =>
               /\ metaq' \in Seq(Calls) /\ \A i \in DOMAIN metaq' : metaq'[i].ids # {}
         /\ MetaPop =>
               /\ metaq' \in Seq(Calls) /\ \A i \in DOMAIN metaq' : metaq'[i].ids # {}
         /\ MetaFail =>
               /\ metaq' \in Seq(Calls) /\ \A i \in DOMAIN metaq' : metaq'[i].ids # {}
<1>0. metaq \in Seq(Calls) /\ \A i \in DOMAIN metaq : metaq[i].ids # {}
  BY DEF TypeOK
<1>1. ASSUME NEW c \in Calls, c.ids # {}, metaq' = Append(metaq, c)
      PROVE  /\ metaq' \in Seq(Calls) /\ \A i \in DOMAIN metaq' : metaq'[i].ids # {}
  <2>1. /\ metaq' \in Seq(Calls) /\ Len(metaq') = Len(metaq) + 1
        /\ \A i \in 1..Len(metaq) : metaq'[i] = metaq[i]
        /\ metaq'[Len(metaq) + 1] = c
    BY <1>0, <1>1
  <2>2. DOMAIN metaq' = 1..(Len(metaq) + 1) /\ DOMAIN metaq = 1..Len(metaq) /\ Len(metaq) \in Nat
    BY <1>0, <2>1
  <2>3. \A i \in DOMAIN metaq' : i \in DOMAIN metaq \/ i = Len(metaq) + 1
    BY <2>2
  <2> QED
    BY <1>0, <1>1, <2>1, <2>2, <2>3
<1>2. ASSUME NEW ids \in SUBSET Cited, EnqueueMeta(ids)
      PROVE  /\ metaq' \in Seq(Calls) /\ \A i \in DOMAIN metaq' : metaq'[i].ids # {}
  <2>1. [ids |-> ids, attempt |-> 1] \in Calls
    BY ConstantsAssumption DEF Calls
  <2> QED
    BY <1>0, <1>1, <1>2, <2>1 DEF EnqueueMeta
<1>3. ASSUME MetaPop
      PROVE  /\ metaq' \in Seq(Calls) /\ \A i \in DOMAIN metaq' : metaq'[i].ids # {}
  <2>1. metaq' = Tail(metaq) /\ metaq # <<>>
    BY <1>3 DEF MetaPop
  <2>2. metaq' \in Seq(Calls) /\ \A i \in DOMAIN metaq' : i + 1 \in DOMAIN metaq /\ metaq'[i] = metaq[i + 1]
    BY <1>0, <2>1
  <2> QED
    BY <1>0, <2>2
<1>4. ASSUME MetaFail
      PROVE  /\ metaq' \in Seq(Calls) /\ \A i \in DOMAIN metaq' : metaq'[i].ids # {}
  <2>1. CASE asked.attempt < MaxRounds
    <3>1. asked.ids \in SUBSET Cited /\ asked.ids # {} /\ asked.attempt + 1 \in 1..MaxRounds
      BY <1>4, <2>1, ConstantsAssumption DEF MetaFail, TypeOK, AskedOK
    <3>2. [ids |-> asked.ids, attempt |-> asked.attempt + 1] \in Calls
      BY <3>1 DEF Calls
    <3> QED
      BY <1>1, <1>4, <2>1, <3>1, <3>2 DEF MetaFail
  <2> QED
    BY <1>0, <1>4, <2>1 DEF MetaFail
<1> QED
  BY <1>2, <1>3, <1>4

LEMMA AskedTyping ==
  ASSUME TypeOK, Next
  PROVE  AskedOK'
<1>0. AskedOK
  BY DEF TypeOK
<1>1. CASE UNCHANGED asked
  BY <1>0, <1>1 DEF AskedOK
<1>2. CASE asked' = NoJob
  BY <1>2, NoJobOK DEF AskedOK
<1>3. CASE MetaPop
  <2>1. Head(metaq) \in Calls
    BY <1>3 DEF MetaPop, TypeOK
  <2> DEFINE missing == Head(metaq).ids \ papers
  <2>2. CASE missing = {}
    BY <1>2, <1>3, <2>2 DEF MetaPop
  <2>3. CASE missing # {}
    <3>1. PICK a : a = [NoJob EXCEPT !.ids = missing, !.attempt = Head(metaq).attempt]
      OBVIOUS
    <3>2. asked' = a
      BY <1>3, <2>3, <3>1 DEF MetaPop
    <3>3. missing \in SUBSET Cited /\ Head(metaq).attempt \in 1..MaxRounds
      BY <2>1 DEF Calls
    <3>4. Head(metaq).attempt \in 0..MaxRounds /\ Head(metaq).attempt > 0
      BY <3>3, ConstantsAssumption
    <3>5. /\ a \in [ids : SUBSET Cited, attempt : 0..MaxRounds, got : SUBSET Cited, answered : BOOLEAN]
          /\ a.ids = missing /\ a.attempt = Head(metaq).attempt /\ a.got = NoJob.got
      BY <3>1, <3>3, <3>4, NoJobOK
    <3> QED
      BY <2>3, <3>2, <3>4, <3>5, NoJobOK DEF AskedOK
  <2> QED
    BY <2>2, <2>3
<1>4. CASE MetaAnswer
  <2>1. PICK got \in SUBSET asked.ids : asked' = [asked EXCEPT !.got = got, !.answered = TRUE]
    BY <1>4 DEF MetaAnswer
  <2>2. asked # NoJob
    BY <1>4 DEF MetaAnswer
  <2>3. PICK a : a = [asked EXCEPT !.got = got, !.answered = TRUE]
    OBVIOUS
  <2>4. /\ a \in [ids : SUBSET Cited, attempt : 0..MaxRounds, got : SUBSET Cited, answered : BOOLEAN]
        /\ a.ids = asked.ids /\ a.attempt = asked.attempt /\ a.got = got
    BY <1>0, <2>3 DEF AskedOK
  <2> QED
    BY <1>0, <2>1, <2>2, <2>3, <2>4 DEF AskedOK
<1>5. CASE MetaFail \/ MetaCommit \/ FetcherCrash
  BY <1>2, <1>5 DEF MetaFail, MetaCommit, FetcherCrash
<1> QED
  BY <1>1, <1>3, <1>4, <1>5
     DEF Next, fetchVars, Store, WorkerLook, CliLook, Srem, WorkerAsk, WorkerCommit, CliCommit, CliStart,
         CliClean, Insert, WorkerCrash, CliCrash

TailOK == tail \in [Citing -> [step : {"none", "srem", "ask"}, ids : SUBSET Cited]]
CliOK  == cli \in [on : BOOLEAN, todo : SUBSET stored, ids : SUBSET Cited] /\ (cli.todo # {} => cli.on)

LEMMA TailTyping ==
  ASSUME TypeOK, Next
  PROVE  TailOK'
<1>0. TailOK
  BY DEF TypeOK, TailOK
<1>1. NoTail \in [step : {"none", "srem", "ask"}, ids : SUBSET Cited]
  BY DEF NoTail
<1>2. CASE UNCHANGED tail
  BY <1>0, <1>2 DEF TailOK
<1>3. CASE WorkerCommit
  <2>1. tx.missing \in SUBSET Cited
    BY DEF TypeOK, TxOK
  <2>2. PICK r : r = [step |-> "srem", ids |-> tx.missing]
    OBVIOUS
  <2>3. r \in [step : {"none", "srem", "ask"}, ids : SUBSET Cited] /\ tail' = [tail EXCEPT ![tx.paper] = r]
    BY <1>3, <2>1, <2>2 DEF WorkerCommit
  <2> QED
    BY <1>0, <2>3 DEF TailOK
<1>4. ASSUME NEW f \in Citing, Srem(f) PROVE TailOK'
  <2>1. PICK r : r = [tail[f] EXCEPT !.step = "ask"]
    OBVIOUS
  <2>2. r \in [step : {"none", "srem", "ask"}, ids : SUBSET Cited]
    BY <1>0, <2>1 DEF TailOK
  <2>3. tail' = [tail EXCEPT ![f] = r]
    BY <1>4, <2>1 DEF Srem
  <2> QED
    BY <1>0, <2>2, <2>3 DEF TailOK
<1>5. ASSUME NEW f \in Citing, WorkerAsk(f) PROVE TailOK'
  BY <1>0, <1>1, <1>5 DEF WorkerAsk, TailOK
<1>6. CASE WorkerCrash
  BY <1>1, <1>6 DEF WorkerCrash, TailOK
<1> QED
  BY <1>2, <1>3, <1>4, <1>5, <1>6
     DEF Next, roundVars, Store, WorkerLook, CliLook, CliCommit, CliStart, CliClean, MetaPop, MetaFail,
         MetaAnswer, MetaCommit, Insert, FetcherCrash, CliCrash

LEMMA CliTyping ==
  ASSUME TypeOK, Next
  PROVE  CliOK'
<1>0. CliOK
  BY DEF TypeOK, CliOK
<1>1. CASE UNCHANGED cli /\ stored \subseteq stored'
  BY <1>0, <1>1 DEF CliOK
<1>2. CASE cli' = NoCli
  BY <1>2 DEF CliOK, NoCli
<1>3. CASE CliStart
  BY <1>3 DEF CliStart, CliOK, roundVars
<1>4. CASE CliCommit
  <2>1. tx.missing \in SUBSET Cited /\ cli.on
    BY <1>4 DEF CliCommit, TypeOK, TxOK
  <2>2. PICK r : r = [cli EXCEPT !.todo = @ \ {tx.paper}, !.ids = @ \cup tx.missing]
    OBVIOUS
  <2>3. r \in [on : BOOLEAN, todo : SUBSET stored, ids : SUBSET Cited] /\ r.on = cli.on
    BY <1>0, <2>1, <2>2 DEF CliOK
  <2>4. cli' = r /\ stored' = stored
    BY <1>4, <2>2 DEF CliCommit
  <2> QED
    BY <2>1, <2>3, <2>4 DEF CliOK
<1>5. CASE CliClean \/ CliCrash
  BY <1>2, <1>5 DEF CliClean, CliCrash
<1> QED
  BY <1>1, <1>3, <1>4, <1>5
     DEF Next, roundVars, cliVars, Store, WorkerLook, CliLook, Srem, WorkerAsk, WorkerCommit, MetaPop, MetaFail,
         MetaAnswer, MetaCommit, Insert, WorkerCrash, FetcherCrash

SetsOK ==
    /\ stored \in SUBSET Citing /\ settled \in SUBSET Cited /\ happened \in SUBSET FaultKinds
    /\ pending \subseteq stored /\ stale \subseteq stored

LEMMA SetsTyping ==
  ASSUME TypeOK, Next
  PROVE  SetsOK' /\ happened \subseteq happened'
<1>0. SetsOK
  BY DEF TypeOK, SetsOK
<1>1. \A kind \in FaultKinds : Happens(kind) => happened' \in SUBSET FaultKinds /\ happened \subseteq happened'
  BY <1>0 DEF Happens, SetsOK
<1>2. UNCHANGED happened \/ (happened' \in SUBSET FaultKinds /\ happened \subseteq happened')
  BY <1>0, <1>1
     DEF Next, SetsOK, FaultKinds, Store, WorkerLook, CliLook, Srem, WorkerAsk, WorkerCommit, CliCommit, CliStart,
         CliClean, MetaPop, MetaFail, MetaAnswer, MetaCommit, Insert, WorkerCrash, FetcherCrash, CliCrash
<1>3. settled' \in SUBSET Cited
  <2>1. asked.ids \in SUBSET Cited
    BY DEF TypeOK, AskedOK
  <2> QED
    BY <1>0, <2>1
       DEF Next, SetsOK, fetchVars, Store, WorkerLook, CliLook, Srem, WorkerAsk, WorkerCommit, CliCommit, CliStart,
           CliClean, MetaPop, MetaFail, MetaAnswer, MetaCommit, Insert, WorkerCrash, FetcherCrash, CliCrash
<1>4. Resolve => stale' \subseteq stale
  BY ResolveIs
<1>5. stored' \in SUBSET Citing /\ pending' \subseteq stored' /\ stale' \subseteq stored'
  BY <1>0, <1>4
     DEF Next, SetsOK, roundVars, Store, WorkerLook, CliLook, Srem, WorkerAsk, WorkerCommit, CliCommit, CliStart,
         CliClean, MetaPop, MetaFail, MetaAnswer, MetaCommit, Insert, WorkerCrash, FetcherCrash, CliCrash
<1> QED
  BY <1>0, <1>2, <1>3, <1>5 DEF SetsOK

LEMMA QueueTyping ==
  ASSUME TypeOK, Next
  PROVE  metaq' \in Seq(Calls) /\ \A i \in DOMAIN metaq' : metaq'[i].ids # {}
<1>1. CASE UNCHANGED metaq
  BY <1>1 DEF TypeOK
<1>2. ASSUME NEW f \in Citing, WorkerAsk(f)
      PROVE  metaq' \in Seq(Calls) /\ \A i \in DOMAIN metaq' : metaq'[i].ids # {}
  <2>1. tail[f].ids \in SUBSET Cited /\ EnqueueMeta(tail[f].ids)
    BY <1>2 DEF WorkerAsk, TypeOK
  <2> QED
    BY <2>1, CallsOK
<1>3. CASE CliClean
  <2>1. cli.ids \in SUBSET Cited /\ EnqueueMeta(cli.ids)
    BY <1>3 DEF CliClean, TypeOK
  <2> QED
    BY <2>1, CallsOK
<1> QED
  BY <1>1, <1>2, <1>3, CallsOK
     DEF Next, fetchVars, Store, WorkerLook, CliLook, Srem, WorkerCommit, CliCommit, CliStart,
         MetaAnswer, MetaCommit, Insert, WorkerCrash, FetcherCrash, CliCrash

GraphOK ==
    /\ papers \in SUBSET Ids /\ Citing \subseteq papers /\ late \subseteq papers
    /\ citations \in [Ids -> Nat]
    /\ RefsOK(refs) /\ StubsOK(stubs)
    /\ edges \subseteq Citing \X (Targets \ {None})

LEMMA TypeParts ==
  /\ TypeOK <=> /\ GraphOK /\ TxOK /\ AskedOK /\ TailOK /\ CliOK /\ SetsOK
                /\ metaq \in Seq(Calls) /\ \A i \in DOMAIN metaq : metaq[i].ids # {}
BY DEF TypeOK, GraphOK, TailOK, CliOK, SetsOK, RefsOK, StubsOK

LEMMA CommitsResolve ==
  ASSUME TypeOK, WorkerCommit \/ CliCommit
  PROVE  Resolve /\ UNCHANGED papers /\ tx.paper \in Citing
<1>1. tx.paper \in Citing
  <2>1. tx.by # None
    BY ConstantsAssumption DEF WorkerCommit, CliCommit
  <2> QED
    BY <2>1 DEF TypeOK, TxOK
<1> QED
  BY <1>1 DEF WorkerCommit, CliCommit

LEMMA GraphTyping ==
  ASSUME TypeOK, GraphIInv, Next
  PROVE  GraphOK'
<1>0. GraphOK /\ IsFiniteSet(edges)
  BY TypeParts DEF GraphIInv
<1>1. CASE UNCHANGED <<papers, citations, refs, edges, stubs, late>>
  BY <1>0, <1>1 DEF GraphOK
<1>2. ASSUME NEW f \in Citing, NEW list \in Lists, Store(f, list) PROVE GraphOK'
  <2>1. RefsOK(refs') /\ UNCHANGED <<papers, citations, edges, stubs, late>>
    BY <1>2, StoreOK DEF Store
  <2> QED
    BY <1>0, <2>1 DEF GraphOK
<1>3. CASE WorkerCommit \/ CliCommit
  <2>1. Resolve /\ UNCHANGED papers /\ tx.paper \in Citing
    BY <1>3, CommitsResolve
  <2>2. RefsOK(Linked)
    BY <2>1, LinkedOK DEF SameRefs
  <2>3. /\ refs' = Linked /\ edges' \subseteq Citing \X (Targets \ {None})
        /\ citations' \in [Ids -> Nat] /\ StubsOK(stubs') /\ late' \subseteq late
    BY <2>1, ResolveGraph
  <2> QED
    BY <1>0, <2>1, <2>2, <2>3 DEF GraphOK
<1>4. CASE CliClean
  <2>1. StubsOK(stubs')
    BY <1>0, <1>4, CleanOK
  <2> QED
    BY <1>0, <1>4, <2>1 DEF GraphOK, CliClean
<1>5. CASE MetaCommit
  BY <1>0, <1>5, MetaIs DEF GraphOK, SameRefs
<1>6. ASSUME NEW p \in Cited, Insert(p) PROVE GraphOK'
  BY <1>0, <1>6, InsertGraph DEF GraphOK, Insert
<1> QED
  BY <1>1, <1>2, <1>3, <1>4, <1>5, <1>6
     DEF Next, graphVars, WorkerLook, CliLook, Srem, WorkerAsk, CliStart,
         MetaPop, MetaFail, MetaAnswer, WorkerCrash, FetcherCrash, CliCrash

LEMMA TypingStep ==
  ASSUME TypeOK, GraphIInv, Next
  PROVE  TypeOK'
<1>1. GraphOK' /\ TxOK' /\ AskedOK' /\ TailOK' /\ CliOK' /\ SetsOK'
  BY GraphTyping, TxTyping, AskedTyping, TailTyping, CliTyping, SetsTyping
<1>2. metaq' \in Seq(Calls) /\ \A i \in DOMAIN metaq' : metaq'[i].ids # {}
  BY QueueTyping
<1> QED
  BY <1>1, <1>2 DEF TypeOK, GraphOK, TailOK, CliOK, SetsOK, RefsOK, StubsOK

\* Steps that leave the graph alone.
LEMMA QuietGraph ==
  ASSUME TypeOK, GraphIInv, UNCHANGED <<papers, graphVars, stale>>,
         \/ UNCHANGED tx \/ tx' = NoTx
         \/ \E f \in Citing : Look("worker", f) \/ Look("cli", f)
  PROVE  GraphIInv'
<1>1. UNCHANGED <<papers, citations, refs, edges, stubs, late, stale>>
  BY DEF graphVars
<1>2. ReadIsCurrent'
  <2>1. CASE UNCHANGED tx
    BY <1>1, <2>1 DEF ReadIsCurrent, CurrentRefs, GraphIInv
  <2>2. CASE tx' = NoTx
    BY <2>2, NoTxOK DEF ReadIsCurrent
  <2>3. CASE \E f \in Citing : Look("worker", f) \/ Look("cli", f)
    <3>1. PICK f \in Citing : tx'.paper = f /\ tx'.read = CurrentRefs(f)
      BY <2>3, LookOK
    <3> QED
      BY <1>1, <3>1 DEF ReadIsCurrent, CurrentRefs
  <2> QED
    BY <2>1, <2>2, <2>3
<1> QED
  BY <1>1, <1>2 DEF GraphIInv, Rowless, StubsPast, StubRefs, StubOf, NoneInVain, TooFew, EdgesFollowRefs,
                    CountsFollowEdges

LEMMA GraphStep ==
  ASSUME TypeOK, GraphIInv, Next
  PROVE  GraphIInv'
<1>1. CASE WorkerCommit \/ CliCommit
  <2>1. Resolve /\ UNCHANGED papers /\ tx.paper \in Citing
    BY <1>1, CommitsResolve
  <2>2. Rowless' /\ CountsFollowEdges' /\ IsFiniteSet(edges')
    BY <2>1, ResolveGraph
  <2> QED
    BY <2>1, <2>2, ResolveStubs, ResolveEdges, ResolveInVain DEF GraphIInv
<1>2. CASE /\ UNCHANGED <<papers, graphVars, stale>>
           /\ \/ UNCHANGED tx \/ tx' = NoTx
              \/ \E f \in Citing : Look("worker", f) \/ Look("cli", f)
  BY <1>2, QuietGraph
<1> QED
  BY <1>1, <1>2, StoreGraph, CleanGraph, MetaGraph, InsertGraph
     DEF Next, roundVars, WorkerLook, CliLook, Srem, WorkerAsk, CliStart,
         MetaPop, MetaFail, MetaAnswer, WorkerCrash, FetcherCrash, CliCrash

LEMMA TypingInit == Init => TypeOK
<1> SUFFICES ASSUME Init PROVE TypeOK
  OBVIOUS
<1>1. GraphOK
  <2>1. <<>> \in Seq(Rows)
    OBVIOUS
  <2> QED
    BY <2>1 DEF Init, GraphOK, RefsOK, StubsOK, Ids
<1>2. TxOK
  BY NoTxOK DEF Init, TxOK
<1>3. AskedOK
  BY NoJobOK DEF Init, AskedOK
<1>4. TailOK /\ CliOK /\ SetsOK
  BY DEF Init, TailOK, CliOK, SetsOK, NoTail, NoCli
<1>5. metaq = <<>> /\ metaq \in Seq(Calls) /\ DOMAIN metaq = {}
  BY DEF Init
<1> QED
  BY <1>1, <1>2, <1>3, <1>4, <1>5, TypeParts

LEMMA GraphInit == Init => GraphIInv
<1> SUFFICES ASSUME Init PROVE GraphIInv
  OBVIOUS
<1>1. /\ papers = Citing /\ edges = {} /\ late = {} /\ tx = NoTx
      /\ citations = [p \in Ids |-> 0] /\ refs = [f \in Citing |-> <<>>]
      /\ stubs = [t \in Titles |-> [n |-> 0, live |-> FALSE, count |-> 0]]
  BY DEF Init
<1>2. \A f \in Citing : DOMAIN refs[f] = {}
  BY <1>1
<1>3. IsFiniteSet(edges)
  BY <1>1, FS_EmptySet
<1>4. Rowless /\ StubsPast /\ StubRefs /\ NoneInVain
  BY <1>1, <1>2 DEF Rowless, StubsPast, StubRefs, NoneInVain
<1>5. ReadIsCurrent
  BY <1>1, NoTxOK DEF ReadIsCurrent
<1>6. TooFew
  <2>1. \A t \in Titles : Without(t, refs) = {}
    BY <1>2 DEF Without
  <2>2. \A t \in Titles : Cardinality(Without(t, refs) \ stale) = 0
    BY <2>1, FS_EmptySet
  <2> QED
    BY <2>2, ConstantsAssumption DEF TooFew
<1>7. EdgesFollowRefs
  BY <1>1, <1>2 DEF EdgesFollowRefs, Resolved
<1>8. CountsFollowEdges
  <2>1. \A x : InDegree(x, edges) = 0
    BY <1>1, <1>3, InDegreeNat
  <2> QED
    BY <1>1, <2>1 DEF CountsFollowEdges, Ids
<1> QED
  BY <1>3, <1>4, <1>5, <1>6, <1>7, <1>8 DEF GraphIInv

LEMMA GraphAlways == Spec => [](TypeOK /\ GraphIInv)
<1>1. Init => TypeOK /\ GraphIInv
  BY TypingInit, GraphInit
<1>2. TypeOK /\ GraphIInv /\ [Next]_vars => TypeOK' /\ GraphIInv'
  <2>1. ASSUME TypeOK, GraphIInv, UNCHANGED vars PROVE TypeOK' /\ GraphIInv'
    <3>1. /\ UNCHANGED <<papers, citations, refs, edges, stubs, late, tx, tail, pending, stored, stale>>
          /\ UNCHANGED <<cli, metaq, asked, settled, happened>>
      BY <2>1 DEF vars, graphVars, roundVars, cliVars, fetchVars
    <3>2. TypeOK'
      BY <2>1, <3>1 DEF TypeOK, TxOK, AskedOK
    <3>3. GraphIInv'
      BY <2>1, <3>1, QuietGraph DEF graphVars
    <3> QED
      BY <3>2, <3>3
  <2> QED
    BY <2>1, TypingStep, GraphStep
<1> QED
  BY <1>1, <1>2, PTL DEF Spec

(***************************************************************************)
(* The edges of every resolved paper are what its references resolve to,   *)
(* and every count is the in-degree of its paper or stub, whoever writes   *)
(* them: the worker, "resolve all", the fetcher and the metadata pass, in  *)
(* any order and cut off at any point.                                     *)
(***************************************************************************)
THEOREM GraphIsRight == Spec => []GraphInv
<1>1. TypeOK /\ GraphIInv => GraphInv
  BY DEF GraphIInv, GraphInv
<1> QED
  BY <1>1, GraphAlways, PTL

LEMMA StubsHold ==
  ASSUME TypeOK, GraphIInv
  PROVE  StubsInv
<1>0. StubRefs /\ NoneInVain /\ TooFew /\ EdgesFollowRefs
  BY DEF GraphIInv
<1>1. ASSUME NEW f \in Citing, f \notin stale, NEW e \in edges, e[1] = f, IsStub(e[2])
      PROVE  stubs[e[2][1]].live
  <2>1. e[2] \in Resolved(f, refs)
    BY <1>0, <1>1 DEF EdgesFollowRefs
  <2>2. PICK i \in DOMAIN refs[f] : e[2] = refs[f][i].to
    BY <2>1 DEF Resolved
  <2>3. /\ e[2] = <<refs[f][i].ref.title, stubs[refs[f][i].ref.title].n>>
        /\ stubs[refs[f][i].ref.title].live
    BY <1>0, <1>1, <2>2 DEF StubRefs, StubOf
  <2>4. e[2][1] = refs[f][i].ref.title
    BY <2>3
  <2> QED
    BY <2>3, <2>4
<1>2. StubsAreThere
  BY <1>0, <1>1 DEF StubsAreThere, StubRefs
<1>3. ASSUME NEW t \in Titles, Cardinality(Without(t, refs)) >= StubMin,
             Without(t, refs) \cap stale = {}, NEW f \in Without(t, refs)
      PROVE  StubOf(t) \in Resolved(f, refs)
  <2>1. stubs[t].live
    <3>1. SUFFICES ASSUME ~stubs[t].live PROVE FALSE
      OBVIOUS
    <3>2. Without(t, refs) \ stale = Without(t, refs)
      BY <1>3
    <3>3. Cardinality(Without(t, refs)) < StubMin
      BY <1>0, <3>1, <3>2 DEF TooFew
    <3>4. Cardinality(Without(t, refs)) \in Nat
      BY WithoutCiting, CitingApart, FS_Subset, FS_CardinalityType
    <3> QED
      BY <1>3, <3>3, <3>4, ConstantsAssumption
  <2>2. f \in Citing /\ f \notin stale
    BY <1>3 DEF Without
  <2>3. PICK i \in DOMAIN refs[f] :
          refs[f][i].ref.title = t /\ (refs[f][i].to = None \/ IsStub(refs[f][i].to))
    BY <1>3 DEF Without
  <2>4. refs[f][i].to # None
    BY <1>0, <2>1, <2>2, <2>3 DEF NoneInVain
  <2>5. refs[f][i].to = StubOf(t)
    BY <1>0, <2>2, <2>3, <2>4 DEF StubRefs
  <2>6. StubOf(t) # f
    BY <2>2, <2>3, <2>4, <2>5, CitingApart, StubsApart
  <2> QED
    BY <2>3, <2>4, <2>5, <2>6 DEF Resolved
<1>4. PopularHasStub
  BY <1>3 DEF PopularHasStub
<1> QED
  BY <1>2, <1>4 DEF StubsInv

(***************************************************************************)
(* A reference to a stub is one to the stub of its title, which is there;  *)
(* a title that enough resolved papers cite in vain has a stub that all of *)
(* them point to, in whichever order they were resolved.                   *)
(***************************************************************************)
THEOREM StubsAreRight == Spec => []StubsInv
<1>1. TypeOK /\ GraphIInv => StubsInv
  BY StubsHold
<1> QED
  BY <1>1, GraphAlways, PTL

-----------------------------------------------------------------------------
\* Ids that neither table knows.

Nobody == Spared({"workerCrash", "fetcherCrash", "cliCrash"})

Waiting(q) == UNION {q[j].ids : j \in DOMAIN q}

\* Where an id may be that a resolved reference has.
Tails == UNION {tail[g].ids : g \in Citing}

Known ==
    papers \cup Catalog \cup settled \cup asked.ids \cup {None} \cup Waiting(metaq) \cup Tails \cup cli.ids

\* What a transaction has read is known, or it will ask for it.
TxAsks == tx.paper # None => \A i \in DOMAIN tx.read :
              tx.read[i].id \in papers \cup Catalog \cup {None} \cup tx.missing

\* The worker has nothing left to do for a paper that it resolves.
OneByOne == tx.by = "worker" => tail[tx.paper] = NoTail

\* Only "resolve all" collects ids.
CliCollects == ~cli.on => cli.ids = {}

\* What an answer leaves out is settled.
AnswerSettles == asked.answered => asked.ids \ asked.got \subseteq settled

(***************************************************************************)
(* The inductive invariant behind MissingIsAsked.                          *)
(***************************************************************************)
AskedIInv == Nobody => MissingIsAsked /\ TxAsks /\ OneByOne /\ CliCollects /\ AnswerSettles

LEMMA MissingIsKnown ==
  Nobody => (MissingIsAsked <=>
                \A f \in stored \ stale : \A i \in DOMAIN refs[f] : refs[f][i].ref.id \in Known)
BY DEF Nobody, MissingIsAsked, Known, Waiting, Tails

LEMMA NobodyYet ==
  ASSUME TypeOK, Next, Nobody'
  PROVE  /\ Nobody
         /\ ~WorkerCrash /\ ~FetcherCrash /\ ~CliCrash
<1>1. happened \subseteq happened'
  BY SetsTyping
<1>2. Nobody
  BY <1>1 DEF Nobody, Spared
<1>3. ~WorkerCrash /\ ~FetcherCrash /\ ~CliCrash
  BY DEF Nobody, Spared, WorkerCrash, FetcherCrash, CliCrash, Happens
<1> QED
  BY <1>2, <1>3

LEMMA WaitingGrows ==
  ASSUME TypeOK, NEW c \in Calls, metaq' = Append(metaq, c)
  PROVE  Waiting(metaq) \subseteq Waiting(metaq') /\ c.ids \subseteq Waiting(metaq')
<1>0. metaq \in Seq(Calls)
  BY DEF TypeOK
<1>1. /\ metaq' \in Seq(Calls) /\ Len(metaq') = Len(metaq) + 1
      /\ \A i \in 1..Len(metaq) : metaq'[i] = metaq[i]
      /\ metaq'[Len(metaq) + 1] = c
  BY <1>0
<1>2. DOMAIN metaq' = 1..(Len(metaq) + 1) /\ DOMAIN metaq = 1..Len(metaq) /\ Len(metaq) \in Nat
  BY <1>0, <1>1
<1>3. \A i \in DOMAIN metaq : i \in DOMAIN metaq' /\ metaq'[i] = metaq[i]
  BY <1>1, <1>2
<1>4. Len(metaq) + 1 \in DOMAIN metaq'
  BY <1>2
<1> QED
  BY <1>1, <1>3, <1>4 DEF Waiting

LEMMA WaitingEnqueued ==
  ASSUME TypeOK, NEW ids \in SUBSET Cited, EnqueueMeta(ids)
  PROVE  Waiting(metaq) \subseteq Waiting(metaq') /\ ids \subseteq Waiting(metaq')
<1>1. CASE ids = {}
  BY <1>1 DEF EnqueueMeta
<1>2. CASE ids # {}
  <2>1. PICK c : c = [ids |-> ids, attempt |-> 1]
    OBVIOUS
  <2>2. c \in Calls /\ c.ids = ids
    BY <2>1, ConstantsAssumption DEF Calls
  <2>3. metaq' = Append(metaq, c)
    BY <1>2, <2>1 DEF EnqueueMeta
  <2> QED
    BY <2>2, <2>3, WaitingGrows
<1> QED
  BY <1>1, <1>2

LEMMA WaitingPopped ==
  ASSUME TypeOK, metaq # <<>>
  PROVE  Waiting(metaq) \subseteq Head(metaq).ids \cup Waiting(Tail(metaq))
<1>0. metaq \in Seq(Calls)
  BY DEF TypeOK
<1> SUFFICES ASSUME NEW j \in DOMAIN metaq, NEW x \in metaq[j].ids
             PROVE  x \in Head(metaq).ids \cup Waiting(Tail(metaq))
  BY DEF Waiting
<1>1. CASE j = 1
  BY <1>0, <1>1
<1>2. CASE j # 1
  <2>1. j - 1 \in DOMAIN Tail(metaq) /\ Tail(metaq)[j - 1] = metaq[j]
    BY <1>0, <1>2
  <2> QED
    BY <2>1 DEF Waiting
<1> QED
  BY <1>1, <1>2

\* An id that is known stays known, as long as nobody dies.
LEMMA KnownStays ==
  ASSUME TypeOK, AskedIInv, Next, Nobody'
  PROVE  Known \subseteq Known'
<1>0. /\ Nobody /\ ~WorkerCrash /\ ~FetcherCrash /\ ~CliCrash
      /\ OneByOne /\ CliCollects /\ AnswerSettles
  BY NobodyYet DEF AskedIInv
<1>1. /\ Known = papers \cup Catalog \cup settled \cup asked.ids \cup {None} \cup Waiting(metaq)
                    \cup Tails \cup cli.ids
      /\ Known' = papers' \cup Catalog \cup settled' \cup asked'.ids \cup {None} \cup Waiting(metaq')
                    \cup Tails' \cup cli'.ids
  BY DEF Known
<1>2. CASE /\ UNCHANGED <<settled, asked, metaq, tail, cli>> /\ papers \subseteq papers'
  BY <1>1, <1>2 DEF Tails
<1>3. ASSUME NEW f \in Citing, Srem(f) PROVE Known \subseteq Known'
  <2>1. /\ UNCHANGED <<papers, settled, asked, metaq, cli>>
        /\ tail' = [tail EXCEPT ![f].step = "ask"]
    BY <1>3 DEF Srem, cliVars, fetchVars
  <2>2. \A g \in Citing : tail'[g].ids = tail[g].ids
    BY <2>1, TypeParts DEF TailOK
  <2>3. Tails' = Tails
    BY <2>2 DEF Tails
  <2> QED
    BY <1>1, <2>1, <2>3
<1>4. ASSUME NEW f \in Citing, WorkerAsk(f) PROVE Known \subseteq Known'
  <2>1. /\ UNCHANGED <<papers, settled, asked, cli>> /\ EnqueueMeta(tail[f].ids)
        /\ tail' = [tail EXCEPT ![f] = NoTail]
    BY <1>4 DEF WorkerAsk, cliVars
  <2>2. tail[f].ids \in SUBSET Cited
    BY TypeParts DEF TailOK
  <2>3. Waiting(metaq) \subseteq Waiting(metaq') /\ tail[f].ids \subseteq Waiting(metaq')
    BY <2>1, <2>2, WaitingEnqueued
  <2>4. \A g \in Citing \ {f} : tail'[g] = tail[g]
    BY <2>1, TypeParts DEF TailOK
  <2>5. Tails \subseteq Tails' \cup tail[f].ids
    BY <2>4 DEF Tails
  <2> QED
    BY <1>1, <2>1, <2>3, <2>5
<1>5. CASE WorkerCommit
  <2>1. /\ UNCHANGED <<papers, settled, asked, metaq, cli>> /\ tx.by = "worker"
        /\ tail' = [tail EXCEPT ![tx.paper] = [step |-> "srem", ids |-> tx.missing]]
    BY <1>5 DEF WorkerCommit, cliVars, fetchVars
  <2>2. tail[tx.paper].ids = {}
    BY <1>0, <2>1 DEF OneByOne, NoTail
  <2>3. \A g \in Citing \ {tx.paper} : tail'[g] = tail[g]
    BY <2>1, TypeParts DEF TailOK
  <2>4. Tails \subseteq Tails'
    BY <2>2, <2>3 DEF Tails
  <2> QED
    BY <1>1, <2>1, <2>4
<1>6. CASE CliCommit
  <2>1. /\ UNCHANGED <<papers, tail, settled, asked, metaq>>
        /\ cli' = [cli EXCEPT !.todo = @ \ {tx.paper}, !.ids = @ \cup tx.missing]
    BY <1>6 DEF CliCommit, fetchVars
  <2>2. cli.ids \subseteq cli'.ids
    <3>1. PICK c : c = cli
      OBVIOUS
    <3>2. c \in [on : BOOLEAN, todo : SUBSET stored, ids : SUBSET Cited]
      BY <3>1, TypeParts DEF CliOK
    <3>3. PICK r : r = [c EXCEPT !.todo = @ \ {tx.paper}, !.ids = @ \cup tx.missing]
      OBVIOUS
    <3>4. r.ids = c.ids \cup tx.missing
      BY <3>2, <3>3
    <3> QED
      BY <2>1, <3>1, <3>3, <3>4
  <2> QED
    BY <1>1, <2>1, <2>2 DEF Tails
<1>7. CASE CliStart
  <2>1. UNCHANGED <<papers, settled, asked, metaq, tail>> /\ cli.ids = {}
    BY <1>0, <1>7 DEF CliStart, CliCollects, fetchVars, roundVars
  <2> QED
    BY <1>1, <2>1 DEF Tails
<1>8. CASE CliClean
  <2>1. UNCHANGED <<papers, settled, asked, tail>> /\ EnqueueMeta(cli.ids)
    BY <1>8 DEF CliClean, roundVars
  <2>2. cli.ids \in SUBSET Cited
    BY TypeParts DEF CliOK
  <2>3. Waiting(metaq) \subseteq Waiting(metaq') /\ cli.ids \subseteq Waiting(metaq')
    BY <2>1, <2>2, WaitingEnqueued
  <2> QED
    BY <1>1, <2>1, <2>3 DEF Tails
<1>9. CASE MetaPop
  <2>1. /\ UNCHANGED <<papers, settled, tail, cli>> /\ metaq # <<>> /\ metaq' = Tail(metaq)
        /\ asked = NoJob
    BY <1>9 DEF MetaPop, cliVars, roundVars
  <2>2. Head(metaq).ids \subseteq papers \cup asked'.ids
    <3>1. CASE Head(metaq).ids \ papers = {}
      BY <3>1
    <3>2. CASE Head(metaq).ids \ papers # {}
      <4>1. PICK n : n = NoJob
        OBVIOUS
      <4>2. n \in [ids : SUBSET Cited, attempt : 0..MaxRounds, got : SUBSET Cited, answered : BOOLEAN]
        BY <4>1, NoJobOK
      <4>3. PICK a : a = [n EXCEPT !.ids = Head(metaq).ids \ papers, !.attempt = Head(metaq).attempt]
        OBVIOUS
      <4>4. asked' = a
        BY <1>9, <3>2, <4>1, <4>3 DEF MetaPop
      <4>5. a.ids = Head(metaq).ids \ papers
        BY <4>2, <4>3
      <4> QED
        BY <4>4, <4>5
    <3> QED
      BY <3>1, <3>2
  <2>3. Waiting(metaq) \subseteq Head(metaq).ids \cup Waiting(metaq')
    BY <2>1, WaitingPopped
  <2>4. asked.ids = {}
    BY <2>1, NoJobOK
  <2> QED
    BY <1>1, <2>1, <2>2, <2>3, <2>4 DEF Tails
<1>10. CASE MetaFail
  <2>1. UNCHANGED <<papers, tail, cli>> /\ asked # NoJob
    BY <1>10 DEF MetaFail, cliVars, roundVars
  <2>2. CASE asked.attempt < MaxRounds
    <3>1. asked.ids \in SUBSET Cited /\ asked.attempt + 1 \in 1..MaxRounds
      BY <2>1, <2>2, TypeParts, ConstantsAssumption DEF AskedOK
    <3>2. PICK c : c = [ids |-> asked.ids, attempt |-> asked.attempt + 1]
      OBVIOUS
    <3>3. c \in Calls /\ c.ids = asked.ids
      BY <3>1, <3>2 DEF Calls
    <3>4. metaq' = Append(metaq, c) /\ UNCHANGED settled
      BY <1>10, <2>2, <3>2 DEF MetaFail
    <3>5. Waiting(metaq) \subseteq Waiting(metaq') /\ asked.ids \subseteq Waiting(metaq')
      BY <3>3, <3>4, WaitingGrows
    <3> QED
      BY <1>1, <2>1, <3>4, <3>5 DEF Tails
  <2>3. CASE ~(asked.attempt < MaxRounds)
    <3>1. settled' = settled \cup asked.ids /\ UNCHANGED metaq
      BY <1>10, <2>3 DEF MetaFail
    <3> QED
      BY <1>1, <2>1, <3>1 DEF Tails
  <2> QED
    BY <2>2, <2>3
<1>11. CASE MetaAnswer
  <2>1. PICK got \in SUBSET asked.ids :
          /\ asked' = [asked EXCEPT !.got = got, !.answered = TRUE]
          /\ settled' = settled \cup (asked.ids \ got)
    BY <1>11 DEF MetaAnswer
  <2>2. PICK a : a = asked
    OBVIOUS
  <2>3. a \in [ids : SUBSET Cited, attempt : 0..MaxRounds, got : SUBSET Cited, answered : BOOLEAN]
    BY <2>2, TypeParts DEF AskedOK
  <2>4. PICK b : b = [a EXCEPT !.got = got, !.answered = TRUE]
    OBVIOUS
  <2>5. b.ids = a.ids
    BY <2>3, <2>4
  <2>6. asked'.ids = asked.ids
    BY <2>1, <2>2, <2>4, <2>5
  <2>7. UNCHANGED <<papers, tail, cli, metaq>>
    BY <1>11 DEF MetaAnswer, cliVars, roundVars
  <2> QED
    BY <1>1, <2>1, <2>6, <2>7 DEF Tails
<1>12. CASE MetaCommit
  <2>1. /\ UNCHANGED <<tail, cli, metaq, settled>> /\ papers' = papers \cup asked.got /\ asked.answered
    BY <1>12 DEF MetaCommit, cliVars, roundVars
  <2>2. asked.ids \subseteq asked.got \cup settled
    BY <1>0, <2>1 DEF AnswerSettles
  <2> QED
    BY <1>1, <2>1, <2>2 DEF Tails
<1> QED
  BY <1>0, <1>2, <1>3, <1>4, <1>5, <1>6, <1>7, <1>8, <1>9, <1>10, <1>11, <1>12
     DEF Next, cliVars, fetchVars, roundVars, Store, WorkerLook, CliLook, Insert

\* What a commit found missing is known from then on.
LEMMA CommitAsks ==
  ASSUME TypeOK, WorkerCommit \/ CliCommit
  PROVE  tx.missing \subseteq Known'
<1>1. tx.paper \in Citing
  BY CommitsResolve
<1>2. CASE WorkerCommit
  <2>1. tail' = [tail EXCEPT ![tx.paper] = [step |-> "srem", ids |-> tx.missing]]
    BY <1>2 DEF WorkerCommit
  <2>2. tail'[tx.paper].ids = tx.missing
    BY <1>1, <2>1, TypeParts DEF TailOK
  <2> QED
    BY <1>1, <2>2 DEF Known, Tails
<1>3. CASE CliCommit
  <2>1. PICK c : c = cli
    OBVIOUS
  <2>2. c \in [on : BOOLEAN, todo : SUBSET stored, ids : SUBSET Cited]
    BY <2>1, TypeParts DEF CliOK
  <2>3. PICK r : r = [c EXCEPT !.todo = @ \ {tx.paper}, !.ids = @ \cup tx.missing]
    OBVIOUS
  <2>4. r.ids = c.ids \cup tx.missing
    BY <2>2, <2>3
  <2>5. cli' = r
    BY <1>3, <2>1, <2>3 DEF CliCommit
  <2> QED
    BY <2>4, <2>5 DEF Known
<1> QED
  BY <1>2, <1>3

\* The references of resolved papers name the ids they named.
LEMMA IdsStay ==
  ASSUME TypeOK, GraphIInv, Next, NEW f \in stored' \ stale'
  PROVE  /\ f \in Citing
         /\ DOMAIN refs'[f] = DOMAIN refs[f] /\ \A i \in DOMAIN refs[f] : refs'[f][i].ref = refs[f][i].ref
         /\ \/ f \in stored \ stale
            \/ (WorkerCommit \/ CliCommit) /\ f = tx.paper /\ tx.read = CurrentRefs(f)
<1>1. stored \subseteq Citing
  BY TypeParts DEF SetsOK
<1>2. CASE UNCHANGED <<refs, stored, stale>>
  BY <1>1, <1>2
<1>3. ASSUME NEW g \in Citing, NEW list \in Lists, Store(g, list)
      PROVE  f \in stored \ stale /\ refs'[f] = refs[f]
  <2>1. stored' = stored \cup {g} /\ stale' = stale \cup {g}
    BY <1>3 DEF Store
  <2>2. \A h \in Citing \ {g} : refs'[h] = refs[h]
    BY <1>3, StoreOK
  <2> QED
    BY <1>1, <2>1, <2>2
<1>4. CASE WorkerCommit \/ CliCommit
  <2>1. Resolve /\ UNCHANGED papers /\ tx.paper \in Citing /\ UNCHANGED stored
    BY <1>4, CommitsResolve DEF WorkerCommit, CliCommit
  <2>2. refs' = Linked
    BY <2>1, ResolveGraph
  <2>3. SameRefs(Linked, refs)
    BY <2>1, LinkedOK
  <2>4. stale' = IF tx.read = CurrentRefs(tx.paper) THEN stale \ {tx.paper} ELSE stale
    BY <2>1, ResolveIs DEF CurrentRefs
  <2> QED
    BY <1>1, <1>4, <2>1, <2>2, <2>3, <2>4 DEF SameRefs
<1>5. CASE MetaCommit
  <2>1. UNCHANGED <<stored, stale>>
    BY <1>5 DEF MetaCommit, roundVars
  <2>2. refs' = Named(asked.got) /\ SameRefs(Named(asked.got), refs)
    BY <1>5, MetaIs DEF GraphIInv
  <2> QED
    BY <1>1, <2>1, <2>2 DEF SameRefs
<1> QED
  BY <1>1, <1>2, <1>3, <1>4, <1>5
     DEF Next, graphVars, roundVars, WorkerLook, CliLook, Srem, WorkerAsk, CliStart, CliClean, MetaPop, MetaFail,
         MetaAnswer, Insert, WorkerCrash, FetcherCrash, CliCrash

LEMMA PapersGrow ==
  ASSUME Next
  PROVE  papers \subseteq papers'
BY DEF Next, graphVars, roundVars, Store, WorkerLook, CliLook, Srem, WorkerAsk, WorkerCommit, CliCommit, CliStart,
       CliClean, MetaPop, MetaFail, MetaAnswer, MetaCommit, Insert, WorkerCrash, FetcherCrash, CliCrash

\* Who may change the transaction.
LEMMA TxSteps ==
  ASSUME TypeOK, Next
  PROVE  \/ UNCHANGED tx \/ tx' = NoTx
         \/ \E f \in Citing : Look("worker", f) /\ WorkerLook(f)
         \/ \E f \in Citing : Look("cli", f) /\ CliLook(f)
<1>1. Resolve => tx' = NoTx
  BY ResolveIs
<1> QED
  BY <1>1
     DEF Next, Store, WorkerLook, CliLook, Srem, WorkerAsk, WorkerCommit, CliCommit, CliStart,
         CliClean, MetaPop, MetaFail, MetaAnswer, MetaCommit, Insert, WorkerCrash, FetcherCrash, CliCrash

LEMMA TxAsksStep ==
  ASSUME TypeOK, TxAsks, Next
  PROVE  TxAsks'
<1>1. papers \subseteq papers'
  BY PapersGrow
<1>2. CASE UNCHANGED tx
  BY <1>1, <1>2 DEF TxAsks
<1>3. CASE tx' = NoTx
  BY <1>3, NoTxOK DEF TxAsks
<1>4. CASE \E f \in Citing : Look("worker", f) \/ Look("cli", f)
  <2>1. \A i \in DOMAIN tx'.read : tx'.read[i].id \in papers \cup Catalog \cup {None} \cup tx'.missing
    BY <1>4, LookOK
  <2> QED
    BY <1>1, <2>1 DEF TxAsks
<1> QED
  BY <1>2, <1>3, <1>4, TxSteps

LEMMA OneByOneStep ==
  ASSUME TypeOK, OneByOne, Next
  PROVE  OneByOne'
<1>1. CASE tx' = NoTx
  BY <1>1, NoTxOK DEF OneByOne
<1>2. CASE \E f \in Citing : Look("worker", f) /\ WorkerLook(f)
  <2>1. PICK f \in Citing : Look("worker", f) /\ WorkerLook(f)
    BY <1>2
  <2>2. tx'.paper = f
    BY <2>1, LookOK
  <2>3. tail[f] = NoTail /\ UNCHANGED tail
    BY <2>1 DEF WorkerLook, roundVars
  <2> QED
    BY <2>2, <2>3 DEF OneByOne
<1>3. CASE \E f \in Citing : Look("cli", f) /\ CliLook(f)
  <2>1. tx'.by = "cli"
    BY <1>3, LookOK
  <2> QED
    BY <2>1 DEF OneByOne
<1>4. ASSUME UNCHANGED tx, tx.by = "worker" PROVE tail'[tx.paper] = NoTail
  <2>1. tail[tx.paper] = NoTail /\ tx.paper \in Citing
    BY <1>4, TypeParts, NoTxOK DEF OneByOne, TxOK
  <2>2. tx # NoTx
    BY <1>4, NoTxOK
  <2>3. ~WorkerCommit
    <3>1. Resolve => tx' = NoTx
      BY ResolveIs
    <3> QED
      BY <1>4, <2>2, <3>1 DEF WorkerCommit
  <2>4. CASE UNCHANGED tail
    BY <2>1, <2>4
  <2>5. ASSUME NEW g \in Citing, Srem(g) \/ WorkerAsk(g) PROVE tail'[tx.paper] = NoTail
    <3>1. tail[g] # NoTail
      BY <2>5 DEF Srem, WorkerAsk, NoTail
    <3>2. tail'[tx.paper] = tail[tx.paper]
      BY <2>1, <2>5, <3>1, TypeParts DEF Srem, WorkerAsk, TailOK
    <3> QED
      BY <2>1, <3>2
  <2>6. CASE WorkerCrash
    BY <2>1, <2>6 DEF WorkerCrash
  <2> QED
    BY <2>3, <2>4, <2>5, <2>6
       DEF Next, roundVars, Store, WorkerLook, CliLook, CliCommit, CliStart,
           CliClean, MetaPop, MetaFail, MetaAnswer, MetaCommit, Insert, FetcherCrash, CliCrash
<1>5. CASE UNCHANGED tx
  BY <1>4, <1>5 DEF OneByOne
<1> QED
  BY <1>1, <1>2, <1>3, <1>5, TxSteps

LEMMA CliCollectsStep ==
  ASSUME TypeOK, CliCollects, Next
  PROVE  CliCollects'
<1>1. CASE UNCHANGED cli \/ cli' = NoCli
  BY <1>1 DEF CliCollects, NoCli
<1>2. CASE CliStart
  BY <1>2 DEF CliStart, CliCollects
<1>3. CASE CliCommit
  <2>1. cli'.on = cli.on
    <3>1. PICK c : c = cli
      OBVIOUS
    <3>2. c \in [on : BOOLEAN, todo : SUBSET stored, ids : SUBSET Cited]
      BY <3>1, TypeParts DEF CliOK
    <3>3. PICK r : r = [c EXCEPT !.todo = @ \ {tx.paper}, !.ids = @ \cup tx.missing]
      OBVIOUS
    <3>4. r.on = c.on
      BY <3>2, <3>3
    <3> QED
      BY <1>3, <3>1, <3>3, <3>4 DEF CliCommit
  <2>2. cli.on
    BY <1>3, TypeParts DEF CliCommit, TxOK
  <2> QED
    BY <2>1, <2>2 DEF CliCollects
<1> QED
  BY <1>1, <1>2, <1>3
     DEF Next, cliVars, Store, WorkerLook, CliLook, Srem, WorkerAsk, WorkerCommit,
         CliClean, MetaPop, MetaFail, MetaAnswer, MetaCommit, Insert, WorkerCrash, FetcherCrash, CliCrash

LEMMA AnswerSettlesStep ==
  ASSUME TypeOK, AnswerSettles, Next
  PROVE  AnswerSettles'
<1>1. CASE UNCHANGED asked /\ settled \subseteq settled'
  BY <1>1 DEF AnswerSettles
<1>2. CASE asked' = NoJob
  BY <1>2, NoJobOK DEF AnswerSettles
<1>3. CASE MetaPop
  <2>1. PICK n : n = NoJob
    OBVIOUS
  <2>2. n \in [ids : SUBSET Cited, attempt : 0..MaxRounds, got : SUBSET Cited, answered : BOOLEAN] /\ ~n.answered
    BY <2>1, NoJobOK
  <2>3. PICK a : a = [n EXCEPT !.ids = Head(metaq).ids \ papers, !.attempt = Head(metaq).attempt]
    OBVIOUS
  <2>4. asked' = a \/ asked' = n
    BY <1>3, <2>1, <2>3 DEF MetaPop
  <2>5. ~a.answered
    BY <2>2, <2>3
  <2> QED
    BY <2>2, <2>4, <2>5 DEF AnswerSettles
<1>4. CASE MetaAnswer
  <2>1. PICK got \in SUBSET asked.ids :
          /\ asked' = [asked EXCEPT !.got = got, !.answered = TRUE]
          /\ settled' = settled \cup (asked.ids \ got)
    BY <1>4 DEF MetaAnswer
  <2>2. PICK a : a = asked
    OBVIOUS
  <2>3. a \in [ids : SUBSET Cited, attempt : 0..MaxRounds, got : SUBSET Cited, answered : BOOLEAN]
    BY <2>2, TypeParts DEF AskedOK
  <2>4. PICK b : b = [a EXCEPT !.got = got, !.answered = TRUE]
    OBVIOUS
  <2>5. b.ids = a.ids /\ b.got = got
    BY <2>3, <2>4
  <2> QED
    BY <2>1, <2>2, <2>4, <2>5 DEF AnswerSettles
<1> QED
  BY <1>1, <1>2, <1>3, <1>4
     DEF Next, fetchVars, Store, WorkerLook, CliLook, Srem, WorkerAsk, WorkerCommit, CliCommit, CliStart,
         CliClean, MetaFail, MetaCommit, Insert, WorkerCrash, FetcherCrash, CliCrash

LEMMA AskedStep ==
  ASSUME TypeOK, GraphIInv, AskedIInv, Next
  PROVE  AskedIInv'
<1> SUFFICES ASSUME Nobody'
             PROVE  (MissingIsAsked /\ TxAsks /\ OneByOne /\ CliCollects /\ AnswerSettles)'
  BY DEF AskedIInv
<1>1. Nobody /\ MissingIsAsked /\ TxAsks /\ OneByOne /\ CliCollects /\ AnswerSettles
  BY NobodyYet DEF AskedIInv
<1>2. \A f \in stored \ stale : \A i \in DOMAIN refs[f] : refs[f][i].ref.id \in Known
  BY <1>1, MissingIsKnown
<1>3. Known \subseteq Known'
  BY KnownStays
<1>4. ASSUME NEW f \in stored' \ stale', NEW i \in DOMAIN refs'[f]
      PROVE  refs'[f][i].ref.id \in Known'
  <2>1. /\ f \in Citing /\ i \in DOMAIN refs[f] /\ refs'[f][i].ref = refs[f][i].ref
        /\ \/ f \in stored \ stale
           \/ (WorkerCommit \/ CliCommit) /\ f = tx.paper /\ tx.read = CurrentRefs(f)
    BY <1>4, IdsStay
  <2>2. CASE f \in stored \ stale
    BY <1>2, <1>3, <2>1, <2>2
  <2>3. CASE (WorkerCommit \/ CliCommit) /\ f = tx.paper /\ tx.read = CurrentRefs(f)
    <3>1. i \in DOMAIN tx.read /\ tx.read[i] = refs[f][i].ref
      BY <2>1, <2>3 DEF CurrentRefs
    <3>2. f # None
      BY <2>1, CitingApart
    <3>3. refs[f][i].ref.id \in papers \cup Catalog \cup {None} \cup tx.missing
      BY <1>1, <2>3, <3>1, <3>2 DEF TxAsks
    <3>4. tx.missing \subseteq Known'
      BY <2>3, CommitAsks
    <3>5. papers \cup Catalog \cup {None} \subseteq Known'
      BY <1>3 DEF Known
    <3> QED
      BY <2>1, <3>3, <3>4, <3>5
  <2> QED
    BY <2>1, <2>2, <2>3
<1>5. MissingIsAsked'
  BY <1>4 DEF MissingIsAsked, Known, Waiting, Tails
<1> QED
  BY <1>1, <1>5, TxAsksStep, OneByOneStep, CliCollectsStep, AnswerSettlesStep

(***************************************************************************)
(* An id that a resolved reference has and neither table knows is on its   *)
(* way: with the worker or "resolve all" after the commit, in the queue,   *)
(* with the fetcher, or settled by an answer or by MaxRounds failures, as  *)
(* long as nobody dies with it.                                            *)
(***************************************************************************)
THEOREM UnknownIsAskedFor == Spec => []MissingIsAsked
<1>1. Init => AskedIInv
  <2> SUFFICES ASSUME Init PROVE MissingIsAsked /\ TxAsks /\ OneByOne /\ CliCollects /\ AnswerSettles
    BY DEF AskedIInv
  <2>1. stored = {} /\ tx = NoTx /\ cli = NoCli /\ asked = NoJob
    BY DEF Init
  <2> QED
    BY <2>1, NoTxOK, NoJobOK DEF MissingIsAsked, TxAsks, OneByOne, CliCollects, AnswerSettles, NoCli
<1>2. TypeOK /\ GraphIInv /\ AskedIInv /\ [Next]_vars => AskedIInv'
  <2>1. ASSUME AskedIInv, UNCHANGED vars PROVE AskedIInv'
    <3>1. /\ UNCHANGED <<papers, refs, tx, tail, stored, stale, cli, metaq, asked, settled, happened>>
      BY <2>1 DEF vars, graphVars, roundVars, cliVars, fetchVars
    <3> QED
      BY <2>1, <3>1 DEF AskedIInv, Nobody, Spared, MissingIsAsked, TxAsks, OneByOne, CliCollects, AnswerSettles
  <2> QED
    BY <2>1, AskedStep
<1>3. AskedIInv => MissingIsAsked
  BY DEF AskedIInv, Nobody, MissingIsAsked
<1> QED
  BY <1>1, <1>2, <1>3, GraphAlways, PTL DEF Spec
=============================================================================
