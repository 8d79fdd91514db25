---------------------------- MODULE ThreadProofs ----------------------------
(***************************************************************************)
(* Proofs about what a reader sees of a thread.  Of Conversation, for      *)
(* every number of papers, turns and faults and every window: its types,   *)
(* that a paper keeps its number and numbers follow the thread, and that a *)
(* run is told every turn once.  Of RunView, for any number of rows and    *)
(* requests: its types, and that a page which shows the end of a run shows *)
(* the whole of it.                                                        *)
(***************************************************************************)
EXTENDS Conversation, RunView, TLAPS, FiniteSetTheorems, SequenceTheorems, WellFoundedInduction

-----------------------------------------------------------------------------
\* Numbers: the least of a set, induction, the greatest of a finite set, and the
\* element of a finite set that has a given number of others above it.

LEMMA LeastOfNat ==
  ASSUME NEW S \in SUBSET Nat, S # {}
  PROVE  \E m \in S : \A n \in S : m <= n
<1>1. IsWellFoundedOn(OpToRel(<, Nat), Nat)
  BY NatLessThanWellFounded
<1>2. \A i, j \in Nat : <<i, j>> \in OpToRel(<, Nat) <=> i < j
  BY DEF OpToRel
<1>3. PICK m \in S : \A n \in S : ~(<<n, m>> \in OpToRel(<, Nat))
  BY <1>1, WFMin, S # {}
<1>4. ASSUME NEW n \in S PROVE m <= n
  <2>1. n \in Nat /\ m \in Nat
    OBVIOUS
  <2>2. ~(n < m)
    BY <2>1, <1>2, <1>3
  <2> QED
    BY <2>1, <2>2
<1> QED
  BY <1>4

\* Induction over the numbers in a set.
LEMMA NatSetInduction ==
  ASSUME NEW S, 0 \in S, \A n \in Nat : n \in S => n + 1 \in S
  PROVE  \A n \in Nat : n \in S
<1> SUFFICES ASSUME NEW k \in Nat, k \notin S PROVE FALSE
  OBVIOUS
<1>1. PICK m \in Nat \ S : \A n \in Nat \ S : m <= n
  <2>1. Nat \ S \in SUBSET Nat /\ Nat \ S # {}
    OBVIOUS
  <2> QED
    BY <2>1, LeastOfNat
<1>2. m # 0 /\ m - 1 \in Nat
  BY <1>1
<1>3. m - 1 \in S
  BY <1>1, <1>2
<1> QED
  BY <1>1, <1>2, <1>3

Above(u, S) == {v \in S : v > u}

\* Every set of that many numbers has a greatest one.
HasGreatest(n) ==
    \A S \in SUBSET Nat : IsFiniteSet(S) /\ Cardinality(S) = n + 1 => \E m \in S : \A x \in S : x <= m

LEMMA GreatestOfNat ==
  ASSUME NEW S \in SUBSET Nat, IsFiniteSet(S), S # {}
  PROVE  \E m \in S : \A x \in S : x <= m
<1> DEFINE G == {n \in Nat : HasGreatest(n)}
<1>1. HasGreatest(0)
  <2> SUFFICES ASSUME NEW T \in SUBSET Nat, IsFiniteSet(T), Cardinality(T) = 0 + 1
               PROVE  \E m \in T : \A x \in T : x <= m
    BY DEF HasGreatest
  <2>1. PICK y : T = {y}
    <3>1. Cardinality(T) = 1
      OBVIOUS
    <3> QED
      BY <3>1, FS_Singleton
  <2> QED
    BY <2>1
<1>2. ASSUME NEW n \in Nat, HasGreatest(n) PROVE HasGreatest(n + 1)
  <2> SUFFICES ASSUME NEW T \in SUBSET Nat, IsFiniteSet(T), Cardinality(T) = n + 1 + 1
               PROVE  \E m \in T : \A x \in T : x <= m
    BY DEF HasGreatest
  <2>1. PICK y : y \in T
    BY FS_EmptySet
  <2>2. /\ IsFiniteSet(T \ {y}) /\ Cardinality(T \ {y}) = n + 1
        /\ T \ {y} \in SUBSET Nat
    BY <2>1, FS_RemoveElement
  <2>3. PICK m \in T \ {y} : \A x \in T \ {y} : x <= m
    BY <1>2, <2>2 DEF HasGreatest
  <2>4. CASE y <= m
    BY <2>3, <2>4
  <2>5. CASE m <= y
    <3>1. \A x \in T : x <= y
      BY <2>1, <2>3, <2>5
    <3> QED
      BY <2>1, <3>1
  <2> QED
    BY <2>1, <2>3, <2>4, <2>5
<1>3. \A n \in Nat : n \in G
  <2>1. 0 \in G /\ \A n \in Nat : n \in G => n + 1 \in G
    BY <1>1, <1>2
  <2> HIDE DEF G
  <2> QED
    BY <2>1, NatSetInduction
<1>4. Cardinality(S) \in Nat /\ Cardinality(S) # 0
  BY FS_CardinalityType, FS_EmptySet
<1>5. Cardinality(S) - 1 \in G /\ Cardinality(S) = Cardinality(S) - 1 + 1
  BY <1>3, <1>4
<1> QED
  BY <1>5 DEF HasGreatest

HasRank(n) ==
    \A S \in SUBSET Nat : IsFiniteSet(S) /\ Cardinality(S) > n =>
        \E u \in S : Cardinality(Above(u, S)) = n

LEMMA RankOfNat ==
  ASSUME NEW n \in Nat, NEW S \in SUBSET Nat, IsFiniteSet(S), Cardinality(S) > n
  PROVE  \E u \in S : Cardinality(Above(u, S)) = n
<1> DEFINE G == {k \in Nat : HasRank(k)}
<1>1. HasRank(0)
  <2> SUFFICES ASSUME NEW T \in SUBSET Nat, IsFiniteSet(T), Cardinality(T) > 0
               PROVE  \E u \in T : Cardinality(Above(u, T)) = 0
    BY DEF HasRank
  <2>1. T # {}
    BY FS_EmptySet
  <2>2. PICK m \in T : \A x \in T : x <= m
    BY <2>1, GreatestOfNat
  <2>3. Above(m, T) = {}
    <3>1. \A x \in T : ~(x > m)
      <4>1. \A x \in T : x \in Nat /\ m \in Nat /\ x <= m
        BY <2>2
      <4> QED
        BY <4>1
    <3> QED
      BY <3>1 DEF Above
  <2> QED
    BY <2>3, FS_EmptySet
<1>2. ASSUME NEW k \in Nat, HasRank(k) PROVE HasRank(k + 1)
  <2> SUFFICES ASSUME NEW T \in SUBSET Nat, IsFiniteSet(T), Cardinality(T) > k + 1
               PROVE  \E u \in T : Cardinality(Above(u, T)) = k + 1
    BY DEF HasRank
  <2>1. T # {} /\ Cardinality(T) \in Nat
    BY FS_EmptySet, FS_CardinalityType
  <2>2. PICK m \in T : \A x \in T : x <= m
    BY <2>1, GreatestOfNat
  <2>3. /\ IsFiniteSet(T \ {m}) /\ Cardinality(T \ {m}) > k
        /\ T \ {m} \in SUBSET Nat
    <3>1. IsFiniteSet(T \ {m}) /\ Cardinality(T \ {m}) = Cardinality(T) - 1
      BY <2>2, FS_RemoveElement
    <3> QED
      BY <2>1, <3>1
  <2>4. PICK u \in T \ {m} : Cardinality(Above(u, T \ {m})) = k
    BY <1>2, <2>3 DEF HasRank
  <2>5. Above(u, T) = Above(u, T \ {m}) \cup {m} /\ m \notin Above(u, T \ {m})
    BY <2>2 DEF Above
  <2>6. IsFiniteSet(Above(u, T \ {m}))
    BY <2>3, FS_Subset DEF Above
  <2>7. Cardinality(Above(u, T)) = k + 1
    BY <2>4, <2>5, <2>6, FS_AddElement
  <2> QED
    BY <2>7
<1>3. \A k \in Nat : k \in G
  <2>1. 0 \in G /\ \A k \in Nat : k \in G => k + 1 \in G
    BY <1>1, <1>2
  <2> HIDE DEF G
  <2> QED
    BY <2>1, NatSetInduction
<1> QED
  BY <1>3 DEF HasRank

-----------------------------------------------------------------------------
\* The numbers of cited papers.

LEMMA HighestOK ==
  ASSUME NEW known, NumbersOK(known)
  PROVE  Highest(known) \in Nat /\ \A p \in DOMAIN known : known[p] <= Highest(known)
<1>1. PICK D \in SUBSET Papers : known \in [D -> Nat \ {0}]
  BY DEF NumbersOK
<1> DEFINE R == {known[p] : p \in D}
           S == {0} \cup R
<1>2. IsFiniteSet(R)
  <2>1. known \in Surjection(D, R)
    BY <1>1 DEF Surjection
  <2>2. IsFiniteSet(D)
    BY <1>1, ConstantsAssumption, FS_Subset
  <2> QED
    BY <2>1, <2>2, FS_Surjection
<1>3. IsFiniteSet(S) /\ S \in SUBSET Nat /\ S # {}
  <2>1. IsFiniteSet(S)
    BY <1>2, FS_Singleton, FS_Union
  <2>2. S \in SUBSET Nat
    BY <1>1
  <2> QED
    BY <2>1, <2>2
<1>4. PICK m \in S : \A x \in S : x <= m
  BY <1>3, GreatestOfNat
<1>5. \E x \in S : \A y \in S : x >= y
  BY <1>3, <1>4
<1>6. Max(S) \in S /\ \A y \in S : Max(S) >= y
  BY <1>5 DEF Max
<1>7. Highest(known) = Max(S)
  BY <1>1 DEF Highest
<1> QED
  BY <1>1, <1>3, <1>6, <1>7

LEMMA PlaceOK ==
  ASSUME NEW s, NEW p \in Cited(s)
  PROVE  Place(p, s) \in DOMAIN s /\ s[Place(p, s)] = p
BY DEF Place, Cited

LEMMA CitationsOK ==
  ASSUME NEW s \in Citations
  PROVE  /\ Cited(s) \in SUBSET Papers
         /\ \A p \in Cited(s) : Place(p, s) \in Nat
<1>1. PICK n \in 0..Cardinality(Papers) : s \in [1..n -> Papers]
  BY DEF Citations
<1>2. Cardinality(Papers) \in Nat
  BY FS_CardinalityType, ConstantsAssumption
<1> QED
  BY <1>1, <1>2, PlaceOK DEF Cited

\* number_citations gives each of the papers that have none a number of its own, above
\* all numbers given before.
LEMMA NumberedOK ==
  ASSUME NEW known, NumbersOK(known), NEW cited \in Citations
  PROVE  LET rows == NumberCitations(known, cited)
         IN  /\ rows \in [Cited(cited) \ DOMAIN known -> Nat \ {0}]
             /\ \A p \in DOMAIN rows : \A q \in DOMAIN known : known[q] < rows[p]
             /\ \A p, q \in DOMAIN rows : rows[p] = rows[q] => p = q
<1> DEFINE new     == Cited(cited) \ DOMAIN known
           upTo(p) == {q \in new : Place(q, cited) <= Place(p, cited)}
           rows    == NumberCitations(known, cited)
<1>1. rows = [p \in new |-> Highest(known) + Cardinality(upTo(p))]
  BY DEF NumberCitations
<1>2. IsFiniteSet(new) /\ \A p \in new : Place(p, cited) \in Nat
  BY CitationsOK, FS_Subset, ConstantsAssumption
<1>3. \A p \in new : /\ p \in upTo(p) /\ IsFiniteSet(upTo(p))
                     /\ Cardinality(upTo(p)) \in Nat /\ Cardinality(upTo(p)) # 0
  BY <1>2, FS_Subset, FS_CardinalityType, FS_EmptySet
<1>4. \A p, q \in new : Place(p, cited) < Place(q, cited) =>
         Cardinality(upTo(p)) < Cardinality(upTo(q))
  <2> SUFFICES ASSUME NEW p \in new, NEW q \in new, Place(p, cited) < Place(q, cited)
               PROVE  Cardinality(upTo(p)) < Cardinality(upTo(q))
    OBVIOUS
  <2>1. upTo(p) \subseteq upTo(q) /\ q \in upTo(q) /\ q \notin upTo(p)
    BY <1>2
  <2>2. upTo(p) # upTo(q)
    BY <2>1
  <2>3. Cardinality(upTo(p)) <= Cardinality(upTo(q)) /\ Cardinality(upTo(p)) # Cardinality(upTo(q))
    BY <1>3, <2>1, <2>2, FS_Subset
  <2> QED
    BY <1>3, <2>3
<1>5. ASSUME NEW p \in new, NEW q \in new, Cardinality(upTo(p)) = Cardinality(upTo(q)) PROVE p = q
  <2>1. Place(p, cited) = Place(q, cited)
    BY <1>2, <1>3, <1>4, <1>5
  <2> QED
    BY <2>1, PlaceOK
<1>6. /\ rows \in [new -> Nat \ {0}]
      /\ \A p \in new : rows[p] = Highest(known) + Cardinality(upTo(p))
  <2> HIDE DEF new, upTo, rows
  <2> QED
    BY <1>1, <1>3, HighestOK
<1>7. \A q \in DOMAIN known : known[q] \in Nat
  BY DEF NumbersOK
<1> HIDE DEF new, upTo, rows
<1>8. \A p \in new : \A q \in DOMAIN known : known[q] < rows[p]
  BY <1>3, <1>6, <1>7, HighestOK
<1>9. \A p, q \in new : rows[p] = rows[q] => p = q
  BY <1>3, <1>5, <1>6, HighestOK
<1> QED
  BY <1>6, <1>8, <1>9 DEF rows, new

-----------------------------------------------------------------------------
\* Types.

LEMMA TypingInit == Init => TypeOK
<1> SUFFICES ASSUME Init PROVE TypeOK
  OBVIOUS
<1>1. <<>> \in Citations
  <2>1. 0 \in 0..Cardinality(Papers) /\ <<>> \in [1..0 -> Papers]
    BY FS_CardinalityType, ConstantsAssumption
  <2> QED
    BY <2>1 DEF Citations
<1>2. NumbersOK(NoNumbers)
  BY DEF NumbersOK, NoNumbers
<1>3. RowsOK
  BY <1>1, <1>2 DEF Init, RowsOK
<1>4. RunsOK
  BY <1>1, <1>2 DEF Init, RunsOK, RunPcs, NoContext
<1>5. FoldsOK
  BY DEF Init, FoldsOK, FoldPcs, NoFold
<1> QED
  BY <1>3, <1>4, <1>5 DEF Init, TypeOK

LEMMA FaultTyping ==
  ASSUME TypeOK, [Next]_vars
  PROVE  faults' \in SUBSET FaultKinds /\ faults \subseteq faults'
<1>1. \A kind \in FaultKinds : Fault(kind) => faults' \in SUBSET FaultKinds /\ faults \subseteq faults'
  BY DEF TypeOK, Fault
<1> QED
  BY <1>1 DEF TypeOK, FaultKinds, Next, vars, FollowUp, ReadSummary, Hasty, ReadTurns, Answer, AnswerNothing,
     Fails, ReadNumbers, Store, Finish, FoldSelect, FoldPrevious, FoldWrite, FoldLost, CutOff

\* A run that ends or is cut off forgets what it has read.
LEMMA ForgetOK ==
  ASSUME RunsOK, NEW t \in Turns, Forget(t)
  PROVE  /\ told' \in [Turns -> [summary: Seq(Turns), verbatim: SUBSET Turns]]
         /\ draft' \in [Turns -> Citations]
         /\ DOMAIN existing' = Turns /\ \A u \in Turns : NumbersOK(existing'[u])
<1>1. NoContext \in [summary: Seq(Turns), verbatim: SUBSET Turns]
  BY DEF NoContext
<1>2. <<>> \in Citations
  <2>1. 0 \in 0..Cardinality(Papers) /\ <<>> \in [1..0 -> Papers]
    BY FS_CardinalityType, ConstantsAssumption
  <2> QED
    BY <2>1 DEF Citations
<1>3. NumbersOK(NoNumbers)
  BY DEF NumbersOK, NoNumbers
<1>4. told' \in [Turns -> [summary: Seq(Turns), verbatim: SUBSET Turns]]
  BY <1>1 DEF RunsOK, Forget
<1>5. draft' \in [Turns -> Citations]
  BY <1>2 DEF RunsOK, Forget
<1>6. DOMAIN existing' = Turns /\ \A u \in Turns : NumbersOK(existing'[u])
  BY <1>3 DEF RunsOK, Forget
<1> QED
  BY <1>4, <1>5, <1>6

\* A run goes on.
LEMMA GoesOK ==
  ASSUME RunsOK, NEW t \in Turns, NEW from \in RunPcs \ {"none", "over"},
         NEW to \in RunPcs \ {"none", "over"}, Goes(t, from, to), UNCHANGED status
  PROVE  /\ pc' \in [Turns -> RunPcs]
         /\ \A u \in Turns : pc'[u] \notin {"none", "over"} <=> status'[u] = "running"
BY DEF RunsOK, Goes

\* What the transaction of _store makes of the numbers.
LEMMA StoreNumbers ==
  ASSUME TypeOK, NEW t \in Turns, Store(t)
  PROVE  /\ NumbersOK(numbers')
         /\ DOMAIN numbers \subseteq DOMAIN numbers'
         /\ \A p \in DOMAIN numbers : numbers'[p] = numbers[p]
         /\ \A p, q \in DOMAIN numbers' :
               numbers'[p] = numbers'[q] =>
                  p = q \/ (p \in DOMAIN numbers /\ q \in DOMAIN numbers)
<1> DEFINE rows == NumberCitations(existing[t], draft[t])
           put  == Inserted(rows)
<1>1. /\ rows \in [Cited(draft[t]) \ DOMAIN existing[t] -> Nat \ {0}]
      /\ \A p, q \in DOMAIN rows : rows[p] = rows[q] => p = q
  BY NumberedOK DEF TypeOK, RunsOK
<1>2. Cited(draft[t]) \subseteq Papers
  BY CitationsOK DEF TypeOK, RunsOK
<1>3. numbers' = [p \in DOMAIN numbers \cup put |-> IF p \in DOMAIN numbers THEN numbers[p] ELSE rows[p]]
  BY DEF Store
<1>4. /\ put \subseteq DOMAIN rows
      /\ \A p \in put : p \notin DOMAIN numbers /\ \A q \in DOMAIN numbers : numbers[q] # rows[p]
  BY DEF Inserted
<1> HIDE DEF rows, put
<1>5. PICK known \in SUBSET Papers : numbers \in [known -> Nat \ {0}]
  BY DEF TypeOK, RowsOK, NumbersOK
<1>6. numbers' \in [known \cup put -> Nat \ {0}] /\ known \cup put \in SUBSET Papers
  BY <1>1, <1>2, <1>3, <1>4, <1>5
<1>7. NumbersOK(numbers')
  BY <1>6 DEF NumbersOK
<1>8. /\ DOMAIN numbers' = DOMAIN numbers \cup put
      /\ \A p \in DOMAIN numbers : numbers'[p] = numbers[p]
      /\ \A p \in put : numbers'[p] = rows[p]
  BY <1>3, <1>4
<1> QED
  BY <1>1, <1>4, <1>7, <1>8

\* Turns are asked one after the other.
AskedInTurn == \E n \in 0..MaxTurns : Asked = 1..n

LEMMA FollowUpIsNext ==
  ASSUME AskedInTurn, NEW t \in Turns, FollowUp(t)
  PROVE  status[t] = "none" /\ Asked = 1..(t - 1) /\ t - 1 \in Nat
<1>1. PICK n \in 0..MaxTurns : Asked = 1..n
  BY DEF AskedInTurn
<1>2. Cardinality(1..n) = n
  <2>1. n \in Int /\ 1 \in Int /\ (1 > n <=> n = 0) /\ n - 1 + 1 = n
    BY ConstantsAssumption
  <2> QED
    BY <2>1, FS_Interval
<1>3. t = n + 1 /\ n \in Nat
  BY <1>1, <1>2, ConstantsAssumption DEF FollowUp
<1>4. t \notin Asked
  BY <1>1, <1>3
<1> QED
  BY <1>1, <1>3, <1>4 DEF Asked

LEMMA AskedInit == Init => AskedInTurn
<1>1. 0 \in 0..MaxTurns /\ 1..0 = {}
  BY ConstantsAssumption
<1>2. Init => Asked = {}
  BY DEF Init, Asked
<1> QED
  BY <1>1, <1>2 DEF AskedInTurn

LEMMA AskedStep ==
  ASSUME TypeOK, AskedInTurn, [Next]_vars
  PROVE  AskedInTurn'
<1>1. CASE Asked' = Asked
  BY <1>1 DEF AskedInTurn
<1>2. ASSUME NEW t \in Turns, FollowUp(t) PROVE AskedInTurn'
  <2>1. Asked = 1..(t - 1) /\ t - 1 \in Nat
    BY <1>2, FollowUpIsNext
  <2>2. Asked' = Asked \cup {t}
    BY <1>2 DEF FollowUp, Asked, TypeOK, RowsOK
  <2>3. t \in 0..MaxTurns /\ 1..(t - 1) \cup {t} = 1..t
    BY <2>1, ConstantsAssumption DEF Turns
  <2> QED
    BY <2>1, <2>2, <2>3 DEF AskedInTurn
<1>3. ASSUME NEW t \in Turns, Fails(t) \/ Finish(t) PROVE Asked' = Asked
  <2>1. status[t] = "running"
    BY <1>3 DEF Fails, Finish, Goes, TypeOK, RunsOK
  <2> QED
    BY <1>3, <2>1 DEF Fails, Finish, Asked, TypeOK, RowsOK
<1>4. CASE UNCHANGED status
  BY <1>1, <1>4 DEF Asked
<1> QED
  BY <1>1, <1>2, <1>3, <1>4
     DEF Next, vars, threadVars, ReadSummary, ReadTurns, Answer, AnswerNothing, ReadNumbers,
         Store, FoldSelect, FoldPrevious, FoldWrite, FoldLost, CutOff

\* The answered turns are a finite set of numbers.
LEMMA AnsweredOK == Answered \in SUBSET Nat /\ IsFiniteSet(Answered) /\ Answered \subseteq Turns
<1>1. Turns \in SUBSET Nat /\ IsFiniteSet(Turns)
  BY ConstantsAssumption, FS_Interval DEF Turns
<1> QED
  BY <1>1, FS_Subset DEF Answered

\* FoldSelect finds the turn it looks for.
LEMMA FoldSelectFinds ==
  ASSUME Cardinality(Answered) > Window
  PROVE  \E u \in Answered : Cardinality({v \in Answered : v > u}) = Window
BY AnsweredOK, RankOfNat, ConstantsAssumption DEF Above

Folds == [pc: FoldPcs, turn: Turns \cup {0}, previous: Seq(Turns)]

\* A step of a fold leaves the other folds alone.
LEMMA FoldGoes ==
  ASSUME TypeOK, NEW t \in Turns, NEW f \in Folds, fold' = [fold EXCEPT ![t] = f],
         UNCHANGED status, fold[t].pc # "idle", f.pc \in {"chosen", "asking"} => f.turn \in Turns
  PROVE  FoldsOK'
<1>1. /\ fold' \in [Turns -> Folds]
      /\ \A u \in Turns : fold'[u] = IF u = t THEN f ELSE fold[u]
  BY DEF TypeOK, FoldsOK, Folds
<1> QED
  BY <1>1 DEF TypeOK, FoldsOK, Folds

LEMMA FoldTyping ==
  ASSUME TypeOK, NEW t \in Turns,
         FoldSelect(t) \/ FoldPrevious(t) \/ FoldWrite(t) \/ FoldLost(t)
  PROVE  RowsOK' /\ FoldsOK'
<1> USE DEF TypeOK
<1>1. NoFold \in Folds /\ NoFold.pc = "idle" /\ fold[t] \in Folds
  BY DEF NoFold, Folds, FoldPcs, FoldsOK
<1>2. CASE FoldSelect(t)
  <2>1. UNCHANGED <<threadVars>> /\ fold[t].pc = "selecting"
    BY <1>2 DEF FoldSelect
  <2>2. RowsOK'
    BY <2>1 DEF RowsOK, threadVars
  <2>3. CASE fold' = [fold EXCEPT ![t] = NoFold]
    BY <1>1, <2>1, <2>2, <2>3, FoldGoes DEF threadVars
  <2>4. CASE ~(Cardinality(Answered) <= Window)
    <3> DEFINE u == CHOOSE u \in Answered : Cardinality({v \in Answered : v > u}) = Window
               f == [NoFold EXCEPT !.pc = "chosen", !.turn = u]
    <3>1. fold' = [fold EXCEPT ![t] = f]
      BY <1>2, <2>4 DEF FoldSelect
    <3>2. u \in Turns
      <4>1. Cardinality(Answered) > Window
        BY <2>4, AnsweredOK, FS_CardinalityType, ConstantsAssumption
      <4> QED
        BY <4>1, FoldSelectFinds, AnsweredOK
    <3> HIDE DEF u
    <3>3. f \in Folds /\ f.turn = u
      <4>1. PICK g : g = [NoFold EXCEPT !.pc = "chosen", !.turn = u]
        OBVIOUS
      <4>2. g \in Folds /\ g.turn = u
        BY <1>1, <3>2, <4>1 DEF Folds, FoldPcs
      <4> QED
        BY <4>1, <4>2
    <3> HIDE DEF f
    <3> QED
      BY <2>1, <2>2, <3>1, <3>2, <3>3, FoldGoes DEF threadVars
  <2> QED
    BY <1>2, <2>3, <2>4 DEF FoldSelect
<1>3. CASE FoldPrevious(t)
  <2>1. UNCHANGED <<threadVars>> /\ fold[t].pc = "chosen" /\ fold[t].turn \in Turns
    BY <1>3 DEF FoldPrevious, FoldsOK
  <2>2. RowsOK'
    BY <2>1 DEF RowsOK, threadVars
  <2>3. PICK f : f = [fold[t] EXCEPT !.pc = "asking", !.previous = summary]
    OBVIOUS
  <2>4. fold' = [fold EXCEPT ![t] = f]
    BY <1>3, <2>3 DEF FoldPrevious
  <2>5. f \in Folds /\ f.turn = fold[t].turn
    BY <1>1, <2>3 DEF Folds, FoldPcs, RowsOK
  <2> QED
    BY <2>1, <2>2, <2>4, <2>5, FoldGoes DEF threadVars
<1>4. CASE FoldWrite(t)
  <2>1. fold[t].previous \in Seq(Turns) /\ fold[t].turn \in Turns /\ fold[t].pc = "asking"
    BY <1>1, <1>4 DEF FoldWrite, FoldsOK, Folds
  <2>2. RowsOK'
    BY <1>4, <2>1 DEF FoldWrite, RowsOK
  <2> QED
    BY <1>1, <1>4, <2>1, <2>2, FoldGoes DEF FoldWrite
<1>5. CASE FoldLost(t)
  <2>1. RowsOK'
    BY <1>5 DEF FoldLost, RowsOK, threadVars
  <2> QED
    BY <1>1, <1>5, <2>1, FoldGoes DEF FoldLost, threadVars
<1> QED
  BY <1>2, <1>3, <1>4, <1>5

LEMMA TypingStep ==
  ASSUME TypeOK, AskedInTurn, [Next]_vars
  PROVE  TypeOK'
<1> USE DEF TypeOK
<1>0. faults' \in SUBSET FaultKinds
  BY FaultTyping
<1>1. CASE UNCHANGED vars
  BY <1>1 DEF RowsOK, RunsOK, FoldsOK, vars, threadVars, runVars
<1>2. ASSUME NEW t \in Turns, FollowUp(t) PROVE TypeOK'
  <2>1. RowsOK'
    BY <1>2 DEF FollowUp, RowsOK
  <2>2. RunsOK'
    <3>1. \A u \in Turns : pc'[u] = IF u = t THEN "asked" ELSE pc[u]
      BY <1>2 DEF FollowUp, Goes, RunsOK
    <3>2. \A u \in Turns : status'[u] = IF u = t THEN "running" ELSE status[u]
      BY <1>2 DEF FollowUp, RowsOK
    <3>3. pc' \in [Turns -> RunPcs]
      BY <1>2 DEF FollowUp, Goes, RunsOK, RunPcs
    <3> QED
      BY <1>2, <3>1, <3>2, <3>3 DEF FollowUp, RunsOK
  <2>3. FoldsOK'
    BY <1>2, FollowUpIsNext DEF FollowUp, FoldsOK, RowsOK
  <2> QED
    BY <1>0, <2>1, <2>2, <2>3
<1>3. ASSUME NEW t \in Turns,
             ReadSummary(t) \/ ReadTurns(t) \/ Answer(t) \/ AnswerNothing(t) \/ ReadNumbers(t)
      PROVE  TypeOK'
  <2>1. UNCHANGED <<threadVars, fold>>
    BY <1>3 DEF ReadSummary, ReadTurns, Answer, AnswerNothing, ReadNumbers
  <2>2. RowsOK' /\ FoldsOK' /\ UNCHANGED status
    BY <2>1 DEF RowsOK, FoldsOK, threadVars
  <2>3. /\ pc' \in [Turns -> RunPcs]
        /\ \A u \in Turns : pc'[u] \notin {"none", "over"} <=> status'[u] = "running"
    BY <1>3, <2>2, GoesOK DEF ReadSummary, ReadTurns, Answer, AnswerNothing, ReadNumbers, RunPcs
  <2>4. told' \in [Turns -> [summary: Seq(Turns), verbatim: SUBSET Turns]]
    <3>1. CASE ReadSummary(t)
      BY <3>1 DEF ReadSummary, RunsOK, RowsOK
    <3>2. CASE ReadTurns(t)
      <4>1. Last(Window, Before(t)) \in SUBSET Turns
        BY DEF Last, Before, Answered
      <4> QED
        BY <3>2, <4>1 DEF ReadTurns, RunsOK
    <3> QED
      BY <1>3, <3>1, <3>2 DEF Answer, AnswerNothing, ReadNumbers, RunsOK
  <2>5. draft' \in [Turns -> Citations]
    BY <1>3 DEF ReadSummary, ReadTurns, Answer, AnswerNothing, ReadNumbers, RunsOK
  <2>6. DOMAIN existing' = Turns /\ \A u \in Turns : NumbersOK(existing'[u])
    BY <1>3 DEF ReadSummary, ReadTurns, Answer, AnswerNothing, ReadNumbers, RunsOK, RowsOK
  <2> QED
    BY <1>0, <2>2, <2>3, <2>4, <2>5, <2>6 DEF RunsOK
<1>4. ASSUME NEW t \in Turns, Fails(t) PROVE TypeOK'
  <2>1. RowsOK'
    BY <1>4 DEF Fails, RowsOK
  <2>2. /\ pc' \in [Turns -> RunPcs]
        /\ \A u \in Turns : pc'[u] \notin {"none", "over"} <=> status'[u] = "running"
    BY <1>4 DEF Fails, RunsOK, RowsOK, RunPcs
  <2>3. FoldsOK'
    BY <1>4 DEF Fails, FoldsOK, RowsOK
  <2> QED
    BY <1>0, <1>4, <2>1, <2>2, <2>3, ForgetOK DEF Fails, RunsOK
<1>5. ASSUME NEW t \in Turns, Store(t) PROVE TypeOK'
  <2>1. RowsOK'
    BY <1>5, StoreNumbers DEF Store, RowsOK, RunsOK
  <2>2. /\ pc' \in [Turns -> RunPcs]
        /\ \A u \in Turns : pc'[u] \notin {"none", "over"} <=> status'[u] = "running"
    BY <1>5, GoesOK DEF Store, RunPcs
  <2> QED
    BY <1>0, <1>5, <2>1, <2>2 DEF Store, RunsOK, FoldsOK
<1>6. ASSUME NEW t \in Turns, Finish(t) PROVE TypeOK'
  <2>1. RowsOK'
    BY <1>6 DEF Finish, RowsOK
  <2>2. /\ pc' \in [Turns -> RunPcs]
        /\ \A u \in Turns : pc'[u] \notin {"none", "over"} <=> status'[u] = "running"
    BY <1>6 DEF Finish, Goes, RunsOK, RowsOK, RunPcs
  <2>3. FoldsOK'
    <3>1. PICK f : f = [fold[t] EXCEPT !.pc = "selecting"]
      OBVIOUS
    <3>2. fold' = [fold EXCEPT ![t] = f]
      BY <1>6, <3>1 DEF Finish
    <3>3. f \in Folds /\ f.pc = "selecting"
      BY <3>1 DEF Folds, FoldPcs, FoldsOK
    <3>4. fold' \in [Turns -> Folds] /\ \A u \in Turns : fold'[u] = IF u = t THEN f ELSE fold[u]
      BY <3>2, <3>3 DEF FoldsOK, Folds
    <3>5. \A u \in Turns : status'[u] = IF u = t THEN "done" ELSE status[u]
      BY <1>6 DEF Finish, RowsOK
    <3> QED
      BY <3>3, <3>4, <3>5 DEF FoldsOK, Folds
  <2> QED
    BY <1>0, <1>6, <2>1, <2>2, <2>3, ForgetOK DEF Finish, RunsOK
<1>7. ASSUME NEW t \in Turns, FoldSelect(t) \/ FoldPrevious(t) \/ FoldWrite(t) \/ FoldLost(t)
      PROVE  TypeOK'
  <2>1. RowsOK' /\ FoldsOK'
    BY <1>7, FoldTyping
  <2>2. UNCHANGED <<runVars, status>>
    BY <1>7 DEF FoldSelect, FoldPrevious, FoldWrite, FoldLost, threadVars
  <2> QED
    BY <1>0, <2>1, <2>2 DEF RunsOK, runVars
<1>8. ASSUME NEW t \in Turns, CutOff(t) PROVE TypeOK'
  <2>1. RowsOK' /\ FoldsOK'
    BY <1>8 DEF CutOff, RowsOK, FoldsOK, threadVars
  <2>2. /\ pc' \in [Turns -> RunPcs]
        /\ \A u \in Turns : pc'[u] \notin {"none", "over"} <=> status'[u] = "running"
    BY <1>8 DEF CutOff, RunsOK, RunPcs, threadVars
  <2> QED
    BY <1>0, <1>8, <2>1, <2>2, ForgetOK DEF CutOff, RunsOK
<1> QED
  BY <1>1, <1>2, <1>3, <1>4, <1>5, <1>6, <1>7, <1>8 DEF Next

(***************************************************************************)
(* The rows of the thread, the locals of the runs and their folds keep     *)
(* their types: a fold finds the turn that has left the window, and every  *)
(* number is a positive one.                                               *)
(***************************************************************************)
THEOREM Typing == Spec => []TypeOK
<1>1. Init => AskedInTurn
  BY AskedInit
<1>2. TypeOK /\ AskedInTurn /\ [Next]_vars => TypeOK' /\ AskedInTurn'
  BY TypingStep, AskedStep
<1> QED
  BY TypingInit, <1>1, <1>2, PTL DEF Spec

-----------------------------------------------------------------------------
\* A paper keeps its number.

NumbersApart == \A p, q \in DOMAIN numbers : numbers[p] = numbers[q] => p = q

\* Only the transaction of _store writes answers and numbers.
LEMMA OnlyStoreNumbers ==
  ASSUME [Next]_vars, \A t \in Turns : ~Store(t)
  PROVE  UNCHANGED <<answer, numbers>>
BY DEF Next, vars, threadVars, FollowUp, ReadSummary, ReadTurns, Answer, AnswerNothing, Fails, ReadNumbers,
       Finish, FoldSelect, FoldPrevious, FoldWrite, FoldLost, CutOff

LEMMA NumbersGrow ==
  ASSUME TypeOK, NumbersApart, [Next]_vars
  PROVE  /\ NumbersApart'
         /\ \A p \in DOMAIN numbers : p \in DOMAIN numbers' /\ numbers'[p] = numbers[p]
<1>1. CASE \A t \in Turns : ~Store(t)
  BY <1>1, OnlyStoreNumbers DEF NumbersApart
<1>2. ASSUME NEW t \in Turns, Store(t)
      PROVE  /\ NumbersApart'
             /\ \A p \in DOMAIN numbers : p \in DOMAIN numbers' /\ numbers'[p] = numbers[p]
  BY <1>2, StoreNumbers DEF NumbersApart
<1> QED
  BY <1>1, <1>2

(***************************************************************************)
(* A number that has been given keeps its paper in every step, two runs    *)
(* that number at once and runs that are cut off included.                 *)
(***************************************************************************)
THEOREM NumbersAreKept == Spec => NumbersStay
<1> DEFINE I == TypeOK /\ AskedInTurn /\ NumbersApart
           Kept == /\ \A p \in DOMAIN numbers : p \in DOMAIN numbers' /\ numbers'[p] = numbers[p]
                   /\ \A p, q \in DOMAIN numbers' : numbers'[p] = numbers'[q] => p = q
<1>1. Init => I
  BY TypingInit, AskedInit DEF Init, NumbersApart, NoNumbers
<1>2. I /\ [Next]_vars => I' /\ Kept
  BY TypingStep, AskedStep, NumbersGrow DEF NumbersApart
<1>3. Kept => [Kept]_vars
  OBVIOUS
<1>4. Spec => [][Kept]_vars
  <2> HIDE DEF I, Kept
  <2> QED
    BY <1>1, <1>2, <1>3, PTL DEF Spec
<1> QED
  BY <1>4 DEF NumbersStay

-----------------------------------------------------------------------------
\* Numbers follow the thread.

\* Without two runs at once, the one that runs is the last turn.
Serial == \A t, u \in Turns : status[t] = "running" /\ status[u] # "none" => u <= t

\* A turn that has not stored an answer yet, unless it was cut off after that.
Unstored(t) ==
    \/ status[t] = "none"
    \/ pc[t] \in {"none", "asked", "reading", "answering", "numbering", "storing"}

FirstCitedLater(t) ==
    \A p \in Cited(answer[t]) \ CitedEarlier(t) : \A q \in CitedEarlier(t) : numbers[q] < numbers[p]

(***************************************************************************)
(* The inductive invariant behind NumbersInOrder: a transaction has read   *)
(* the numbers as they still are, and the numbers are those of the answers.*)
(***************************************************************************)
ReadIsCurrent ==
    /\ \A t \in Turns : pc[t] = "storing" => existing[t] = numbers
    /\ \A t \in Turns : Cited(answer[t]) \subseteq DOMAIN numbers

NumbersAreCited ==
    /\ \A p \in DOMAIN numbers : \E t \in Turns : p \in Cited(answer[t])
    /\ \A t \in Turns : Unstored(t) => Cited(answer[t]) = {}
    /\ \A t \in Turns : FirstCitedLater(t)

NumbersInv ==
    /\ AskedInTurn
    /\ Spared({"twoRuns"}) => Serial /\ ReadIsCurrent
    /\ Spared({"twoRuns", "crash"}) => NumbersAreCited

LEMMA SparedBefore ==
  ASSUME TypeOK, [Next]_vars, NEW kinds, Spared(kinds)'
  PROVE  Spared(kinds) /\ \A kind \in kinds : ~Fault(kind)
BY FaultTyping DEF Spared, Fault

LEMMA TurnsNat == Turns \subseteq Nat
BY ConstantsAssumption DEF Turns

LEMMA SerialStep ==
  ASSUME TypeOK, AskedInTurn, Serial, [Next]_vars, Spared({"twoRuns"})'
  PROVE  Serial'
<1>0. \A t, u \in Turns : status[t] = "running" /\ status[u] # "none" => u <= t
  BY DEF Serial
<1>1. ASSUME NEW t \in Turns, FollowUp(t) PROVE Serial'
  <2>1. Asked = 1..(t - 1) /\ t \in Nat
    BY <1>1, FollowUpIsNext, TurnsNat
  <2>2. Running = {}
    BY <1>1, SparedBefore DEF FollowUp
  <2>3. \A u \in Turns : status'[u] = IF u = t THEN "running" ELSE status[u]
    BY <1>1 DEF FollowUp, TypeOK, RowsOK
  <2>4. \A u \in Turns : status'[u] = "running" => u = t
    BY <2>2, <2>3 DEF Running
  <2>5. ASSUME NEW u \in Turns, status'[u] # "none" PROVE u <= t
    <3>1. u = t \/ u \in Asked
      BY <2>3, <2>5 DEF Asked
    <3> QED
      BY <2>1, <3>1
  <2> QED
    BY <2>4, <2>5 DEF Serial
<1>2. ASSUME NEW t \in Turns, Fails(t) \/ Finish(t) PROVE Serial'
  <2>1. status[t] = "running"
    BY <1>2 DEF Fails, Finish, Goes, TypeOK, RunsOK
  <2>2. /\ \A u \in Turns : status'[u] = "running" => status[u] = "running"
        /\ \A u \in Turns : status'[u] # "none" => status[u] # "none"
    BY <1>2, <2>1 DEF Fails, Finish, TypeOK, RowsOK
  <2> QED
    BY <1>0, <2>2 DEF Serial
<1>3. CASE UNCHANGED status
  BY <1>3 DEF Serial
<1> QED
  BY <1>1, <1>2, <1>3
     DEF Next, vars, threadVars, ReadSummary, ReadTurns, Answer, AnswerNothing, ReadNumbers,
         Store, FoldSelect, FoldPrevious, FoldWrite, FoldLost, CutOff

\* If nothing was numbered since it has read the numbers, the transaction inserts all its rows.
LEMMA StoreAll ==
  ASSUME TypeOK, NEW t \in Turns, Store(t), existing[t] = numbers
  PROVE  /\ DOMAIN numbers' = DOMAIN numbers \cup Cited(draft[t])
         /\ \A q \in DOMAIN numbers : numbers'[q] = numbers[q]
         /\ \A p \in Cited(draft[t]) \ DOMAIN numbers : \A q \in DOMAIN numbers : numbers[q] < numbers'[p]
<1> DEFINE rows == NumberCitations(existing[t], draft[t])
<1>1. /\ rows \in [Cited(draft[t]) \ DOMAIN numbers -> Nat \ {0}]
      /\ \A p \in DOMAIN rows : \A q \in DOMAIN numbers : numbers[q] < rows[p]
  BY NumberedOK DEF TypeOK, RunsOK
<1>2. \A q \in DOMAIN numbers : numbers[q] \in Nat
  BY DEF TypeOK, RowsOK, NumbersOK
<1>3. numbers' = [p \in DOMAIN numbers \cup Inserted(rows) |->
                    IF p \in DOMAIN numbers THEN numbers[p] ELSE rows[p]]
  BY DEF Store
<1> HIDE DEF rows
<1>4. \A p \in DOMAIN rows : \A q \in DOMAIN numbers : numbers[q] # rows[p]
  BY <1>1, <1>2
<1>5. Inserted(rows) = Cited(draft[t]) \ DOMAIN numbers
  BY <1>1, <1>4 DEF Inserted
<1> QED
  BY <1>1, <1>3, <1>5

\* What a step makes of the places of the runs and of what they have read, but for _store.
LEMMA RunsGoOn ==
  ASSUME TypeOK, [Next]_vars, \A t \in Turns : ~Store(t), NEW u \in Turns
  PROVE  /\ pc'[u] = "storing" => \/ existing'[u] = numbers
                                  \/ pc[u] = "storing" /\ existing'[u] = existing[u]
         /\ ~Fault("crash") /\ Unstored(u)' => Unstored(u)
<1> USE DEF TypeOK, RowsOK, RunsOK, Unstored, Goes
<1>1. CASE UNCHANGED <<status, runVars>>
  BY <1>1 DEF runVars
<1>2. CASE \E t \in Turns : ReadSummary(t) \/ ReadTurns(t) \/ Answer(t) \/ AnswerNothing(t)
  BY <1>2 DEF ReadSummary, ReadTurns, Answer, AnswerNothing, threadVars
<1>3. CASE \E t \in Turns : ReadNumbers(t)
  BY <1>3 DEF ReadNumbers, threadVars
<1>4. CASE \E t \in Turns : FollowUp(t)
  BY <1>4 DEF FollowUp
<1>5. CASE \E t \in Turns : Fails(t)
  BY <1>5 DEF Fails, Forget
<1>6. CASE \E t \in Turns : Finish(t)
  BY <1>6 DEF Finish, Forget
<1>7. CASE \E t \in Turns : CutOff(t)
  BY <1>7 DEF CutOff, Forget
<1> QED
  BY <1>1, <1>2, <1>3, <1>4, <1>5, <1>6, <1>7
     DEF Next, vars, threadVars, FoldSelect, FoldPrevious, FoldWrite, FoldLost

LEMMA ReadStep ==
  ASSUME TypeOK, Serial, ReadIsCurrent, [Next]_vars
  PROVE  ReadIsCurrent'
<1>1. CASE \A t \in Turns : ~Store(t)
  <2>1. UNCHANGED <<answer, numbers>>
    BY <1>1, OnlyStoreNumbers
  <2> QED
    BY <1>1, <2>1, RunsGoOn DEF ReadIsCurrent
<1>2. ASSUME NEW t \in Turns, Store(t) PROVE ReadIsCurrent'
  <2>1. pc[t] = "storing" /\ existing[t] = numbers
    BY <1>2 DEF Store, Goes, ReadIsCurrent
  <2>2. \A u \in Turns : pc[u] = "storing" => u = t
    <3>1. \A u \in Turns : pc[u] = "storing" => status[u] = "running"
      BY DEF TypeOK, RunsOK
    <3> QED
      BY <2>1, <3>1, TurnsNat DEF Serial
  <2>3. \A u \in Turns : pc'[u] = IF u = t THEN "finishing" ELSE pc[u]
    BY <1>2 DEF Store, Goes, TypeOK, RunsOK
  <2>4. \A u \in Turns : answer'[u] = IF u = t THEN draft[t] ELSE answer[u]
    BY <1>2 DEF Store, TypeOK, RowsOK
  <2>5. DOMAIN numbers' = DOMAIN numbers \cup Cited(draft[t])
    BY <1>2, <2>1, StoreAll
  <2> QED
    BY <2>2, <2>3, <2>4, <2>5 DEF ReadIsCurrent
<1> QED
  BY <1>1, <1>2

LEMMA CitedStep ==
  ASSUME TypeOK, Serial, ReadIsCurrent, NumbersAreCited, [Next]_vars, ~Fault("crash")
  PROVE  NumbersAreCited'
<1>1. CASE \A t \in Turns : ~Store(t)
  <2>1. UNCHANGED <<answer, numbers>>
    BY <1>1, OnlyStoreNumbers
  <2>2. \A t \in Turns : Unstored(t)' => Unstored(t)
    BY <1>1, RunsGoOn
  <2>3. \A t \in Turns : FirstCitedLater(t)' <=> FirstCitedLater(t)
    BY <2>1 DEF FirstCitedLater, CitedEarlier
  <2> QED
    BY <2>1, <2>2, <2>3 DEF NumbersAreCited
<1>2. ASSUME NEW t \in Turns, Store(t) PROVE NumbersAreCited'
  <2>1. pc[t] = "storing" /\ existing[t] = numbers /\ status[t] = "running"
    BY <1>2 DEF Store, Goes, ReadIsCurrent, TypeOK, RunsOK
  <2>2. \A u \in Turns : answer'[u] = IF u = t THEN draft[t] ELSE answer[u]
    BY <1>2 DEF Store, TypeOK, RowsOK
  <2>3. /\ DOMAIN numbers' = DOMAIN numbers \cup Cited(draft[t])
        /\ \A q \in DOMAIN numbers : numbers'[q] = numbers[q]
        /\ \A p \in Cited(draft[t]) \ DOMAIN numbers : \A q \in DOMAIN numbers : numbers[q] < numbers'[p]
    BY <1>2, <2>1, StoreAll
  <2>4. Cited(answer[t]) = {}
    BY <2>1 DEF NumbersAreCited, Unstored
  <2>5. \A u \in Turns : u > t => Cited(answer[u]) = {}
    <3>1. \A u \in Turns : u > t => status[u] = "none"
      BY <2>1, TurnsNat DEF Serial
    <3> QED
      BY <3>1 DEF NumbersAreCited, Unstored
  <2>6. \A p \in DOMAIN numbers' : \E u \in Turns : p \in Cited(answer'[u])
    <3>1. ASSUME NEW p \in DOMAIN numbers PROVE \E u \in Turns : p \in Cited(answer'[u])
      BY <2>2, <2>4 DEF NumbersAreCited
    <3> QED
      BY <2>2, <2>3, <3>1
  <2>7. \A u \in Turns : Unstored(u)' => Cited(answer'[u]) = {}
    <3>1. \A u \in Turns : Unstored(u)' => u # t /\ Unstored(u)
      BY <1>2, <2>1 DEF Store, Goes, Unstored, TypeOK, RunsOK
    <3> QED
      BY <2>2, <3>1 DEF NumbersAreCited
  <2>8. ASSUME NEW u \in Turns PROVE FirstCitedLater(u)'
    <3>0. t \in Nat /\ u \in Nat /\ 1..(u - 1) \subseteq Turns
      BY TurnsNat, ConstantsAssumption DEF Turns
    <3>1. CASE u > t
      BY <2>2, <2>5, <3>0, <3>1 DEF FirstCitedLater
    <3>2. CASE u <= t
      <4>1. \A v \in 1..(u - 1) : v \in Turns /\ v # t
        BY <3>0, <3>2
      <4>2. CitedEarlier(u)' = CitedEarlier(u)
        BY <2>2, <4>1 DEF CitedEarlier
      <4>3. CitedEarlier(u) \subseteq DOMAIN numbers
        BY <4>1 DEF CitedEarlier, ReadIsCurrent
      <4>4. CASE u # t
        <5>1. Cited(answer'[u]) = Cited(answer[u]) /\ Cited(answer[u]) \subseteq DOMAIN numbers
          BY <2>2, <4>4 DEF ReadIsCurrent
        <5>2. FirstCitedLater(u)
          BY DEF NumbersAreCited
        <5> QED
          BY <2>3, <4>2, <4>3, <5>1, <5>2 DEF FirstCitedLater
      <4>5. CASE u = t
        <5>1. ASSUME NEW p \in Cited(draft[t]) \ CitedEarlier(t) PROVE p \notin DOMAIN numbers
          <6>1. SUFFICES ASSUME p \in DOMAIN numbers PROVE FALSE
            OBVIOUS
          <6>2. PICK v \in Turns : p \in Cited(answer[v])
            BY <6>1 DEF NumbersAreCited
          <6>3. v < t
            BY <2>4, <2>5, <6>2, TurnsNat
          <6>4. v \in 1..(t - 1)
            BY <6>3, ConstantsAssumption DEF Turns
          <6> QED
            BY <5>1, <6>2, <6>4 DEF CitedEarlier
        <5>2. Cited(answer'[u]) = Cited(draft[t])
          BY <2>2, <4>5
        <5> QED
          BY <2>3, <4>2, <4>3, <4>5, <5>1, <5>2 DEF FirstCitedLater
      <4> QED
        BY <4>4, <4>5
    <3> QED
      BY <3>0, <3>1, <3>2
  <2> QED
    BY <2>6, <2>7, <2>8 DEF NumbersAreCited
<1> QED
  BY <1>1, <1>2

LEMMA NumbersInit == Init => NumbersInv
<1> SUFFICES ASSUME Init PROVE NumbersInv
  OBVIOUS
<1>1. \A t \in Turns : Cited(answer[t]) = {}
  BY DEF Init, Cited
<1>2. DOMAIN numbers = {}
  BY DEF Init, NoNumbers
<1>3. Serial /\ ReadIsCurrent
  BY <1>1, <1>2 DEF Init, Serial, ReadIsCurrent
<1>4. NumbersAreCited
  BY <1>1, <1>2 DEF NumbersAreCited, FirstCitedLater
<1> QED
  BY <1>3, <1>4, AskedInit DEF NumbersInv

LEMMA NumbersStep ==
  ASSUME TypeOK, NumbersInv, [Next]_vars
  PROVE  NumbersInv'
<1>1. Spared({"twoRuns"})' => Serial' /\ ReadIsCurrent'
  BY SparedBefore, SerialStep, ReadStep DEF NumbersInv
<1>2. Spared({"twoRuns", "crash"})' => NumbersAreCited'
  <2> SUFFICES ASSUME Spared({"twoRuns", "crash"})' PROVE NumbersAreCited'
    OBVIOUS
  <2>1. Spared({"twoRuns", "crash"}) /\ ~Fault("crash")
    BY SparedBefore
  <2>2. Spared({"twoRuns"})
    BY <2>1 DEF Spared
  <2> QED
    BY <2>1, <2>2, CitedStep DEF NumbersInv
<1> QED
  BY <1>1, <1>2, AskedStep DEF NumbersInv

(***************************************************************************)
(* Without two runs at once what an answer cites has a number, and without *)
(* a run cut off the numbers follow the order of first citation: the       *)
(* transaction inserts every row it has numbered.                          *)
(***************************************************************************)
THEOREM NumbersFollowTheThread == Spec => []NumbersInOrder
<1>1. Init => TypeOK /\ NumbersInv
  BY TypingInit, NumbersInit
<1>2. TypeOK /\ NumbersInv /\ [Next]_vars => TypeOK' /\ NumbersInv'
  BY TypingStep, NumbersStep DEF NumbersInv
<1>3. TypeOK /\ NumbersInv => NumbersInOrder
  <2> SUFFICES ASSUME TypeOK, NumbersInv, Spared({"twoRuns"}) PROVE CitedInOrder
    BY DEF NumbersInOrder, CitedInOrder
  <2>1. \A t \in Answered : t \in Turns /\ Cited(answer[t]) \subseteq DOMAIN numbers
    BY DEF NumbersInv, ReadIsCurrent, Answered
  <2>2. Spared({"crash"}) => \A t \in Turns : FirstCitedLater(t)
    BY DEF NumbersInv, NumbersAreCited, Spared
  <2> QED
    BY <2>1, <2>2 DEF CitedInOrder, FirstCitedLater
<1> QED
  BY <1>1, <1>2, <1>3, PTL DEF Spec

-----------------------------------------------------------------------------
\* Older turns.

\* How many turns of a set come after a turn.
Rank(u, S) == Cardinality(Above(u, S))

\* The answered turns that have left the window.
Older(S) == {u \in S : Rank(u, S) >= Window}

InSummary(s) == {s[i] : i \in DOMAIN s}

\* The turns of a set, in order.
Listed(s, S) ==
    s \in [1..Cardinality(S) -> S] /\ \A i, j \in DOMAIN s : i < j => s[i] < s[j]

LEMMA RankNat ==
  ASSUME NEW S \in SUBSET Nat, IsFiniteSet(S), NEW u
  PROVE  Rank(u, S) \in Nat /\ IsFiniteSet(Above(u, S))
<1>1. Above(u, S) \subseteq S
  BY DEF Above
<1> QED
  BY <1>1, FS_Subset, FS_CardinalityType DEF Rank

LEMMA RankFalls ==
  ASSUME NEW S \in SUBSET Nat, IsFiniteSet(S), NEW u \in S, NEW v \in S, u < v
  PROVE  Rank(v, S) < Rank(u, S)
<1>1. Above(v, S) \subseteq Above(u, S) /\ v \in Above(u, S) /\ v \notin Above(v, S)
  <2>1. \A x \in S : x \in Nat
    OBVIOUS
  <2>2. \A x \in S : (x > v => x > u) /\ ~(v > v) /\ v > u
    BY <2>1, u < v
  <2> QED
    BY <2>2 DEF Above
<1>2. Rank(v, S) \in Nat /\ Rank(u, S) \in Nat /\ IsFiniteSet(Above(u, S))
  BY RankNat
<1>3. Rank(v, S) <= Rank(u, S) /\ Rank(v, S) # Rank(u, S)
  <2>1. Above(v, S) # Above(u, S)
    BY <1>1
  <2> QED
    BY <1>1, <1>2, <2>1, FS_Subset DEF Rank
<1> QED
  BY <1>2, <1>3

LEMMA RankIsOfOne ==
  ASSUME NEW S \in SUBSET Nat, IsFiniteSet(S), NEW u \in S, NEW v \in S, Rank(u, S) = Rank(v, S)
  PROVE  u = v
<1>1. Rank(u, S) \in Nat
  BY RankNat
<1>2. ~(u < v) /\ ~(v < u)
  BY <1>1, RankFalls
<1>3. u \in Nat /\ v \in Nat
  OBVIOUS
<1> QED
  BY <1>2, <1>3

LEMMA RankGrows ==
  ASSUME NEW T \in SUBSET Nat, IsFiniteSet(T), NEW S \in SUBSET T, NEW u
  PROVE  Rank(u, S) <= Rank(u, T)
<1>1. Above(u, S) \subseteq Above(u, T)
  BY DEF Above
<1> QED
  BY <1>1, RankNat, FS_Subset DEF Rank

LEMMA OlderGrows ==
  ASSUME NEW T \in SUBSET Nat, IsFiniteSet(T), NEW S \in SUBSET T
  PROVE  Older(S) \subseteq Older(T)
<1> SUFFICES ASSUME NEW u \in Older(S) PROVE u \in Older(T)
  OBVIOUS
<1>1. Rank(u, S) <= Rank(u, T)
  BY RankGrows
<1>2. Rank(u, T) \in Nat /\ Rank(u, S) \in Nat
  BY RankNat, FS_Subset
<1>3. u \in T /\ Rank(u, S) >= Window
  BY DEF Older
<1> QED
  BY <1>1, <1>2, <1>3, ConstantsAssumption DEF Older

\* The turns told verbatim are those that are not older.
LEMMA LastIsNotOlder ==
  ASSUME NEW S \in SUBSET Nat, IsFiniteSet(S)
  PROVE  Last(Window, S) = S \ Older(S) /\ Older(S) = S \ Last(Window, S)
<1>1. \A u \in S : Rank(u, S) < Window <=> ~(Rank(u, S) >= Window)
  BY RankNat, ConstantsAssumption
<1>2. Last(Window, S) = {u \in S : Rank(u, S) < Window}
  BY DEF Last, Rank, Above
<1> QED
  BY <1>1, <1>2 DEF Older

\* A newest turn comes after all others.
LEMMA RankOfOthers ==
  ASSUME NEW S \in SUBSET Nat, IsFiniteSet(S), NEW t \in S, \A u \in S : u <= t, NEW v \in S \ {t}
  PROVE  Rank(v, S) = Rank(v, S \ {t}) + 1
<1>1. v \in Nat /\ t \in Nat /\ v < t
  OBVIOUS
<1>2. Above(v, S) = Above(v, S \ {t}) \cup {t} /\ t \notin Above(v, S \ {t})
  BY <1>1 DEF Above
<1>3. S \ {t} \in SUBSET Nat /\ IsFiniteSet(S \ {t})
  BY FS_Subset
<1>4. IsFiniteSet(Above(v, S \ {t}))
  BY <1>3, RankNat
<1> QED
  BY <1>2, <1>4, FS_AddElement DEF Rank

LEMMA RankOfNewest ==
  ASSUME NEW S \in SUBSET Nat, IsFiniteSet(S), NEW t \in S, \A u \in S : u <= t
  PROVE  Rank(t, S) = 0
<1>1. \A u \in S : ~(u > t)
  <2>1. \A u \in S : u \in Nat /\ t \in Nat /\ u <= t
    OBVIOUS
  <2> QED
    BY <2>1
<1>2. Above(t, S) = {}
  BY <1>1 DEF Above
<1> QED
  BY <1>2, FS_EmptySet DEF Rank

\* While the turns fit into the window, none is older.
LEMMA NoneOlder ==
  ASSUME NEW S \in SUBSET Nat, IsFiniteSet(S), Cardinality(S) <= Window
  PROVE  Older(S) = {}
<1> SUFFICES ASSUME NEW u \in S, Rank(u, S) >= Window PROVE FALSE
  BY DEF Older
<1>1. Above(u, S) \subseteq S /\ Above(u, S) # S
  BY DEF Above
<1>2. Rank(u, S) \in Nat /\ Cardinality(S) \in Nat
  BY RankNat, FS_CardinalityType
<1>3. Rank(u, S) <= Cardinality(S) /\ Rank(u, S) # Cardinality(S)
  BY <1>1, FS_Subset DEF Rank
<1> QED
  BY <1>2, <1>3, ConstantsAssumption

\* When a turn is answered, the one that has Window turns after it leaves the window.
LEMMA OneLeaves ==
  ASSUME NEW S \in SUBSET Nat, IsFiniteSet(S), NEW t \in S, \A u \in S : u <= t,
         NEW u \in S, Rank(u, S) = Window
  PROVE  /\ Older(S) = Older(S \ {t}) \cup {u}
         /\ u \notin Older(S \ {t})
         /\ \A v \in Older(S \ {t}) : v < u
<1>0. S \ {t} \in SUBSET Nat /\ IsFiniteSet(S \ {t})
  BY FS_Subset
<1>1. \A v \in S \ {t} : /\ Rank(v, S) = Rank(v, S \ {t}) + 1
                         /\ Rank(v, S \ {t}) \in Nat /\ Rank(v, S) \in Nat
  BY <1>0, RankOfOthers, RankNat
<1>2. \A v \in Older(S \ {t}) : v \in S \ {t} /\ Rank(v, S) > Window
  BY <1>1, ConstantsAssumption DEF Older
<1>3. \A v \in S : Rank(v, S) \in Nat /\ (Rank(v, S) = Window => v = u)
  BY RankNat, RankIsOfOne
<1>4. \A v \in S : Rank(v, S) > Window => v \in Older(S \ {t})
  <2> SUFFICES ASSUME NEW v \in S, Rank(v, S) > Window PROVE v \in Older(S \ {t})
    OBVIOUS
  <2>1. v # t
    BY RankOfNewest, ConstantsAssumption
  <2> QED
    BY <1>1, <2>1, ConstantsAssumption DEF Older
<1>5. \A v \in Older(S \ {t}) : v # u /\ ~(u < v)
  <2> SUFFICES ASSUME NEW v \in Older(S \ {t}) PROVE v # u /\ ~(u < v)
    OBVIOUS
  <2>1. v \in S /\ Rank(v, S) \in Nat /\ Rank(v, S) > Window
    BY <1>2, <1>3
  <2>2. u < v => Rank(v, S) < Window
    BY <2>1, RankFalls
  <2>3. v # u
    BY <2>1, ConstantsAssumption
  <2>4. ~(Rank(v, S) < Window)
    BY <2>1, ConstantsAssumption
  <2> QED
    BY <2>2, <2>3, <2>4
<1>6. \A v \in Older(S \ {t}) : v < u
  <2>1. \A v \in Older(S \ {t}) : v \in Nat /\ u \in Nat
    BY <1>2
  <2> QED
    BY <1>5, <2>1
<1>7. ASSUME NEW v \in S PROVE v \in Older(S) <=> v \in Older(S \ {t}) \cup {u}
  <2>1. Rank(v, S) \in Nat
    BY RankNat
  <2>2. v \in Older(S) <=> Rank(v, S) = Window \/ Rank(v, S) > Window
    BY <2>1, ConstantsAssumption DEF Older
  <2>3. Rank(v, S) = Window <=> v = u
    BY <1>3
  <2>4. Rank(v, S) > Window <=> v \in Older(S \ {t})
    BY <1>2, <1>4
  <2> QED
    BY <2>2, <2>3, <2>4
<1>8. Older(S) \subseteq S /\ Older(S \ {t}) \cup {u} \subseteq S
  BY DEF Older
<1> QED
  BY <1>5, <1>6, <1>7, <1>8

\* A list that one greater turn is added to.
LEMMA ListedAppend ==
  ASSUME NEW S \in SUBSET Nat, IsFiniteSet(S), NEW s, Listed(s, S),
         NEW u \in Nat, u \notin S, \A v \in S : v < u
  PROVE  Listed(Append(s, u), S \cup {u})
<1> DEFINE n == Cardinality(S)
           r == Append(s, u)
<1>1. n \in Nat /\ s \in [1..n -> S]
  BY FS_CardinalityType DEF Listed
<1>2. Cardinality(S \cup {u}) = n + 1
  BY FS_AddElement
<1> HIDE DEF n, r
<1>3. Len(s) = n /\ s \in Seq(S \cup {u})
  BY <1>1
<1>9. /\ r \in Seq(S \cup {u}) /\ Len(r) = n + 1
      /\ \A i \in 1..n : r[i] = s[i]
      /\ r[n + 1] = u
  BY <1>3, AppendProperties DEF r
<1>4. /\ r \in [1..(n + 1) -> S \cup {u}]
      /\ \A i \in 1..n : r[i] = s[i] /\ r[i] \in S
      /\ r[n + 1] = u
  <2>1. r \in [1..(n + 1) -> S \cup {u}]
    BY <1>9
  <2> QED
    BY <1>1, <1>9, <2>1
<1>5. \A i, j \in 1..n : i < j => s[i] < s[j]
  BY <1>1 DEF Listed
<1>6. ASSUME NEW i \in 1..(n + 1), NEW j \in 1..(n + 1), i < j PROVE r[i] < r[j]
  <2>1. i \in 1..n /\ (j \in 1..n \/ j = n + 1)
    BY <1>1, <1>6
  <2> QED
    BY <1>4, <1>5, <1>6, <2>1
<1> QED
  BY <1>2, <1>4, <1>6 DEF Listed, r

\* In a list of a set the element at a place has as many others above it as come after it.
LEMMA ListedRank ==
  ASSUME NEW S \in SUBSET Nat, IsFiniteSet(S), NEW s, Listed(s, S), NEW i \in DOMAIN s
  PROVE  Rank(s[i], S) = Cardinality(S) - i
<1> DEFINE n == Cardinality(S)
<1>1. n \in Nat /\ s \in [1..n -> S] /\ i \in 1..n
  BY FS_CardinalityType DEF Listed
<1>2. \A j, k \in 1..n : j < k => s[j] < s[k]
  BY <1>1 DEF Listed
<1>3. \A j, k \in 1..n : s[j] = s[k] => j = k
  <2>1. \A j \in 1..n : s[j] \in Nat /\ j \in Int
    <3> HIDE DEF n
    <3>1. \A j \in 1..n : s[j] \in S
      BY <1>1
    <3>2. \A j \in 1..n : j \in Int
      OBVIOUS
    <3> QED
      BY <3>1, <3>2
  <2>2. \A j, k \in 1..n : j = k \/ j < k \/ k < j
    BY <1>1
  <2> QED
    BY <1>2, <2>1, <2>2
<1>4. IsFiniteSet(1..n) /\ Cardinality(1..n) = n
  <2>1. 1 \in Int /\ n \in Int /\ (1 > n <=> n = 0) /\ n - 1 + 1 = n
    BY <1>1
  <2> QED
    BY <2>1, FS_Interval
<1>5. \A v \in S : \E k \in 1..n : s[k] = v
  <2>1. s \in Injection(1..n, S)
    BY <1>1, <1>3 DEF Injection, IsInjective
  <2>2. s \in Surjection(1..n, S)
    BY <1>4, <2>1, FS_Injection
  <2> QED
    BY <2>2 DEF Surjection
<1> DEFINE I == (i + 1)..n
           A == Above(s[i], S)
           f == [k \in I |-> s[k]]
<1>6. \A k \in 1..n : s[k] > s[i] <=> k \in I
  <2>1. \A k \in 1..n : s[k] \in Nat
    BY <1>1
  <2> QED
    BY <1>1, <1>2, <1>3, <2>1
<1>7. f \in Bijection(I, A)
  <2>1. \A k \in I : k \in 1..n /\ s[k] \in S
    BY <1>1
  <2>2. f \in [I -> A]
    BY <1>6, <2>1 DEF Above
  <2>3. \A j, k \in I : f[j] = f[k] => j = k
    BY <1>3, <2>1
  <2>4. \A v \in A : \E k \in I : f[k] = v
    BY <1>5, <1>6 DEF Above
  <2> QED
    BY <2>2, <2>3, <2>4 DEF Bijection, Injection, Surjection, IsInjective
<1>8. IsFiniteSet(I) /\ Cardinality(I) = n - i
  <2>1. i + 1 \in Int /\ n \in Int /\ (i + 1 > n => n - i = 0) /\ n - (i + 1) + 1 = n - i
    BY <1>1
  <2> QED
    BY <2>1, FS_Interval
<1>9. Cardinality(A) = Cardinality(I)
  <2> HIDE DEF I, A, f
  <2> QED
    BY <1>7, <1>8, FS_Bijection DEF ExistsBijection
<1> QED
  BY <1>8, <1>9 DEF Rank

\* So there is one list of a set only.
LEMMA ListedIsOne ==
  ASSUME NEW S \in SUBSET Nat, IsFiniteSet(S), NEW s, Listed(s, S)
  PROVE  s = InOrder(S)
<1> DEFINE r == InOrder(S)
           n == Cardinality(S)
<1>1. Listed(r, S)
  BY DEF InOrder, Listed
<1> HIDE DEF r
<1>2. s \in [1..n -> S] /\ r \in [1..n -> S]
  BY <1>1 DEF Listed
<1>3. ASSUME NEW i \in 1..n PROVE s[i] = r[i]
  <2>1. Rank(s[i], S) = n - i /\ Rank(r[i], S) = n - i
    BY <1>1, <1>2, ListedRank
  <2>2. s[i] \in S /\ r[i] \in S
    BY <1>2
  <2> QED
    BY <2>1, <2>2, RankIsOfOne
<1>4. s = r
  <2>1. PICK D : D = 1..n
    OBVIOUS
  <2>2. s \in [D -> S] /\ r \in [D -> S] /\ \A i \in D : s[i] = r[i]
    BY <1>2, <1>3, <2>1
  <2> QED
    BY ONLY <2>2
<1> QED
  BY <1>4 DEF r

-----------------------------------------------------------------------------
\* No turn is told twice.

(***************************************************************************)
(* Whatever folds at once, is lost or comes late, only turns that have     *)
(* left the window are folded.                                             *)
(***************************************************************************)
FoldsOlder ==
    /\ InSummary(summary) \subseteq Older(Answered)
    /\ \A t \in Turns : /\ InSummary(fold[t].previous) \subseteq Older(Answered)
                        /\ fold[t].pc \in {"chosen", "asking"} => fold[t].turn \in Older(Answered)

ToldOlder ==
    \A t \in Turns : /\ InSummary(told[t].summary) \subseteq Older(Answered)
                     /\ told[t].verbatim \subseteq Last(Window, Answered)

Untold == \A t \in Turns : status[t] # "running" => told[t] = NoContext

OlderInv ==
    /\ FoldsOlder
    /\ Untold
    /\ Spared({"twoRuns"}) => ToldOlder

\* Only _finish answers a turn.
LEMMA AnsweredStays ==
  ASSUME TypeOK, AskedInTurn, [Next]_vars, \A t \in Turns : ~Finish(t)
  PROVE  Answered' = Answered
<1>1. CASE UNCHANGED status
  BY <1>1 DEF Answered
<1>2. ASSUME NEW t \in Turns, FollowUp(t) \/ Fails(t) PROVE Answered' = Answered
  <2>1. status[t] # "done" /\ \A u \in Turns : u # t => status'[u] = status[u]
    BY <1>2, FollowUpIsNext DEF FollowUp, Fails, TypeOK, RowsOK
  <2>2. status'[t] # "done"
    BY <1>2 DEF FollowUp, Fails, TypeOK, RowsOK
  <2> QED
    BY <2>1, <2>2 DEF Answered
<1> QED
  BY <1>1, <1>2
     DEF Next, vars, threadVars, ReadSummary, ReadTurns, Answer, AnswerNothing, ReadNumbers,
         Store, FoldSelect, FoldPrevious, FoldWrite, FoldLost, CutOff

LEMMA FinishAnswers ==
  ASSUME TypeOK, NEW t \in Turns, Finish(t)
  PROVE  /\ Answered' = Answered \cup {t} /\ t \notin Answered
         /\ status[t] = "running" /\ pc[t] = "finishing"
<1>1. status[t] = "running" /\ pc[t] = "finishing"
  BY DEF Finish, Goes, TypeOK, RunsOK
<1>2. \A u \in Turns : status'[u] = IF u = t THEN "done" ELSE status[u]
  BY DEF Finish, TypeOK, RowsOK
<1> QED
  BY <1>1, <1>2 DEF Answered

\* What is answered and older stays so.
LEMMA OlderStays ==
  ASSUME TypeOK, AskedInTurn, [Next]_vars
  PROVE  /\ Answered' \in SUBSET Nat /\ IsFiniteSet(Answered')
         /\ Older(Answered) \subseteq Older(Answered')
<1>1. Turns \in SUBSET Nat /\ IsFiniteSet(Turns)
  BY ConstantsAssumption, FS_Interval DEF Turns
<1>2. Answered' \in SUBSET Nat /\ IsFiniteSet(Answered')
  BY <1>1, FS_Subset DEF Answered
<1>3. Answered \subseteq Answered'
  BY AnsweredStays, FinishAnswers
<1> QED
  BY <1>2, <1>3, OlderGrows

\* What the steps of a fold do to it.
LEMMA FoldMoves ==
  ASSUME TypeOK, NEW t \in Turns
  PROVE  /\ FoldSelect(t) =>
              \/ fold'[t] = NoFold /\ Cardinality(Answered) <= Window
              \/ /\ fold'[t].pc = "chosen" /\ fold'[t].previous = <<>>
                 /\ fold'[t].turn \in Answered /\ Rank(fold'[t].turn, Answered) = Window
         /\ FoldPrevious(t) =>
              /\ fold[t].pc = "chosen" /\ fold'[t].pc = "asking"
              /\ fold'[t].turn = fold[t].turn /\ fold'[t].previous = summary
         /\ FoldWrite(t) \/ FoldLost(t) => fold'[t] = NoFold
         /\ Finish(t) =>
              /\ fold'[t].pc = "selecting"
              /\ fold'[t].turn = fold[t].turn /\ fold'[t].previous = fold[t].previous
         /\ FoldSelect(t) \/ FoldPrevious(t) \/ FoldWrite(t) \/ FoldLost(t) \/ Finish(t) =>
              \A u \in Turns \ {t} : fold'[u] = fold[u]
<1>1. fold \in [Turns -> Folds]
  BY DEF TypeOK, FoldsOK, Folds
<1>2. ASSUME FoldSelect(t), Cardinality(Answered) <= Window PROVE fold'[t] = NoFold
  BY <1>1, <1>2 DEF FoldSelect
<1>3. ASSUME FoldSelect(t), ~(Cardinality(Answered) <= Window)
      PROVE  /\ fold'[t].pc = "chosen" /\ fold'[t].previous = <<>>
             /\ fold'[t].turn \in Answered /\ Rank(fold'[t].turn, Answered) = Window
  <2> DEFINE w == CHOOSE u \in Answered : Cardinality({v \in Answered : v > u}) = Window
  <2>1. fold'[t] = [NoFold EXCEPT !.pc = "chosen", !.turn = w]
    BY <1>1, <1>3 DEF FoldSelect
  <2>2. w \in Answered /\ Rank(w, Answered) = Window
    <3>1. Cardinality(Answered) > Window
      BY <1>3, AnsweredOK, FS_CardinalityType, ConstantsAssumption
    <3> QED
      BY <3>1, FoldSelectFinds DEF Rank, Above
  <2> HIDE DEF w
  <2>3. NoFold \in Folds /\ NoFold.previous = <<>>
    BY DEF NoFold, Folds, FoldPcs
  <2>4. fold'[t].pc = "chosen" /\ fold'[t].turn = w /\ fold'[t].previous = NoFold.previous
    BY <2>1, <2>3 DEF Folds
  <2> QED
    BY <2>2, <2>3, <2>4
<1>4. FoldPrevious(t) =>
        /\ fold[t].pc = "chosen" /\ fold'[t].pc = "asking"
        /\ fold'[t].turn = fold[t].turn /\ fold'[t].previous = summary
  BY <1>1 DEF FoldPrevious, Folds
<1>5. FoldWrite(t) \/ FoldLost(t) => fold'[t] = NoFold
  BY <1>1 DEF FoldWrite, FoldLost
<1>6. Finish(t) =>
        /\ fold'[t].pc = "selecting"
        /\ fold'[t].turn = fold[t].turn /\ fold'[t].previous = fold[t].previous
  BY <1>1 DEF Finish, Folds
<1>7. FoldSelect(t) \/ FoldPrevious(t) \/ FoldWrite(t) \/ FoldLost(t) \/ Finish(t) =>
        \A u \in Turns \ {t} : fold'[u] = fold[u]
  BY <1>1 DEF FoldSelect, FoldPrevious, FoldWrite, FoldLost, Finish
<1> QED
  BY <1>2, <1>3, <1>4, <1>5, <1>6, <1>7

LEMMA NoFoldSays == NoFold.pc = "idle" /\ NoFold.previous = <<>> /\ InSummary(<<>>) = {}
BY DEF NoFold, InSummary

LEMMA AppendSummary ==
  ASSUME NEW s \in Seq(Turns), NEW u \in Turns
  PROVE  InSummary(Append(s, u)) = InSummary(s) \cup {u}
<1>1. /\ Append(s, u) \in Seq(Turns) /\ Len(Append(s, u)) = Len(s) + 1
      /\ \A i \in 1..Len(s) : Append(s, u)[i] = s[i]
      /\ Append(s, u)[Len(s) + 1] = u
  BY AppendProperties
<1>2. Len(s) \in Nat /\ DOMAIN s = 1..Len(s) /\ DOMAIN Append(s, u) = 1..(Len(s) + 1)
  BY <1>1
<1>3. 1..(Len(s) + 1) = 1..Len(s) \cup {Len(s) + 1}
  BY <1>2
<1> QED
  BY <1>1, <1>2, <1>3 DEF InSummary

\* A fold whose step is not Finish leaves the answered turns alone; it writes only older ones.
LEMMA FoldsOlderStep ==
  ASSUME TypeOK, AskedInTurn, FoldsOlder, [Next]_vars
  PROVE  FoldsOlder'
<1> DEFINE On == Older(Answered')
           Fine(t) == /\ InSummary(fold'[t].previous) \subseteq On
                      /\ fold'[t].pc \in {"chosen", "asking"} => fold'[t].turn \in On
<1>1. Older(Answered) \subseteq On
  BY OlderStays
<1>2. \A t \in Turns : fold'[t] = fold[t] => Fine(t)
  BY <1>1 DEF FoldsOlder
<1>3. \A t \in Turns : fold'[t] = NoFold => Fine(t)
  BY NoFoldSays
<1>4. FoldsOlder' <=> InSummary(summary') \subseteq On /\ \A t \in Turns : Fine(t)
  BY DEF FoldsOlder
<1> HIDE DEF Fine
<1>5. CASE UNCHANGED <<summary, fold>>
  BY <1>1, <1>2, <1>4, <1>5 DEF FoldsOlder
<1>6. ASSUME NEW t \in Turns, Finish(t) PROVE FoldsOlder'
  <2>1. UNCHANGED summary
    BY <1>6 DEF Finish
  <2>2. Fine(t)
    BY <1>1, <1>6, FoldMoves DEF FoldsOlder, Fine
  <2> QED
    BY <1>1, <1>2, <1>4, <1>6, <2>1, <2>2, FoldMoves DEF FoldsOlder
<1>7. ASSUME NEW t \in Turns, FoldSelect(t) \/ FoldPrevious(t) \/ FoldLost(t) PROVE FoldsOlder'
  <2>1. UNCHANGED summary
    BY <1>7 DEF FoldSelect, FoldPrevious, FoldLost, threadVars
  <2>2. Fine(t)
    <3>1. CASE FoldSelect(t)
      <4>1. \A u \in Answered : Rank(u, Answered) = Window => u \in Older(Answered)
        BY ConstantsAssumption DEF Older
      <4> QED
        BY <1>1, <1>3, <3>1, <4>1, FoldMoves, NoFoldSays DEF Fine
    <3>2. CASE FoldPrevious(t)
      BY <1>1, <3>2, FoldMoves DEF FoldsOlder, Fine
    <3> QED
      BY <1>3, <1>7, <3>1, <3>2, FoldMoves
  <2> QED
    BY <1>1, <1>2, <1>4, <1>7, <2>1, <2>2, FoldMoves DEF FoldsOlder
<1>8. ASSUME NEW t \in Turns, FoldWrite(t) PROVE FoldsOlder'
  <2>1. /\ fold[t].pc = "asking" /\ summary' = Append(fold[t].previous, fold[t].turn)
        /\ fold[t].previous \in Seq(Turns) /\ fold[t].turn \in Turns
    BY <1>8 DEF FoldWrite, TypeOK, FoldsOK
  <2>2. InSummary(summary') \subseteq On
    BY <1>1, <2>1, AppendSummary DEF FoldsOlder
  <2> QED
    BY <1>2, <1>3, <1>4, <1>8, <2>2, FoldMoves
<1> QED
  BY <1>5, <1>6, <1>7, <1>8
     DEF Next, vars, threadVars, FollowUp, ReadSummary, ReadTurns, Answer, AnswerNothing, Fails,
         ReadNumbers, Store, CutOff

LEMMA NoContextSays == NoContext.verbatim = {} /\ InSummary(NoContext.summary) = {}
BY DEF NoContext, InSummary

LEMMA UntoldStep ==
  ASSUME TypeOK, AskedInTurn, Untold, [Next]_vars
  PROVE  Untold'
<1> USE DEF TypeOK, RowsOK, RunsOK
<1>1. CASE UNCHANGED <<status, told>>
  BY <1>1 DEF Untold
<1>2. ASSUME NEW t \in Turns, FollowUp(t) PROVE Untold'
  BY <1>2 DEF FollowUp, Untold
<1>3. ASSUME NEW t \in Turns, ReadSummary(t) \/ ReadTurns(t) PROVE Untold'
  <2>1. status[t] = "running" /\ UNCHANGED status
    BY <1>3 DEF ReadSummary, ReadTurns, Goes, threadVars
  <2>2. \A u \in Turns \ {t} : told'[u] = told[u]
    BY <1>3 DEF ReadSummary, ReadTurns
  <2> QED
    BY <2>1, <2>2 DEF Untold
<1>4. ASSUME NEW t \in Turns, Fails(t) \/ Finish(t) \/ CutOff(t) PROVE Untold'
  <2>1. told'[t] = NoContext /\ \A u \in Turns \ {t} : told'[u] = told[u]
    BY <1>4 DEF Fails, Finish, CutOff, Forget
  <2>2. \A u \in Turns \ {t} : status'[u] = status[u]
    BY <1>4 DEF Fails, Finish, CutOff, threadVars
  <2> QED
    BY <2>1, <2>2 DEF Untold
<1> QED
  BY <1>1, <1>2, <1>3, <1>4
     DEF Next, vars, threadVars, runVars, Answer, AnswerNothing, ReadNumbers, Store,
         FoldSelect, FoldPrevious, FoldWrite, FoldLost

\* For the last turn, the answered turns are those before it.
LEMMA BeforeIsAll ==
  ASSUME Serial, NEW t \in Turns, status[t] = "running"
  PROVE  Before(t) = Answered
<1>1. \A u \in Answered : u \in Nat /\ t \in Nat /\ u <= t /\ u # t
  BY TurnsNat DEF Answered, Serial
<1>2. \A u \in Answered : u < t
  BY <1>1
<1> QED
  BY <1>2 DEF Before

\* What a run is told when it reads the summary, and then the turns.
LEMMA ReadMoves ==
  ASSUME TypeOK, Serial, NEW t \in Turns
  PROVE  /\ ReadSummary(t) => told'[t].summary = summary /\ told'[t].verbatim = {}
         /\ ReadTurns(t) => /\ told'[t].summary = told[t].summary
                            /\ told'[t].verbatim = Last(Window, Answered)
         /\ ReadSummary(t) \/ ReadTurns(t) => \A u \in Turns \ {t} : told'[u] = told[u]
<1>1. told \in [Turns -> [summary: Seq(Turns), verbatim: SUBSET Turns]]
  BY DEF TypeOK, RunsOK
<1>2. ReadSummary(t) => told'[t].summary = summary /\ told'[t].verbatim = {}
  BY <1>1 DEF ReadSummary
<1>3. ASSUME ReadTurns(t)
      PROVE  told'[t].summary = told[t].summary /\ told'[t].verbatim = Last(Window, Answered)
  <2>1. status[t] = "running"
    BY <1>3 DEF ReadTurns, Goes, TypeOK, RunsOK
  <2> QED
    BY <1>1, <1>3, <2>1, BeforeIsAll DEF ReadTurns
<1>4. ReadSummary(t) \/ ReadTurns(t) => \A u \in Turns \ {t} : told'[u] = told[u]
  BY <1>1 DEF ReadSummary, ReadTurns
<1> QED
  BY <1>2, <1>3, <1>4

\* Steps that tell a run nothing.
LEMMA ToldStays ==
  ASSUME TypeOK, [Next]_vars, \A t \in Turns : ~ReadSummary(t) /\ ~ReadTurns(t), NEW u \in Turns
  PROVE  told'[u] = told[u] \/ told'[u] = NoContext
<1>1. told \in [Turns -> [summary: Seq(Turns), verbatim: SUBSET Turns]]
  BY DEF TypeOK, RunsOK
<1>2. \A t \in Turns : Forget(t) => told'[u] = told[u] \/ told'[u] = NoContext
  BY <1>1 DEF Forget
<1> QED
  BY <1>2
     DEF Next, vars, runVars, FollowUp, Answer, AnswerNothing, Fails, ReadNumbers, Store, Finish,
         FoldSelect, FoldPrevious, FoldWrite, FoldLost, CutOff

LEMMA ToldOlderStep ==
  ASSUME TypeOK, AskedInTurn, Serial, Untold, FoldsOlder, ToldOlder, [Next]_vars
  PROVE  ToldOlder'
<1> DEFINE Fine(t) == /\ InSummary(told'[t].summary) \subseteq Older(Answered')
                      /\ told'[t].verbatim \subseteq Last(Window, Answered')
<1>1. ToldOlder' <=> \A u \in Turns : Fine(u)
  BY DEF ToldOlder
<1>2. \A u \in Turns : told'[u] = NoContext => Fine(u)
  BY NoContextSays
<1>3. ASSUME NEW t \in Turns, Finish(t) PROVE ToldOlder'
  <2>1. status[t] = "running" /\ told'[t] = NoContext /\ \A u \in Turns \ {t} : told'[u] = told[u]
    BY <1>3, FinishAnswers DEF Finish, Forget, TypeOK, RunsOK
  <2>2. \A u \in Turns \ {t} : status[u] # "running"
    BY <2>1, TurnsNat DEF Serial
  <2>3. \A u \in Turns : told'[u] = NoContext
    BY <2>1, <2>2 DEF Untold
  <2> QED
    BY <1>1, <1>2, <2>3
<1>4. CASE \A t \in Turns : ~Finish(t)
  <2>1. Answered' = Answered
    BY <1>4, AnsweredStays
  <2>2. \A u \in Turns : told'[u] = told[u] => Fine(u)
    BY <2>1 DEF ToldOlder
  <2>3. ASSUME NEW t \in Turns, ReadSummary(t) \/ ReadTurns(t) PROVE \A u \in Turns : Fine(u)
    <3>1. Fine(t)
      BY <2>1, <2>3, ReadMoves DEF ToldOlder, FoldsOlder
    <3> HIDE DEF Fine
    <3> QED
      BY <2>2, <2>3, <3>1, ReadMoves
  <2>4. CASE \A t \in Turns : ~ReadSummary(t) /\ ~ReadTurns(t)
    <3> HIDE DEF Fine
    <3> QED
      BY <1>1, <1>2, <2>2, <2>4, ToldStays
  <2> HIDE DEF Fine
  <2> QED
    BY <1>1, <2>3, <2>4
<1> QED
  BY <1>3, <1>4

LEMMA OlderInit == Init => OlderInv
<1> SUFFICES ASSUME Init PROVE OlderInv
  OBVIOUS
<1>1. FoldsOlder
  BY NoFoldSays DEF Init, FoldsOlder
<1>2. Untold /\ ToldOlder
  BY NoContextSays DEF Init, Untold, ToldOlder
<1> QED
  BY <1>1, <1>2 DEF OlderInv

LEMMA OlderStep ==
  ASSUME TypeOK, NumbersInv, OlderInv, [Next]_vars
  PROVE  OlderInv'
<1>1. FoldsOlder' /\ Untold'
  BY FoldsOlderStep, UntoldStep DEF NumbersInv, OlderInv
<1>2. ASSUME Spared({"twoRuns"})' PROVE ToldOlder'
  <2>1. Spared({"twoRuns"})
    BY <1>2, SparedBefore
  <2> QED
    BY <2>1, ToldOlderStep DEF NumbersInv, OlderInv
<1> QED
  BY <1>1, <1>2 DEF OlderInv

-----------------------------------------------------------------------------
\* No turn is forgotten.

Idle     == {"none", "asked", "over"}
Informed == {"answering", "numbering", "storing", "finishing"}

Unhurried == Spared({"haste", "foldLost", "twoRuns"})

(***************************************************************************)
(* The inductive invariant behind ContextComplete: the summary is that of  *)
(* the older turns, or one turn behind while the last run still folds,     *)
(* which no run reads.                                                     *)
(***************************************************************************)
FoldsLast(t) ==
    /\ t \in Answered /\ \A u \in Answered : u <= t
    /\ \A u \in Turns : pc[u] \in Idle
    /\ Listed(summary, Older(Answered \ {t}))
    /\ fold[t].pc \in {"chosen", "asking"} =>
          fold[t].turn \in Answered /\ Rank(fold[t].turn, Answered) = Window
    /\ fold[t].pc = "asking" => fold[t].previous = summary

FoldInv ==
    /\ ~Folding => Listed(summary, Older(Answered))
    /\ \A t \in Turns : fold[t].pc # "idle" => FoldsLast(t)

ToldInv ==
    \A t \in Turns :
        /\ pc[t] \in {"reading"} \cup Informed => Listed(told[t].summary, Older(Answered))
        /\ pc[t] \in Informed => told[t].verbatim = Last(Window, Answered)

ContextInv == Unhurried => FoldInv /\ ToldInv

\* One run folds at most, and then no run reads.
LEMMA OneFolds ==
  ASSUME FoldInv, NEW t \in Turns, fold[t].pc # "idle"
  PROVE  /\ \A u \in Turns \ {t} : fold[u].pc = "idle"
         /\ \A u \in Turns : pc[u] \in Idle
<1>1. FoldsLast(t)
  BY DEF FoldInv
<1>2. ASSUME NEW u \in Turns, fold[u].pc # "idle" PROVE u = t
  <2>1. FoldsLast(u)
    BY <1>2 DEF FoldInv
  <2>2. t \in Answered /\ u \in Answered /\ u <= t /\ t <= u
    BY <1>1, <2>1 DEF FoldsLast
  <2>3. t \in Nat /\ u \in Nat
    BY TurnsNat
  <2> QED
    BY <2>2, <2>3
<1> QED
  BY <1>1, <1>2 DEF FoldsLast

\* A step of a run that leaves the summary alone.
LEMMA FoldInvStays ==
  ASSUME FoldInv, UNCHANGED <<summary, fold>>, Answered' = Answered,
         Folding => \A u \in Turns : pc'[u] \in Idle
  PROVE  FoldInv'
<1>1. Folding' <=> Folding
  BY DEF Folding
<1>2. ASSUME NEW t \in Turns, fold'[t].pc # "idle" PROVE FoldsLast(t)'
  <2>1. fold[t].pc # "idle" /\ Folding
    BY <1>2 DEF Folding
  <2>2. FoldsLast(t)
    BY <2>1 DEF FoldInv
  <2> QED
    BY <2>1, <2>2 DEF FoldsLast
<1> QED
  BY <1>1, <1>2 DEF FoldInv

\* A run that has ended begins to fold.
LEMMA FoldInvBegins ==
  ASSUME TypeOK, Serial, FoldInv, NEW t \in Turns, Finish(t)
  PROVE  FoldInv' /\ \A u \in Turns : pc'[u] \in Idle
<1>1. /\ Answered' = Answered \cup {t} /\ t \notin Answered
      /\ status[t] = "running" /\ pc[t] = "finishing"
  BY FinishAnswers
<1>2. \A u \in Turns : fold[u].pc = "idle"
  BY <1>1, OneFolds DEF Idle
<1>3. Listed(summary, Older(Answered))
  BY <1>2 DEF FoldInv, Folding
<1>4. \A u \in Turns : pc'[u] \in Idle
  <2>1. \A u \in Turns \ {t} : status[u] # "running"
    BY <1>1, TurnsNat DEF Serial
  <2>2. \A u \in Turns : pc'[u] = IF u = t THEN "over" ELSE pc[u]
    BY DEF Finish, Goes, TypeOK, RunsOK
  <2> QED
    BY <2>1, <2>2 DEF TypeOK, RunsOK, Idle
<1>5. \A u \in Answered' : u <= t
  BY <1>1, TurnsNat DEF Serial, Answered
<1>6. UNCHANGED summary
  BY DEF Finish
<1>7. Answered' \ {t} = Answered
  BY <1>1
<1>8. fold'[t].pc = "selecting" /\ \A u \in Turns \ {t} : fold'[u] = fold[u]
  BY FoldMoves
<1>9. FoldsLast(t)'
  BY <1>1, <1>3, <1>4, <1>5, <1>6, <1>7, <1>8 DEF FoldsLast
<1>10. Folding'
  BY <1>8 DEF Folding
<1> QED
  BY <1>2, <1>4, <1>8, <1>9, <1>10 DEF FoldInv

LEMMA FoldInvGoes ==
  ASSUME TypeOK, AskedInTurn, FoldInv, [Next]_vars, NEW t \in Turns,
         FoldSelect(t) \/ FoldPrevious(t) \/ FoldWrite(t)
  PROVE  FoldInv' /\ \A u \in Turns : pc'[u] \in Idle
<1>1. fold[t].pc # "idle" /\ UNCHANGED pc /\ \A u \in Turns : ~Finish(u)
  BY DEF FoldSelect, FoldPrevious, FoldWrite, runVars, Finish, Goes, TypeOK, RunsOK
<1>2. /\ \A u \in Turns \ {t} : fold[u].pc = "idle"
      /\ \A u \in Turns : pc[u] \in Idle
      /\ FoldsLast(t)
  BY <1>1, OneFolds DEF FoldInv
<1>3. Answered' = Answered
  BY <1>1, AnsweredStays
<1>4. \A u \in Turns \ {t} : fold'[u].pc = "idle"
  BY <1>2, FoldMoves
<1>5. /\ t \in Answered /\ \A u \in Answered : u <= t
      /\ Answered \in SUBSET Nat /\ IsFiniteSet(Answered)
      /\ Listed(summary, Older(Answered \ {t}))
  BY <1>2, AnsweredOK DEF FoldsLast
<1>11. \A u \in Turns : pc'[u] \in Idle
  BY <1>1, <1>2
\* The fold is over when the summary is that of the older turns.
<1>6. ASSUME fold'[t] = NoFold, Listed(summary', Older(Answered)) PROVE FoldInv'
  <2>1. ~Folding' /\ \A u \in Turns : fold'[u].pc = "idle"
    BY <1>4, <1>6, NoFoldSays DEF Folding
  <2> QED
    BY <1>3, <1>6, <2>1 DEF FoldInv
<1>7. ASSUME fold'[t].pc # "idle", UNCHANGED summary,
             fold'[t].pc \in {"chosen", "asking"} =>
                fold'[t].turn \in Answered /\ Rank(fold'[t].turn, Answered) = Window,
             fold'[t].pc = "asking" => fold'[t].previous = summary
      PROVE  FoldInv'
  <2>1. Folding'
    BY <1>7 DEF Folding
  <2>2. FoldsLast(t)'
    BY <1>1, <1>2, <1>3, <1>7 DEF FoldsLast
  <2> QED
    BY <1>4, <2>1, <2>2 DEF FoldInv
<1>8. CASE FoldSelect(t)
  <2>1. UNCHANGED summary
    BY <1>8 DEF FoldSelect, threadVars
  <2>2. CASE fold'[t] = NoFold /\ Cardinality(Answered) <= Window
    <3>1. Older(Answered) = {}
      BY <1>5, <2>2, NoneOlder
    <3>2. Older(Answered \ {t}) = {}
      BY <1>5, <3>1, OlderGrows
    <3> QED
      BY <1>5, <1>6, <1>11, <2>1, <2>2, <3>1, <3>2
  <2>3. CASE /\ fold'[t].pc = "chosen" /\ fold'[t].previous = <<>>
             /\ fold'[t].turn \in Answered /\ Rank(fold'[t].turn, Answered) = Window
    BY <1>7, <1>11, <2>1, <2>3
  <2> QED
    BY <1>8, <2>2, <2>3, FoldMoves
<1>9. CASE FoldPrevious(t)
  <2>1. UNCHANGED summary
    BY <1>9 DEF FoldPrevious, threadVars
  <2>2. fold[t].turn \in Answered /\ Rank(fold[t].turn, Answered) = Window
    BY <1>2, <1>9, FoldMoves DEF FoldsLast
  <2> QED
    BY <1>7, <1>9, <1>11, <2>1, <2>2, FoldMoves
<1>10. CASE FoldWrite(t)
  <2>1. /\ fold[t].turn \in Answered /\ Rank(fold[t].turn, Answered) = Window
        /\ summary' = Append(summary, fold[t].turn)
    BY <1>2, <1>10 DEF FoldWrite, FoldsLast
  <2>2. /\ Older(Answered) = Older(Answered \ {t}) \cup {fold[t].turn}
        /\ fold[t].turn \notin Older(Answered \ {t})
        /\ \A v \in Older(Answered \ {t}) : v < fold[t].turn
    BY <1>5, <2>1, OneLeaves
  <2>3. Older(Answered \ {t}) \in SUBSET Nat /\ IsFiniteSet(Older(Answered \ {t}))
    BY <1>5, FS_Subset DEF Older
  <2>4. Listed(summary', Older(Answered))
    <3> DEFINE S == Older(Answered \ {t})
               w == fold[t].turn
    <3>1. S \in SUBSET Nat /\ IsFiniteSet(S) /\ Listed(summary, S) /\ w \in Nat
          /\ w \notin S /\ \A v \in S : v < w
      BY <1>5, <2>1, <2>2, <2>3
    <3> HIDE DEF S, w
    <3>2. Listed(Append(summary, w), S \cup {w})
      BY <3>1, ListedAppend
    <3> QED
      BY <2>1, <2>2, <3>2 DEF S, w
  <2> QED
    BY <1>6, <1>10, <1>11, <2>4, FoldMoves
<1> QED
  BY <1>8, <1>9, <1>10

\* What the steps of a run do to its place.
LEMMA PlacesMove ==
  ASSUME TypeOK, [Next]_vars, ~Fault("haste"),
         \A t \in Turns : ~Finish(t) /\ ~FoldSelect(t) /\ ~FoldPrevious(t) /\ ~FoldWrite(t) /\ ~FoldLost(t)
  PROVE  /\ UNCHANGED <<summary, fold>>
         /\ \A u \in Turns : \/ pc'[u] = pc[u]
                             \/ pc'[u] \in Idle
                             \/ pc[u] \notin Idle
                             \/ ReadSummary(u) /\ ~Folding
         /\ \A u \in Turns : pc'[u] = "reading" => pc[u] = "reading" \/ ReadSummary(u)
         /\ \A u \in Turns : pc'[u] \in Informed => pc[u] \in Informed \/ ReadTurns(u)
         /\ \A u \in Turns : told'[u] # told[u] => pc'[u] \in Idle \/ ReadSummary(u) \/ ReadTurns(u)
<1> USE DEF TypeOK, RunsOK, Goes, Idle, Informed
<1>1. UNCHANGED <<summary, fold>>
  BY DEF Next, vars, threadVars, FollowUp, ReadSummary, ReadTurns, Answer, AnswerNothing, Fails,
         ReadNumbers, Store, CutOff
<1>2. CASE UNCHANGED vars
  BY <1>1, <1>2 DEF vars, runVars
<1>3. ASSUME NEW t \in Turns, FollowUp(t) \/ Answer(t) \/ AnswerNothing(t) \/ ReadNumbers(t) \/ Store(t)
      PROVE  /\ UNCHANGED told
             /\ \A u \in Turns : \/ pc'[u] = pc[u]
                                 \/ u = t /\ pc[t] = "none" /\ pc'[t] = "asked"
                                 \/ u = t /\ pc[t] \in Informed /\ pc'[t] \in Informed
  BY <1>3 DEF FollowUp, Answer, AnswerNothing, ReadNumbers, Store
<1>4. ASSUME NEW t \in Turns, Fails(t) \/ CutOff(t)
      PROVE  /\ pc'[t] \in Idle
             /\ \A u \in Turns \ {t} : pc'[u] = pc[u] /\ told'[u] = told[u]
  BY <1>4 DEF Fails, CutOff, Forget
<1>5. ASSUME NEW t \in Turns, ReadSummary(t)
      PROVE  /\ ~Folding /\ pc'[t] = "reading"
             /\ \A u \in Turns \ {t} : pc'[u] = pc[u] /\ told'[u] = told[u]
  BY <1>5 DEF ReadSummary, Hasty
<1>6. ASSUME NEW t \in Turns, ReadTurns(t)
      PROVE  /\ pc[t] = "reading" /\ pc'[t] = "answering"
             /\ \A u \in Turns \ {t} : pc'[u] = pc[u] /\ told'[u] = told[u]
  BY <1>6 DEF ReadTurns
<1>7. CASE \E t \in Turns : FollowUp(t) \/ Answer(t) \/ AnswerNothing(t) \/ ReadNumbers(t) \/ Store(t)
  BY <1>1, <1>3, <1>7
<1>8. CASE \E t \in Turns : Fails(t) \/ CutOff(t)
  BY <1>1, <1>4, <1>8
<1>9. CASE \E t \in Turns : ReadSummary(t)
  BY <1>1, <1>5, <1>9
<1>10. CASE \E t \in Turns : ReadTurns(t)
  BY <1>1, <1>6, <1>10
<1> QED
  BY <1>2, <1>7, <1>8, <1>9, <1>10 DEF Next

LEMMA ContextStep ==
  ASSUME TypeOK, NumbersInv, ContextInv, [Next]_vars
  PROVE  ContextInv'
<1> SUFFICES ASSUME Unhurried' PROVE FoldInv' /\ ToldInv'
  BY DEF ContextInv
<1>1. Unhurried /\ ~Fault("haste") /\ ~Fault("foldLost")
  BY SparedBefore DEF Unhurried
<1>2. Serial /\ AskedInTurn /\ FoldInv /\ ToldInv
  BY <1>1 DEF NumbersInv, ContextInv, Unhurried, Spared
<1>3. ASSUME \A u \in Turns : pc'[u] \in Idle PROVE ToldInv'
  BY <1>3 DEF ToldInv, Idle, Informed
<1>4. CASE \E t \in Turns : Finish(t)
  BY <1>2, <1>3, <1>4, FoldInvBegins
<1>5. CASE \E t \in Turns : FoldSelect(t) \/ FoldPrevious(t) \/ FoldWrite(t)
  BY <1>2, <1>3, <1>5, FoldInvGoes
<1>6. \A t \in Turns : ~FoldLost(t)
  BY <1>1 DEF FoldLost
<1>7. CASE \A t \in Turns : ~Finish(t) /\ ~FoldSelect(t) /\ ~FoldPrevious(t) /\ ~FoldWrite(t)
  <2>1. /\ UNCHANGED <<summary, fold>>
        /\ \A u \in Turns : \/ pc'[u] = pc[u]
                            \/ pc'[u] \in Idle
                            \/ pc[u] \notin Idle
                            \/ ReadSummary(u) /\ ~Folding
        /\ \A u \in Turns : pc'[u] = "reading" => pc[u] = "reading" \/ ReadSummary(u)
        /\ \A u \in Turns : pc'[u] \in Informed => pc[u] \in Informed \/ ReadTurns(u)
        /\ \A u \in Turns : told'[u] # told[u] => pc'[u] \in Idle \/ ReadSummary(u) \/ ReadTurns(u)
    BY <1>1, <1>6, <1>7, PlacesMove
  <2>2. Answered' = Answered
    BY <1>2, <1>7, AnsweredStays
  <2>3. Folding => \A u \in Turns : pc[u] \in Idle
    BY <1>2, OneFolds DEF Folding
  <2>4. Folding => \A u \in Turns : pc'[u] \in Idle
    BY <2>1, <2>3
  <2>5. FoldInv'
    BY <1>2, <2>1, <2>2, <2>4, FoldInvStays
  <2>6. ASSUME NEW u \in Turns, pc'[u] \in {"reading"} \cup Informed
        PROVE  /\ Listed(told'[u].summary, Older(Answered))
               /\ pc'[u] \in Informed => told'[u].verbatim = Last(Window, Answered)
    <3>1. CASE ReadSummary(u)
      <4>1. Listed(summary, Older(Answered))
        BY <1>2, <2>4, <2>6 DEF FoldInv, Idle, Informed
      <4>2. pc'[u] = "reading"
        BY <3>1 DEF ReadSummary, Goes, TypeOK, RunsOK
      <4> QED
        BY <1>2, <3>1, <4>1, <4>2, ReadMoves DEF Informed
    <3>2. CASE ReadTurns(u)
      <4>1. pc[u] = "reading"
        BY <3>2 DEF ReadTurns, Goes
      <4> QED
        BY <1>2, <3>2, <4>1, ReadMoves DEF ToldInv
    <3>3. CASE ~ReadSummary(u) /\ ~ReadTurns(u)
      <4>1. told'[u] = told[u]
        BY <2>1, <2>6, <3>3 DEF Idle, Informed
      <4>2. /\ pc[u] \in {"reading"} \cup Informed
            /\ pc'[u] \in Informed => pc[u] \in Informed
        BY <2>1, <2>6, <3>3
      <4> QED
        BY <1>2, <4>1, <4>2 DEF ToldInv
    <3> QED
      BY <3>1, <3>2, <3>3
  <2>7. ToldInv'
    BY <2>2, <2>6 DEF ToldInv
  <2> QED
    BY <2>5, <2>7
<1> QED
  BY <1>4, <1>5, <1>7

LEMMA ContextInit == Init => ContextInv
<1> SUFFICES ASSUME Init PROVE FoldInv /\ ToldInv
  BY DEF ContextInv
<1>1. Answered = {} /\ summary = <<>>
  BY DEF Init, Answered
<1>2. Older(Answered) = {}
  BY <1>1 DEF Older
<1>3. Listed(summary, Older(Answered))
  <2>1. Cardinality({}) = 0
    BY FS_EmptySet
  <2> QED
    BY <1>1, <1>2, <2>1 DEF Listed
<1>4. \A t \in Turns : fold[t].pc = "idle" /\ pc[t] = "none"
  BY DEF Init, NoFold
<1> QED
  BY <1>3, <1>4 DEF FoldInv, ToldInv, Informed

\* With the invariants a run is told every turn that it should be told of, and none twice.
LEMMA ToldOnce ==
  ASSUME TypeOK, NumbersInv, OlderInv, ContextInv
  PROVE  TurnsAreToldOnce
<1>0. Answered \in SUBSET Nat /\ IsFiniteSet(Answered)
  BY AnsweredOK
<1>1. Older(Answered) = Answered \ Last(Window, Answered)
  BY <1>0, LastIsNotOlder
<1>2. NoTurnToldTwice
  BY <1>1 DEF NoTurnToldTwice, OlderInv, ToldOlder, InSummary
<1>3. ContextComplete
  <2> SUFFICES ASSUME Unhurried, NEW t \in Turns, pc[t] \in Informed
               PROVE  /\ told[t].verbatim = Last(Window, Before(t))
                      /\ told[t].summary = InOrder(Before(t) \ Last(Window, Before(t)))
    BY DEF ContextComplete, Unhurried, Informed
  <2>1. Serial
    BY DEF NumbersInv, Unhurried, Spared
  <2>2. Before(t) = Answered
    BY <2>1, BeforeIsAll DEF TypeOK, RunsOK, Informed
  <2>3. Listed(told[t].summary, Older(Answered)) /\ told[t].verbatim = Last(Window, Answered)
    BY DEF ContextInv, ToldInv
  <2>4. Older(Answered) \in SUBSET Nat /\ IsFiniteSet(Older(Answered))
    BY <1>0, FS_Subset DEF Older
  <2>5. told[t].summary = InOrder(Older(Answered))
    BY <2>3, <2>4, ListedIsOne
  <2> QED
    BY <1>1, <2>2, <2>3, <2>5
<1> QED
  BY <1>2, <1>3 DEF TurnsAreToldOnce

(***************************************************************************)
(* Every run of a thread is told of all turns answered before it: the last *)
(* ones verbatim and the older ones in the summary, in order, when its     *)
(* question waited for the summary and none was lost; and whatever is lost *)
(* or late, no turn is told twice.                                         *)
(***************************************************************************)
THEOREM TurnsAreTold == Spec => []TurnsAreToldOnce
<1> DEFINE I == TypeOK /\ NumbersInv /\ OlderInv /\ ContextInv
<1>1. Init => I
  BY TypingInit, NumbersInit, OlderInit, ContextInit
<1>2. I /\ [Next]_vars => I'
  BY TypingStep, NumbersStep, OlderStep, ContextStep DEF NumbersInv
<1>3. I => TurnsAreToldOnce
  BY ToldOnce
<1> QED
  <2> HIDE DEF I
  <2> QED
    BY <1>1, <1>2, <1>3, PTL DEF Spec

-----------------------------------------------------------------------------
\* RunView: the requests of the page.

Requests == [asks: Askers, stage: Stages, body: Bodies]

LEMMA BodyIs ==
  /\ \A b \in Bodies : b.status \in Active \cup Final /\ b.rows \in 0..MaxRows /\ b.answer \in BOOLEAN
  /\ \A b, c \in Bodies : b.status = c.status /\ b.rows = c.rows /\ b.answer = c.answer => b = c
<1>1. \A b \in Bodies : b = [status |-> b.status, rows |-> b.rows, answer |-> b.answer]
  BY DEF Bodies
<1>2. \A b, c \in Bodies : b.status = c.status /\ b.rows = c.rows /\ b.answer = c.answer => b = c
  BY <1>1
<1> QED
  BY <1>2 DEF Bodies

LEMMA FreshOK ==
  /\ Fresh \in Bodies /\ Free \in Requests /\ Free.asks = "nobody" /\ Free.stage = "run"
  /\ Fresh.status \notin Final
  /\ \A by \in Askers : AskedBy(by) \in Requests /\ AskedBy(by).stage = "run"
<1>1. Fresh \in Bodies /\ Fresh.status \notin Final
  BY ViewAssumption DEF Fresh, Bodies, Active, Final
<1>2. Free \in Requests /\ Free.asks = "nobody" /\ Free.stage = "run"
  BY <1>1 DEF Free, Requests, Askers, Stages
<1>3. \A by \in Askers : AskedBy(by) \in Requests /\ AskedBy(by).stage = "run"
  BY <1>2 DEF AskedBy, Requests
<1> QED
  BY <1>1, <1>2, <1>3

\* A read of the run copies what it reads.
LEMMA ReadRunIs ==
  ASSUME ViewTypeOK, NEW l \in Slots, loads[l].stage # "reply"
  PROVE  /\ ReadRun(l) \in Requests /\ ReadRun(l).asks = loads[l].asks
         /\ \/ /\ loads[l].stage = "run" /\ ReadRun(l).stage = "steps" /\ ReadRun(l).body.status = run.status
            \/ /\ loads[l].stage = "steps" /\ ReadRun(l).stage = "sentences"
               /\ ReadRun(l).body.status = loads[l].body.status /\ ReadRun(l).body.rows = run.rows
            \/ /\ loads[l].stage = "sentences" /\ ReadRun(l).stage = "reply"
               /\ ReadRun(l).body.status = loads[l].body.status
               /\ ReadRun(l).body.rows = loads[l].body.rows /\ ReadRun(l).body.answer = run.answer
<1>1. PICK q : q = loads[l]
  OBVIOUS
<1>2. q \in Requests /\ run \in Bodies
  BY <1>1 DEF ViewTypeOK, Requests
<1>3. PICK b : b = q.body
  OBVIOUS
<1>4. b \in Bodies
  BY <1>2, <1>3 DEF Requests
<1>5. CASE q.stage = "run"
  <2>1. PICK c : c = [b EXCEPT !.status = run.status]
    OBVIOUS
  <2>2. c \in Bodies /\ c.status = run.status
    BY <1>2, <1>4, <2>1 DEF Bodies
  <2>3. PICK r : r = [q EXCEPT !.stage = "steps", !.body = c]
    OBVIOUS
  <2>4. r \in Requests /\ r.asks = q.asks /\ r.stage = "steps" /\ r.body = c
    BY <1>2, <2>2, <2>3 DEF Requests, Stages
  <2>5. ReadRun(l) = r
    BY <1>1, <1>2, <1>3, <1>5, <2>1, <2>3 DEF ReadRun, Requests
  <2> QED
    BY <1>1, <1>5, <2>2, <2>4, <2>5
<1>6. CASE q.stage = "steps"
  <2>1. PICK c : c = [b EXCEPT !.rows = run.rows]
    OBVIOUS
  <2>2. c \in Bodies /\ c.status = b.status /\ c.rows = run.rows
    BY <1>2, <1>4, <2>1 DEF Bodies
  <2>3. PICK r : r = [q EXCEPT !.stage = "sentences", !.body = c]
    OBVIOUS
  <2>4. r \in Requests /\ r.asks = q.asks /\ r.stage = "sentences" /\ r.body = c
    BY <1>2, <2>2, <2>3 DEF Requests, Stages
  <2>5. ReadRun(l) = r
    BY <1>1, <1>2, <1>3, <1>6, <2>1, <2>3 DEF ReadRun, Requests
  <2> QED
    BY <1>1, <1>3, <1>6, <2>2, <2>4, <2>5
<1>7. CASE q.stage = "sentences"
  <2>1. PICK c : c = [b EXCEPT !.answer = run.answer]
    OBVIOUS
  <2>2. c \in Bodies /\ c.status = b.status /\ c.rows = b.rows /\ c.answer = run.answer
    BY <1>2, <1>4, <2>1 DEF Bodies
  <2>3. PICK r : r = [q EXCEPT !.stage = "reply", !.body = c]
    OBVIOUS
  <2>4. r \in Requests /\ r.asks = q.asks /\ r.stage = "reply" /\ r.body = c
    BY <1>2, <2>2, <2>3 DEF Requests, Stages
  <2>5. ReadRun(l) = r
    BY <1>1, <1>2, <1>3, <1>7, <2>1, <2>3 DEF ReadRun, Requests
  <2> QED
    BY <1>1, <1>3, <1>7, <2>2, <2>4, <2>5
<1>8. q.stage \in {"run", "steps", "sentences"}
  BY <1>1, <1>2 DEF Requests, Stages
<1> QED
  BY <1>5, <1>6, <1>7, <1>8

-----------------------------------------------------------------------------
\* What the requests have read.

\* The status is final when nothing but the message is left to do.
EndIsLast == run.status \in Final <=> worker \in {"closing", "over"}

\* A request that has read that the run is over reads the rest of it as it stays.
ReadsTheEnd ==
    \A l \in Slots :
        loads[l].stage # "run" /\ loads[l].body.status \in Final =>
            /\ run.status = loads[l].body.status
            /\ loads[l].stage \in {"sentences", "reply"} => loads[l].body.rows = run.rows
            /\ loads[l].stage = "reply" => loads[l].body = run

(***************************************************************************)
(* The inductive invariant behind FinalIsWhole.                            *)
(***************************************************************************)
WholeInv == EndIsLast /\ ReadsTheEnd /\ FinalIsWhole

-----------------------------------------------------------------------------
\* Types.

RunOK == run \in Bodies /\ worker \in Workers
SseOK ==
    /\ channel \in Seq({"step", "end"})
    /\ stream \in {"none", "opening", "subscribed", "open", "closed"}
    /\ wire \in Nat
    /\ stream \notin {"opening", "subscribed", "open"} => channel = <<>>
Pages == {"first", "streaming", "polling", "timer", "idle", "error", "left"}
LoadsOK == loads \in [Slots -> Requests]
PageOK == page \in Pages /\ view \in Bodies /\ settled \in BOOLEAN

LEMMA TypeParts == ViewTypeOK <=> RunOK /\ SseOK /\ LoadsOK /\ PageOK /\ mishaps \subseteq MishapKinds
BY DEF ViewTypeOK, RunOK, SseOK, LoadsOK, PageOK, Pages, Requests

\* What the worker does to the run while it is not over.
LEMMA RunStep ==
  ASSUME ViewTypeOK, ViewNext
  PROVE  /\ RunOK'
         /\ EndIsLast => EndIsLast' /\ (run.status \in Final => run' = run)
<1>0. RunOK
  BY TypeParts
<1>1. CASE UNCHANGED dbVars
  BY <1>0, <1>1 DEF dbVars, RunOK, EndIsLast
<1>2. PICK b : b = run
  OBVIOUS
<1>3. b \in Bodies
  BY <1>0, <1>2 DEF RunOK
<1>4. CASE Start
  <2>1. PICK c : c = [b EXCEPT !.status = "running"]
    OBVIOUS
  <2>2. c \in Bodies /\ c.status = "running"
    BY <1>3, <2>1 DEF Bodies, Active
  <2> QED
    BY <1>2, <1>4, <2>1, <2>2 DEF Start, WorkerGoes, RunOK, EndIsLast, Workers, Final
<1>5. CASE Record
  <2>1. PICK c : c = [b EXCEPT !.rows = @ + 1]
    OBVIOUS
  <2>2. b.rows \in 0..MaxRows /\ b.rows < MaxRows
    BY <1>2, <1>3, <1>5 DEF Record, Bodies
  <2>3. c \in Bodies /\ c.status = b.status
    BY <1>3, <2>1, <2>2, ViewAssumption DEF Bodies
  <2> QED
    BY <1>2, <1>5, <2>1, <2>3 DEF Record, WorkerGoes, RunOK, EndIsLast, Workers
<1>6. CASE Announce
  BY <1>0, <1>6 DEF Announce, WorkerGoes, RunOK, EndIsLast, Workers
<1>7. CASE StoreAnswer
  <2>1. PICK c : c = [b EXCEPT !.answer = TRUE]
    OBVIOUS
  <2>2. c \in Bodies /\ c.status = b.status
    BY <1>3, <2>1 DEF Bodies
  <2> QED
    BY <1>2, <1>7, <2>1, <2>2 DEF StoreAnswer, WorkerGoes, RunOK, EndIsLast, Workers
<1>8. CASE RunFails
  BY <1>0, <1>8 DEF RunFails, WorkerGoes, RunOK, EndIsLast, Workers
<1>9. CASE FinishRun \/ CancelQueued
  <2>1. PICK s \in Final : /\ run' = [run EXCEPT !.status = s] /\ worker' = "closing"
                           /\ worker \in {"finishing", "failing", "queued"}
    BY <1>9 DEF FinishRun, CancelQueued, WorkerGoes, Final
  <2>2. PICK c : c = [b EXCEPT !.status = s]
    OBVIOUS
  <2>3. c \in Bodies /\ c.status = s
    BY <1>3, <2>2 DEF Bodies
  <2> QED
    BY <1>2, <2>1, <2>2, <2>3 DEF RunOK, EndIsLast, Workers
<1>10. CASE AnnounceEnd
  BY <1>0, <1>10 DEF AnnounceEnd, WorkerGoes, RunOK, EndIsLast, Workers
<1>11. CASE Resumed
  <2>1. PICK c : c = [b EXCEPT !.rows = IF @ = MaxRows THEN @ - 1 ELSE @]
    OBVIOUS
  <2>2. b.rows \in 0..MaxRows
    BY <1>3 DEF Bodies
  <2>3. (IF b.rows = MaxRows THEN b.rows - 1 ELSE b.rows) \in 0..MaxRows
    BY <2>2, ViewAssumption
  <2>4. c \in Bodies /\ c.status = b.status
    BY <1>3, <2>1, <2>3 DEF Bodies
  <2> QED
    BY <1>2, <1>11, <2>1, <2>4 DEF Resumed, RunOK, EndIsLast, Workers
<1> QED
  BY <1>1, <1>4, <1>5, <1>6, <1>7, <1>8, <1>9, <1>10, <1>11
     DEF ViewNext, Worker, Stream, Page, Subscribe, FirstStatus, Forward, Heartbeat, Disconnected, Dropped, SseFrame,
         OnMessage, OnError, Poll, Leave, GetRun, Arrive, LoadFails, dbVars

LEMMA SseStep ==
  ASSUME ViewTypeOK, ViewNext
  PROVE  SseOK'
<1>0. SseOK
  BY TypeParts
<1>1. CASE UNCHANGED sseVars
  BY <1>0, <1>1 DEF sseVars, SseOK
<1>2. CASE UNCHANGED <<stream, wire>> /\ \E msg \in {"step", "end"} : channel' =
             IF stream \in {"subscribed", "open"} THEN Append(channel, msg) ELSE channel
  BY <1>0, <1>2 DEF SseOK
<1>3. CASE UNCHANGED <<channel, stream, wire>>
  BY <1>0, <1>3 DEF SseOK
<1>4. CASE Worker
  BY <1>2, <1>3, <1>4 DEF Worker, Start, Record, Announce, StoreAnswer, RunFails, FinishRun, CancelQueued, AnnounceEnd,
                          Resumed, DbFrame, Publish, Unpublished
<1>5. Sends => wire' \in Nat
  BY <1>0 DEF Sends, SseOK
<1>6. CASE Stream \/ Dropped
  <2>1. wire' \in Nat
    BY <1>0, <1>5, <1>6 DEF Stream, Subscribe, FirstStatus, Forward, Heartbeat, Disconnected, Dropped, SseOK
  <2>2. CASE Closes
    BY <2>1, <2>2 DEF Closes, SseOK
  <2>3. CASE UNCHANGED channel /\ stream' \in {"subscribed", "open"}
    BY <1>0, <2>1, <2>3 DEF SseOK
  <2>4. CASE Forward
    BY <1>0, <2>1, <2>2, <2>4 DEF Forward, SseOK
  <2> QED
    BY <1>6, <2>2, <2>3, <2>4 DEF Stream, Subscribe, FirstStatus, Heartbeat, Disconnected, Dropped
<1>7. ASSUME NEW l \in Slots, Arrive(l) PROVE SseOK'
  BY <1>0, <1>7 DEF Arrive, SseOK
<1>8. CASE OnMessage \/ Leave
  BY <1>0, <1>8 DEF OnMessage, Leave, SseOK
<1> QED
  BY <1>1, <1>4, <1>6, <1>7, <1>8 DEF ViewNext, Page, OnError, Poll, GetRun, LoadFails

\* Who may change the requests, and how.
LEMMA LoadsStep ==
  ASSUME ViewTypeOK, ViewNext
  PROVE  /\ LoadsOK'
         /\ \A l \in Slots : \/ loads'[l] = loads[l]
                             \/ loads'[l].stage = "run"
                             \/ loads[l].stage # "reply" /\ loads'[l] = ReadRun(l) /\ UNCHANGED run
<1>0. LoadsOK
  BY TypeParts
<1>1. CASE UNCHANGED loads
  BY <1>0, <1>1 DEF LoadsOK
<1>2. ASSUME NEW l \in Slots, NEW q \in Requests, q.stage = "run", loads' = [loads EXCEPT ![l] = q]
      PROVE  /\ LoadsOK'
             /\ \A k \in Slots : loads'[k] = loads[k] \/ loads'[k].stage = "run"
  BY <1>0, <1>2 DEF LoadsOK
<1>3. ASSUME NEW l \in Slots, GetRun(l)
      PROVE  /\ LoadsOK'
             /\ \A k \in Slots : \/ loads'[k] = loads[k]
                                 \/ loads[k].stage # "reply" /\ loads'[k] = ReadRun(k) /\ UNCHANGED run
  <2>1. loads[l].stage # "reply" /\ loads' = [loads EXCEPT ![l] = ReadRun(l)] /\ UNCHANGED run
    BY <1>3 DEF GetRun, dbVars
  <2>2. ReadRun(l) \in Requests
    BY <2>1, ReadRunIs
  <2> QED
    BY <1>0, <2>1, <2>2 DEF LoadsOK
<1>4. ASSUME NEW l \in Slots, Arrive(l) \/ LoadFails(l)
      PROVE  /\ LoadsOK'
             /\ \A k \in Slots : loads'[k] = loads[k] \/ loads'[k].stage = "run"
  <2>1. loads' = [loads EXCEPT ![l] = Free]
    BY <1>4 DEF Arrive, LoadFails, Ends
  <2> QED
    BY <1>2, <2>1, FreshOK
<1>5. CASE Page
  <2>1. PICK by \in Askers : Load(by)
    BY <1>5 DEF Page, OnMessage, OnError, Poll, Askers
  <2>2. PICK l \in Slots : loads' = [loads EXCEPT ![l] = AskedBy(by)]
    BY <2>1 DEF Load, Unused
  <2> QED
    BY <1>2, <2>2, FreshOK
<1>6. CASE Leave
  <2>1. loads' = [l \in Slots |-> Free]
    BY <1>6 DEF Leave
  <2> QED
    BY <2>1, FreshOK DEF LoadsOK
<1> QED
  BY <1>1, <1>3, <1>4, <1>5, <1>6
     DEF ViewNext, Worker, Stream, Subscribe, FirstStatus, Forward, Heartbeat, Disconnected, Dropped, SseFrame, pageVars,
         Start, Record, Announce, StoreAnswer, RunFails, FinishRun, CancelQueued, AnnounceEnd, Resumed, DbFrame

LEMMA PageStep ==
  ASSUME ViewTypeOK, ViewNext
  PROVE  /\ PageOK' /\ mishaps' \subseteq MishapKinds
         /\ UNCHANGED view \/ \E l \in Slots : loads[l].stage = "reply" /\ view' = loads[l].body /\ UNCHANGED run
<1>0. PageOK /\ LoadsOK /\ mishaps \subseteq MishapKinds
  BY TypeParts
<1>1. mishaps' \subseteq MishapKinds
  BY <1>0 DEF ViewNext, Worker, Stream, Subscribe, FirstStatus, Forward, Heartbeat, Disconnected, Dropped, SseFrame,
         Start, Record, Announce, StoreAnswer, RunFails, FinishRun, CancelQueued, AnnounceEnd, Resumed, Publish, Unpublished,
         Page, OnMessage, OnError, Poll, Leave, GetRun, Arrive, LoadFails, Mishap, MishapKinds
<1>2. CASE UNCHANGED <<page, view, settled>>
  BY <1>0, <1>1, <1>2 DEF PageOK
<1>3. ASSUME NEW l \in Slots, Arrive(l)
      PROVE  PageOK' /\ loads[l].stage = "reply" /\ view' = loads[l].body /\ UNCHANGED run
  <2>1. loads[l].body \in Bodies
    BY <1>0 DEF LoadsOK, Requests
  <2>2. loads[l].stage = "reply" /\ view' = loads[l].body /\ UNCHANGED run
    BY <1>3 DEF Arrive, dbVars
  <2>3. page' \in Pages /\ settled' \in BOOLEAN
    BY <1>0, <1>3 DEF Arrive, PageOK, Pages
  <2> QED
    BY <2>1, <2>2, <2>3 DEF PageOK
<1>4. ASSUME NEW l \in Slots, LoadFails(l) PROVE PageOK' /\ UNCHANGED view
  BY <1>0, <1>4 DEF LoadFails, PageOK, Pages
<1>5. CASE Page \/ Leave
  BY <1>0, <1>5 DEF Page, OnMessage, OnError, Poll, Leave, PageOK, Pages
<1>6. CASE Worker \/ Stream \/ Dropped \/ \E l \in Slots : GetRun(l)
  BY <1>2, <1>6
     DEF Worker, Stream, Subscribe, FirstStatus, Forward, Heartbeat, Disconnected, Dropped, SseFrame, pageVars,
         Start, Record, Announce, StoreAnswer, RunFails, FinishRun, CancelQueued, AnnounceEnd, Resumed, DbFrame, GetRun
<1>7. Page \/ Leave => UNCHANGED view
  BY DEF Page, OnMessage, OnError, Poll, Leave
<1>8. Worker \/ Stream \/ Dropped \/ (\E l \in Slots : GetRun(l)) => UNCHANGED view
  BY DEF Worker, Stream, Subscribe, FirstStatus, Forward, Heartbeat, Disconnected, Dropped, SseFrame, pageVars,
         Start, Record, Announce, StoreAnswer, RunFails, FinishRun, CancelQueued, AnnounceEnd, Resumed, DbFrame, GetRun
<1> QED
  BY <1>1, <1>3, <1>4, <1>5, <1>6, <1>7, <1>8 DEF ViewNext

LEMMA WholeStep ==
  ASSUME ViewTypeOK, WholeInv, ViewNext
  PROVE  WholeInv'
<1>0. EndIsLast /\ ReadsTheEnd /\ FinalIsWhole /\ RunOK /\ LoadsOK /\ PageOK
  BY TypeParts DEF WholeInv
<1>1. RunOK' /\ EndIsLast' /\ (run.status \in Final => run' = run)
  BY <1>0, RunStep
<1>2. LoadsOK'
  BY LoadsStep
<1>3. ASSUME NEW l \in Slots, loads'[l].stage # "run", loads'[l].body.status \in Final
      PROVE  /\ run'.status = loads'[l].body.status
             /\ loads'[l].stage \in {"sentences", "reply"} => loads'[l].body.rows = run'.rows
             /\ loads'[l].stage = "reply" => loads'[l].body = run'
  <2>1. CASE loads'[l] = loads[l]
    BY <1>0, <1>1, <1>3, <2>1 DEF ReadsTheEnd
  <2>2. CASE loads[l].stage # "reply" /\ loads'[l] = ReadRun(l) /\ UNCHANGED run
    <3>1. loads[l] \in Requests /\ loads'[l] \in Requests /\ run \in Bodies
      BY <1>0, <1>2 DEF LoadsOK, RunOK
    <3>2. loads'[l].body \in Bodies
      BY <3>1 DEF Requests
    <3>3. \/ /\ loads[l].stage = "run" /\ loads'[l].stage = "steps" /\ loads'[l].body.status = run.status
          \/ /\ loads[l].stage = "steps" /\ loads'[l].stage = "sentences"
             /\ loads'[l].body.status = loads[l].body.status /\ loads'[l].body.rows = run.rows
          \/ /\ loads[l].stage = "sentences" /\ loads'[l].stage = "reply"
             /\ loads'[l].body.status = loads[l].body.status
             /\ loads'[l].body.rows = loads[l].body.rows /\ loads'[l].body.answer = run.answer
      BY <2>2, ReadRunIs
    <3>4. CASE loads[l].stage = "run"
      BY <2>2, <3>3, <3>4
    <3>5. CASE loads[l].stage = "steps"
      BY <1>0, <1>3, <2>2, <3>3, <3>5 DEF ReadsTheEnd
    <3>6. CASE loads[l].stage = "sentences"
      <4>1. run.status = loads'[l].body.status /\ run.rows = loads'[l].body.rows
        BY <1>0, <1>3, <3>3, <3>6 DEF ReadsTheEnd
      <4>2. loads'[l].body = run
        BY <3>1, <3>2, <3>3, <3>6, <4>1, BodyIs
      <4> QED
        BY <2>2, <4>1, <4>2
    <3> QED
      BY <3>3, <3>4, <3>5, <3>6
  <2> QED
    BY <1>3, <2>1, <2>2, LoadsStep
<1>4. ReadsTheEnd'
  BY <1>3 DEF ReadsTheEnd
<1>5. FinalIsWhole'
  <2>1. CASE UNCHANGED view
    BY <1>0, <1>1, <2>1 DEF FinalIsWhole
  <2>2. CASE \E l \in Slots : loads[l].stage = "reply" /\ view' = loads[l].body /\ UNCHANGED run
    BY <1>0, <2>2 DEF FinalIsWhole, ReadsTheEnd
  <2> QED
    BY <2>1, <2>2, PageStep
<1> QED
  BY <1>1, <1>4, <1>5 DEF WholeInv

LEMMA InitOK == ViewInit => ViewTypeOK /\ WholeInv
<1> SUFFICES ASSUME ViewInit PROVE ViewTypeOK /\ WholeInv
  OBVIOUS
<1>1. /\ run = Fresh /\ view = Fresh /\ worker = "queued" /\ channel = <<>> /\ stream = "none" /\ wire = 0
      /\ page = "first" /\ settled = FALSE /\ mishaps = {}
      /\ loads = [l \in Slots |-> IF l = 1 THEN AskedBy("first") ELSE Free]
  BY DEF ViewInit
<1>2. RunOK /\ SseOK /\ PageOK
  <2>1. channel \in Seq({"step", "end"}) /\ wire \in Nat
    BY <1>1
  <2> QED
    BY <1>1, <2>1, FreshOK DEF RunOK, SseOK, PageOK, Workers, Pages
<1>3. LoadsOK /\ \A l \in Slots : loads[l].stage = "run"
  BY <1>1, FreshOK DEF LoadsOK, Askers
<1> QED
  BY <1>1, <1>2, <1>3, TypeParts, FreshOK DEF WholeInv, EndIsLast, ReadsTheEnd, FinalIsWhole

(***************************************************************************)
(* A page that shows that a run is over shows all its steps and its        *)
(* answer: the three reads of get_run, the worker's writes, restarts,      *)
(* lost messages and failed requests in any order.                         *)
(***************************************************************************)
THEOREM EndIsWhole == ViewSpec => []ViewInv
<1>1. ViewTypeOK /\ WholeInv /\ [ViewNext]_viewVars => ViewTypeOK' /\ WholeInv'
  <2>1. ASSUME ViewTypeOK, WholeInv, ViewNext PROVE ViewTypeOK' /\ WholeInv'
    <3>1. RunOK' /\ SseOK' /\ LoadsOK' /\ PageOK' /\ mishaps' \subseteq MishapKinds
      BY <2>1, RunStep, SseStep, LoadsStep, PageStep
    <3> QED
      BY <2>1, <3>1, WholeStep DEF ViewTypeOK, RunOK, SseOK, LoadsOK, PageOK, Pages, Requests
  <2>2. ASSUME ViewTypeOK, WholeInv, UNCHANGED viewVars PROVE ViewTypeOK' /\ WholeInv'
    BY <2>2 DEF viewVars, dbVars, sseVars, pageVars, ViewTypeOK, WholeInv, EndIsLast, ReadsTheEnd, FinalIsWhole
  <2> QED
    BY <2>1, <2>2
<1>2. ViewTypeOK /\ WholeInv => ViewInv
  BY DEF WholeInv, ViewInv
<1> QED
  BY <1>1, <1>2, InitOK, PTL DEF ViewSpec
=============================================================================
