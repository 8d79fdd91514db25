--------------------------- MODULE SelectionProofs ---------------------------
(***************************************************************************)
(* Proofs about Answer and Feeds, and about the operators of Ranking and   *)
(* Retrieval that both are built from: what sorting by ranks yields, that  *)
(* the functions defined by recursion exist, what SelectEvidence and       *)
(* SelectPapers choose.  AnswerInv is the inductive invariant of a run;    *)
(* FeedsInv and WeekInv are those of the feeds.                            *)
(***************************************************************************)
EXTENDS Answer, Feeds, TLAPS, FiniteSetTheorems, SequenceTheorems, WellFoundedInduction

-----------------------------------------------------------------------------
\* Numbers: the least of a set, and induction over the numbers in a set.

LEMMA LeastOfNat ==
  ASSUME NEW S \in SUBSET Nat, S # {}
  PROVE  \E m \in S : \A n \in S : m <= n
<1>1. IsWellFoundedOn(OpToRel(<, Nat), Nat)
  BY NatLessThanWellFounded
<1>2. \A i, j \in Nat : <<i, j>> \in OpToRel(<, Nat) <=> i < j
  BY DEF OpToRel
<1>3. PICK m \in S : \A n \in S : ~(<<n, m>> \in OpToRel(<, Nat))
  BY <1>1, WFMin, S # {}
<1>4. ASSUME NEW n \in S PROVE m <= n
  <2>1. n \in Nat /\ m \in Nat
    OBVIOUS
  <2>2. ~(n < m)
    BY <2>1, <1>2, <1>3
  <2> QED
    BY <2>1, <2>2
<1> QED
  BY <1>4

LEMMA NatSetInduction ==
  ASSUME NEW S, 0 \in S, \A n \in Nat : n \in S => n + 1 \in S
  PROVE  \A n \in Nat : n \in S
<1> SUFFICES ASSUME NEW k \in Nat, k \notin S PROVE FALSE
  OBVIOUS
<1>1. PICK m \in Nat \ S : \A n \in Nat \ S : m <= n
  <2>1. Nat \ S \in SUBSET Nat /\ Nat \ S # {}
    OBVIOUS
  <2> QED
    BY <2>1, LeastOfNat
<1>2. m # 0 /\ m - 1 \in Nat
  BY <1>1
<1>3. m - 1 \in S
  BY <1>1, <1>2
<1> QED
  BY <1>1, <1>2, <1>3

\* Finite sets: a part that is as large is the whole.
LEMMA Parts ==
  ASSUME NEW S, IsFiniteSet(S), NEW T, T \subseteq S
  PROVE  /\ IsFiniteSet(T) /\ Cardinality(T) \in Nat /\ Cardinality(S) \in Nat
         /\ Cardinality(T) <= Cardinality(S)
         /\ T # S => Cardinality(T) < Cardinality(S)
<1>1. IsFiniteSet(T) /\ Cardinality(T) <= Cardinality(S) /\ (Cardinality(S) = Cardinality(T) => S = T)
  <2>1. T \in SUBSET S
    OBVIOUS
  <2> QED
    BY <2>1, FS_Subset
<1>2. Cardinality(T) \in Nat /\ Cardinality(S) \in Nat
  BY <1>1, FS_CardinalityType
<1> QED
  BY <1>1, <1>2

LEMMA NothingIn ==
  ASSUME NEW S, \A x : x \notin S
  PROVE  IsFiniteSet(S) /\ Cardinality(S) = 0
<1>1. S = {}
  OBVIOUS
<1> QED
  BY <1>1, FS_EmptySet, Zenon

-----------------------------------------------------------------------------
\* Ranked numbers.

Comes(score, x, y) == score[x] > score[y] \/ (score[x] = score[y] /\ x < y)

LEMMA AheadIs ==
  ASSUME NEW S, IsFiniteSet(S), S \subseteq Int, NEW score \in [S -> Int]
  PROVE  /\ \A x \in S : /\ IsFiniteSet(Ahead(score, x))
                         /\ Cardinality(Ahead(score, x)) \in 0..(Cardinality(S) - 1)
         /\ \A x, y \in S : Comes(score, x, y) => Cardinality(Ahead(score, x)) < Cardinality(Ahead(score, y))
         /\ \A x, y \in S : x # y => Comes(score, x, y) \/ Comes(score, y, x)
<1>1. \A x \in S : score[x] \in Int /\ x \in Int
  OBVIOUS
<1>2. \A x \in S : Ahead(score, x) = {y \in S : Comes(score, y, x)}
  BY DEF Ahead, Comes
<1>3. \A x \in S : ~Comes(score, x, x)
  BY <1>1 DEF Comes
<1>4. \A x, y, z \in S : Comes(score, x, y) /\ Comes(score, y, z) => Comes(score, x, z)
  BY <1>1 DEF Comes
<1>5. \A x, y \in S : x # y => Comes(score, x, y) \/ Comes(score, y, x)
  BY <1>1 DEF Comes
<1>6. ASSUME NEW x \in S
      PROVE  IsFiniteSet(Ahead(score, x)) /\ Cardinality(Ahead(score, x)) \in 0..(Cardinality(S) - 1)
  <2>1. Ahead(score, x) \subseteq S /\ x \notin Ahead(score, x)
    BY <1>2, <1>3
  <2>2. Ahead(score, x) # S
    BY <2>1
  <2>3. IsFiniteSet(Ahead(score, x)) /\ Cardinality(Ahead(score, x)) \in Nat /\ Cardinality(S) \in Nat
        /\ Cardinality(Ahead(score, x)) < Cardinality(S)
    BY <2>1, <2>2, Parts
  <2> QED
    BY <2>3
<1>7. ASSUME NEW x \in S, NEW y \in S, Comes(score, x, y)
      PROVE  Cardinality(Ahead(score, x)) < Cardinality(Ahead(score, y))
  <2>1. Ahead(score, x) \subseteq Ahead(score, y)
    BY <1>2, <1>4, <1>7
  <2>2. x \in Ahead(score, y) /\ x \notin Ahead(score, x)
    BY <1>2, <1>3, <1>7
  <2>3. IsFiniteSet(Ahead(score, y)) /\ Ahead(score, x) # Ahead(score, y)
    BY <1>6, <2>2
  <2> QED
    BY <2>1, <2>3, Parts
<1> QED
  BY <1>5, <1>6, <1>7

\* Ranked lists each number once, in the order of the scores.
LEMMA RankedIs ==
  ASSUME NEW S, IsFiniteSet(S), S \subseteq Int, NEW score \in [S -> Int]
  PROVE  /\ Cardinality(S) \in Nat
         /\ Ranked(score) \in [1..Cardinality(S) -> S]
         /\ \A x \in S : \E i \in 1..Cardinality(S) : Ranked(score)[i] = x
         /\ \A i, j \in 1..Cardinality(S) : i < j => Comes(score, Ranked(score)[i], Ranked(score)[j])
         /\ \A i, j \in 1..Cardinality(S) : Ranked(score)[i] = Ranked(score)[j] => i = j
<1> DEFINE n == Cardinality(S)
           rank == [x \in S |-> Cardinality(Ahead(score, x))]
<1>1. n \in Nat
  BY FS_CardinalityType
<1>2. rank \in [S -> 0..(n - 1)]
  BY AheadIs
<1>3. \A x, y \in S : /\ Comes(score, x, y) => rank[x] < rank[y]
                      /\ x # y => Comes(score, x, y) \/ Comes(score, y, x)
  BY AheadIs
<1>4. rank \in Injection(S, 0..(n - 1))
  <2>1. \A x, y \in S : x # y => rank[x] # rank[y]
    <3>1. \A x \in S : rank[x] \in Int
      BY <1>2
    <3> HIDE DEF rank
    <3> QED
      BY <1>3, <3>1
  <2> HIDE DEF rank, n
  <2> QED
    BY <1>2, <2>1 DEF Injection, IsInjective
<1>5. \A r \in 0..(n - 1) : \E x \in S : rank[x] = r
  <2>1. IsFiniteSet(0..(n - 1)) /\ Cardinality(0..(n - 1)) = n
    BY <1>1, FS_Interval
  <2>2. rank \in Surjection(S, 0..(n - 1))
    <3> HIDE DEF rank
    <3> QED
      BY <1>4, <2>1, FS_Injection
  <2> HIDE DEF rank
  <2> QED
    BY <2>2 DEF Surjection
<1>6. \A x \in S : DOMAIN score = S /\ rank[x] = Cardinality(Ahead(score, x))
  OBVIOUS
<1> DEFINE R == Ranked(score)
<1>7. R = [i \in 1..n |-> CHOOSE x \in S : rank[x] = i - 1]
  BY <1>6 DEF Ranked
<1>8. \A i \in 1..n : R[i] \in S /\ rank[R[i]] = i - 1
  <2> HIDE DEF rank, n, R
  <2>1. \A i \in 1..n : \E x \in S : rank[x] = i - 1
    BY <1>1, <1>5
  <2> QED
    BY <1>7, <2>1
<1>9. R \in [1..n -> S]
  <2> HIDE DEF rank, n, R
  <2> QED
    BY <1>7, <1>8
<1>10. \A x \in S : \E i \in 1..n : R[i] = x
  <2> SUFFICES ASSUME NEW x \in S PROVE \E i \in 1..n : R[i] = x
    OBVIOUS
  <2> HIDE DEF rank, n, R
  <2>1. rank[x] \in 0..(n - 1)
    BY <1>2
  <2>2. rank[x] + 1 \in 1..n
    BY <1>1, <2>1
  <2>3. R[rank[x] + 1] \in S /\ rank[R[rank[x] + 1]] = rank[x]
    BY <1>8, <2>1, <2>2
  <2>4. R[rank[x] + 1] = x
    BY <2>3, <1>4 DEF Injection, IsInjective
  <2> QED
    BY <2>2, <2>4
<1>11. \A i, j \in 1..n : R[i] = R[j] => i = j
  <2> HIDE DEF rank, n, R
  <2> QED
    BY <1>1, <1>8
<1>12. \A i, j \in 1..n : i < j => Comes(score, R[i], R[j])
  <2> SUFFICES ASSUME NEW i \in 1..n, NEW j \in 1..n, i < j PROVE Comes(score, R[i], R[j])
    OBVIOUS
  <2> HIDE DEF rank, n, R
  <2>1. R[i] \in S /\ R[j] \in S /\ rank[R[i]] = i - 1 /\ rank[R[j]] = j - 1
    BY <1>8
  <2>2. R[i] # R[j] /\ ~(rank[R[j]] < rank[R[i]])
    BY <2>1, <1>1, <1>11
  <2> QED
    BY <1>3, <2>1, <2>2
<1> QED
  BY <1>1, <1>9, <1>10, <1>11, <1>12

\* Ascending lists a set of numbers in their order; all of the first n are in their places.
LEMMA AscendingIs ==
  ASSUME NEW S, IsFiniteSet(S), S \subseteq Int
  PROVE  /\ Cardinality(S) \in Nat
         /\ Ascending(S) \in [1..Cardinality(S) -> S]
         /\ \A x \in S : \E i \in 1..Cardinality(S) : Ascending(S)[i] = x
         /\ \A i, j \in 1..Cardinality(S) : i < j => Ascending(S)[i] < Ascending(S)[j]
         /\ \A i, j \in 1..Cardinality(S) : Ascending(S)[i] = Ascending(S)[j] => i = j
<1> DEFINE score == [x \in S |-> 0]
<1>1. score \in [S -> Int] /\ \A x \in S : score[x] = 0
  OBVIOUS
<1>2. Ascending(S) = Ranked(score)
  BY DEF Ascending
<1> HIDE DEF score
<1>3. /\ Cardinality(S) \in Nat
      /\ Ranked(score) \in [1..Cardinality(S) -> S]
      /\ \A x \in S : \E i \in 1..Cardinality(S) : Ranked(score)[i] = x
      /\ \A i, j \in 1..Cardinality(S) : i < j => Comes(score, Ranked(score)[i], Ranked(score)[j])
      /\ \A i, j \in 1..Cardinality(S) : Ranked(score)[i] = Ranked(score)[j] => i = j
  BY <1>1, RankedIs
<1>4. ASSUME NEW i \in 1..Cardinality(S), NEW j \in 1..Cardinality(S), i < j
      PROVE  Ranked(score)[i] < Ranked(score)[j]
  <2>1. Comes(score, Ranked(score)[i], Ranked(score)[j])
    BY <1>3, <1>4
  <2>2. score[Ranked(score)[i]] = 0 /\ score[Ranked(score)[j]] = 0
    BY <1>1, <1>3
  <2> QED
    BY <2>1, <2>2 DEF Comes
<1> QED
  BY <1>2, <1>3, <1>4

LEMMA AscendingAll ==
  ASSUME NEW n \in Nat
  PROVE  Ascending(1..n) = [i \in 1..n |-> i]
<1> DEFINE score == [x \in 1..n |-> 0]
<1>1. IsFiniteSet(1..n) /\ Cardinality(1..n) = n
  BY FS_Interval
<1>2. \A x \in 1..n : Ahead(score, x) = 1..(x - 1)
  BY DEF Ahead
<1>3. ASSUME NEW x \in 1..n PROVE Cardinality(Ahead(score, x)) = x - 1
  <2>1. Cardinality(1..(x - 1)) = x - 1
    BY FS_Interval
  <2> QED
    BY <1>2, <2>1
<1>4. Ascending(1..n) = [i \in 1..n |-> CHOOSE x \in 1..n : Cardinality(Ahead(score, x)) = i - 1]
  BY <1>1 DEF Ascending, Ranked
<1>5. ASSUME NEW i \in 1..n PROVE (CHOOSE x \in 1..n : Cardinality(Ahead(score, x)) = i - 1) = i
  <2> HIDE DEF score
  <2>1. \A x \in 1..n : Cardinality(Ahead(score, x)) = i - 1 <=> x = i
    BY <1>3
  <2> QED
    BY <2>1
<1> HIDE DEF score
<1> QED
  BY <1>4, <1>5

-----------------------------------------------------------------------------
\* Parts of lists.

Images(s, places) == {s[i] : i \in places}

LEMMA AtIs ==
  ASSUME NEW T, NEW s \in Seq(T), NEW places, places \subseteq DOMAIN s
  PROVE  /\ IsFiniteSet(places) /\ Cardinality(places) \in Nat
         /\ Ascending(places) \in [1..Cardinality(places) -> places]
         /\ \A x \in places : \E i \in 1..Cardinality(places) : Ascending(places)[i] = x
         /\ \A i, j \in 1..Cardinality(places) : i < j => Ascending(places)[i] < Ascending(places)[j]
         /\ At(s, places) \in Seq(T)
         /\ Len(At(s, places)) = Cardinality(places)
         /\ DOMAIN At(s, places) = 1..Cardinality(places)
         /\ \A i \in 1..Cardinality(places) : At(s, places)[i] = s[Ascending(places)[i]]
         /\ ToSet(At(s, places)) = Images(s, places)
<1>0. Len(s) \in Nat /\ DOMAIN s = 1..Len(s) /\ \A i \in 1..Len(s) : s[i] \in T
  OBVIOUS
<1>1. IsFiniteSet(places) /\ places \subseteq Int
  <2>1. IsFiniteSet(1..Len(s))
    BY <1>0, FS_Interval
  <2> QED
    BY <1>0, <2>1, Parts
<1>2. /\ Cardinality(places) \in Nat
      /\ Ascending(places) \in [1..Cardinality(places) -> places]
      /\ \A x \in places : \E i \in 1..Cardinality(places) : Ascending(places)[i] = x
      /\ \A i, j \in 1..Cardinality(places) : i < j => Ascending(places)[i] < Ascending(places)[j]
  BY <1>1, AscendingIs
<1>3. At(s, places) = [i \in 1..Cardinality(places) |-> s[Ascending(places)[i]]]
  BY <1>2 DEF At
<1>4. \A i \in 1..Cardinality(places) : s[Ascending(places)[i]] \in T
  BY <1>0, <1>2
<1>5. /\ At(s, places) \in Seq(T)
      /\ Len(At(s, places)) = Cardinality(places)
      /\ DOMAIN At(s, places) = 1..Cardinality(places)
      /\ \A i \in 1..Cardinality(places) : At(s, places)[i] = s[Ascending(places)[i]]
  BY <1>2, <1>3, <1>4
<1>6. ToSet(At(s, places)) = Images(s, places)
  BY <1>2, <1>5 DEF ToSet, Images
<1> QED
  BY <1>1, <1>2, <1>5, <1>6

LEMMA AtAll ==
  ASSUME NEW T, NEW s \in Seq(T)
  PROVE  At(s, DOMAIN s) = s
<1>1. Len(s) \in Nat /\ DOMAIN s = 1..Len(s) /\ s = [i \in 1..Len(s) |-> s[i]]
  OBVIOUS
<1>2. Ascending(DOMAIN s) = [i \in 1..Len(s) |-> i]
  BY <1>1, AscendingAll
<1>3. At(s, DOMAIN s) = [i \in 1..Len(s) |-> s[i]]
  BY <1>1, <1>2 DEF At
<1> QED
  BY <1>1, <1>3

LEMMA LesserOfTwo ==
  ASSUME NEW a \in Int, NEW b \in Int
  PROVE  /\ Min({a, b}) = IF a <= b THEN a ELSE b
         /\ Max({a, b}) = IF a >= b THEN a ELSE b
<1>1. \A m \in {a, b} : (\A y \in {a, b} : m <= y) => Min({a, b}) = m
  BY DEF Min
<1>2. \A m \in {a, b} : (\A y \in {a, b} : m >= y) => Max({a, b}) = m
  BY DEF Max
<1> QED
  BY <1>1, <1>2

LEMMA FirstIs ==
  ASSUME NEW T, NEW s \in Seq(T), NEW n \in Nat
  PROVE  /\ First(n, s) \in Seq(T)
         /\ Len(First(n, s)) = (IF n <= Len(s) THEN n ELSE Len(s))
         /\ Len(First(n, s)) <= n
         /\ DOMAIN First(n, s) = 1..Len(First(n, s))
         /\ DOMAIN First(n, s) \subseteq DOMAIN s
         /\ \A i \in DOMAIN First(n, s) : First(n, s)[i] = s[i]
         /\ ToSet(First(n, s)) \subseteq ToSet(s)
<1>1. Len(s) \in Nat /\ DOMAIN s = 1..Len(s)
  OBVIOUS
<1> DEFINE m == IF n <= Len(s) THEN n ELSE Len(s)
<1>2. m \in 0..Len(s) /\ First(n, s) = SubSeq(s, 1, m) /\ m <= n
  BY <1>1, LesserOfTwo DEF First
<1>3. First(n, s) \in Seq(T) /\ Len(First(n, s)) = m /\ \A i \in 1..m : First(n, s)[i] = s[i]
  <2> HIDE DEF m
  <2>1. \A i \in 1..m : s[i] \in T
    BY <1>1, <1>2
  <2>2. SubSeq(s, 1, m) \in Seq(T)
        /\ Len(SubSeq(s, 1, m)) = (IF 1 <= m THEN m - 1 + 1 ELSE 0)
        /\ \A i \in 1..(m - 1 + 1) : SubSeq(s, 1, m)[i] = s[1 + i - 1]
    BY <1>1, <1>2, <2>1, SubSeqProperties
  <2> QED
    BY <1>1, <1>2, <2>2
<1> QED
  BY <1>1, <1>2, <1>3 DEF ToSet

\* The same elements, each as often.
Rearranges(t, s) ==
    \E order \in [1..Len(s) -> 1..Len(s)] :
       /\ \A i, j \in 1..Len(s) : order[i] = order[j] => i = j
       /\ \A k \in 1..Len(s) : \E i \in 1..Len(s) : order[i] = k
       /\ \A i \in 1..Len(s) : t[i] = s[order[i]]

Descending(s, field) == \A i, j \in DOMAIN s : i < j => s[i][field] >= s[j][field]

\* A list sorted by a field has the same elements, each as often, the greatest first.
LEMMA BestFirstIs ==
  ASSUME NEW T, NEW s \in Seq(T), NEW field, \A i \in DOMAIN s : s[i][field] \in Int
  PROVE  /\ Len(s) \in Nat /\ DOMAIN s = 1..Len(s)
         /\ BestFirst(s, field) \in Seq(T)
         /\ Len(BestFirst(s, field)) = Len(s)
         /\ DOMAIN BestFirst(s, field) = 1..Len(s)
         /\ Rearranges(BestFirst(s, field), s)
         /\ Descending(BestFirst(s, field), field)
         /\ ToSet(BestFirst(s, field)) = ToSet(s)
<1> DEFINE n == Len(s)
           score == [i \in DOMAIN s |-> s[i][field]]
           order == Ranked(score)
<1>1. n \in Nat /\ DOMAIN s = 1..n /\ \A i \in 1..n : s[i] \in T
  OBVIOUS
<1>2. IsFiniteSet(1..n) /\ Cardinality(1..n) = n /\ 1..n \subseteq Int
  BY <1>1, FS_Interval
<1>3. score \in [1..n -> Int] /\ \A i \in 1..n : score[i] = s[i][field]
  BY <1>1
<1>4. /\ order \in [1..n -> 1..n]
      /\ \A k \in 1..n : \E i \in 1..n : order[i] = k
      /\ \A i, j \in 1..n : i < j => Comes(score, order[i], order[j])
      /\ \A i, j \in 1..n : order[i] = order[j] => i = j
  <2> DEFINE N == 1..n
  <2>1. /\ Cardinality(N) \in Nat /\ order \in [1..Cardinality(N) -> N]
        /\ \A k \in N : \E i \in 1..Cardinality(N) : order[i] = k
        /\ \A i, j \in 1..Cardinality(N) : i < j => Comes(score, order[i], order[j])
        /\ \A i, j \in 1..Cardinality(N) : order[i] = order[j] => i = j
    <3>1. IsFiniteSet(N) /\ N \subseteq Int /\ score \in [N -> Int]
      BY <1>2, <1>3
    <3> HIDE DEF score, N
    <3> QED
      BY <3>1, RankedIs
  <2> HIDE DEF score, order, n
  <2> QED
    BY <1>2, <2>1
<1>5. BestFirst(s, field) = [i \in 1..n |-> s[order[i]]]
  <2>1. DOMAIN order = 1..n
    <3> HIDE DEF order, n
    <3> QED
      BY <1>4
  <2>2. BestFirst(s, field) = [i \in DOMAIN order |-> s[order[i]]]
    BY DEF BestFirst
  <2> QED
    BY <2>1, <2>2
<1> HIDE DEF score, order, n
<1>6. /\ BestFirst(s, field) \in Seq(T) /\ Len(BestFirst(s, field)) = n
      /\ DOMAIN BestFirst(s, field) = 1..n
      /\ \A i \in 1..n : BestFirst(s, field)[i] = s[order[i]]
  <2>1. order \in [1..n -> 1..n]
    BY <1>4
  <2>2. \A i \in 1..n : s[order[i]] \in T
    BY <1>1, <2>1
  <2> QED
    BY <1>1, <1>5, <2>2
<1>7. \A i, j \in 1..n : i < j => BestFirst(s, field)[i][field] >= BestFirst(s, field)[j][field]
  <2> SUFFICES ASSUME NEW i \in 1..n, NEW j \in 1..n, i < j
               PROVE  BestFirst(s, field)[i][field] >= BestFirst(s, field)[j][field]
    OBVIOUS
  <2>1. Comes(score, order[i], order[j])
    BY <1>4
  <2>2. order[i] \in 1..n /\ order[j] \in 1..n
    BY <1>4
  <2>3. score[order[i]] \in Int /\ score[order[j]] \in Int
    BY <1>3, <2>2
  <2>4. score[order[i]] >= score[order[j]]
    BY <2>1, <2>3 DEF Comes
  <2> QED
    BY <1>3, <1>6, <2>2, <2>4
<1>8. ToSet(BestFirst(s, field)) = ToSet(s)
  <2>1. \A k \in 1..n : \E i \in 1..n : order[i] = k
    BY <1>4
  <2>2. \A i \in 1..n : order[i] \in 1..n
    BY <1>4
  <2>3. ToSet(BestFirst(s, field)) = {BestFirst(s, field)[i] : i \in 1..n} /\ ToSet(s) = {s[i] : i \in 1..n}
    BY <1>1, <1>6 DEF ToSet
  <2>4. {BestFirst(s, field)[i] : i \in 1..n} = {s[order[i]] : i \in 1..n}
    BY <1>6
  <2>5. {s[order[i]] : i \in 1..n} = {s[i] : i \in 1..n}
    BY <2>1, <2>2
  <2> QED
    BY <2>3, <2>4, <2>5
<1>9. Rearranges(BestFirst(s, field), s)
  <2>1. \A i, j \in 1..n : order[i] = order[j] => i = j
    BY <1>4
  <2>2. \A k \in 1..n : \E i \in 1..n : order[i] = k
    BY <1>4
  <2>3. order \in [1..n -> 1..n]
    BY <1>4
  <2> QED
    BY <1>6, <2>1, <2>2, <2>3 DEF Rearranges, n
<1>10. Descending(BestFirst(s, field), field)
  BY <1>6, <1>7 DEF Descending
<1> QED
  BY <1>1, <1>6, <1>8, <1>9, <1>10 DEF n

-----------------------------------------------------------------------------
\* Lists without repetition.

Distinct(s) == \A i, j \in DOMAIN s : s[i] = s[j] => i = j

Values(s, field) == \A i \in DOMAIN s : s[i][field] \in Int

LEMMA ToSetIs ==
  ASSUME NEW T, NEW s \in Seq(T)
  PROVE  /\ Len(s) \in Nat /\ DOMAIN s = 1..Len(s) /\ ToSet(s) \subseteq T
         /\ \A i \in DOMAIN s : s[i] \in ToSet(s)
         /\ \A x \in ToSet(s) : \E i \in DOMAIN s : s[i] = x
  BY DEF ToSet

\* As many elements of a list without repetition as places.
LEMMA ImageIs ==
  ASSUME NEW T, NEW s \in Seq(T), Distinct(s), NEW places, places \subseteq DOMAIN s
  PROVE  /\ IsFiniteSet(Images(s, places))
         /\ Cardinality(Images(s, places)) = Cardinality(places)
         /\ IsFiniteSet(places) /\ Cardinality(places) \in Nat
<1> DEFINE f == [i \in places |-> s[i]]
           U == Images(s, places)
<1>1. IsFiniteSet(places) /\ Cardinality(places) \in Nat
  BY AtIs
<1>2. f \in Bijection(places, U)
  BY DEF Bijection, Injection, Surjection, IsInjective, Images, Distinct
<1>3. ExistsBijection(places, U)
  BY <1>2 DEF ExistsBijection
<1> QED
  BY <1>1, <1>3, FS_Bijection

LEMMA SizeIs ==
  ASSUME NEW T, NEW s \in Seq(T), Distinct(s)
  PROVE  IsFiniteSet(ToSet(s)) /\ Cardinality(ToSet(s)) = Len(s)
<1>1. Len(s) \in Nat /\ DOMAIN s = 1..Len(s)
  OBVIOUS
<1>2. ToSet(s) = Images(s, DOMAIN s)
  BY DEF ToSet, Images
<1>3. Cardinality(1..Len(s)) = Len(s)
  BY <1>1, FS_Interval
<1> QED
  BY <1>1, <1>2, <1>3, ImageIs

LEMMA AtKeeps ==
  ASSUME NEW T, NEW s \in Seq(T), NEW places, places \subseteq DOMAIN s
  PROVE  /\ Distinct(s) => Distinct(At(s, places))
         /\ \A field : Descending(s, field) => Descending(At(s, places), field)
<1> DEFINE n == Cardinality(places)
           order == Ascending(places)
           t == At(s, places)
<1>1. n \in Nat /\ DOMAIN s \subseteq Int
  BY AtIs
<1>2. order \in [1..n -> places]
  BY AtIs
<1>3. \A i, j \in 1..n : i < j => order[i] < order[j]
  BY AtIs
<1>4. DOMAIN t = 1..n /\ \A i \in 1..n : t[i] = s[order[i]]
  BY AtIs
<1> HIDE DEF n, order, t
<1>5. \A i \in 1..n : order[i] \in DOMAIN s /\ order[i] \in Int
  BY <1>1, <1>2
<1>6. ASSUME Distinct(s), NEW i \in 1..n, NEW j \in 1..n, t[i] = t[j] PROVE i = j
  <2>1. order[i] = order[j]
    BY <1>4, <1>5, <1>6 DEF Distinct
  <2>2. ~(i < j) /\ ~(j < i)
    BY <1>3, <1>5, <2>1
  <2> QED
    BY <1>1, <2>2
<1>7. ASSUME NEW field, Descending(s, field), NEW i \in 1..n, NEW j \in 1..n, i < j
      PROVE  t[i][field] >= t[j][field]
  <2>1. order[i] < order[j] /\ order[i] \in DOMAIN s /\ order[j] \in DOMAIN s
    BY <1>3, <1>5, <1>7
  <2>2. s[order[i]][field] >= s[order[j]][field]
    BY <1>7, <2>1 DEF Descending
  <2> QED
    BY <1>4, <2>2
<1>8. Distinct(s) => Distinct(t)
  BY <1>4, <1>6 DEF Distinct
<1>9. \A field : Descending(s, field) => Descending(t, field)
  BY <1>4, <1>7 DEF Descending
<1> QED
  BY <1>8, <1>9 DEF t

\* The elements of a list that satisfy what its places are chosen by.
LEMMA AtHas ==
  ASSUME NEW T, NEW s \in Seq(T), NEW places, places \subseteq DOMAIN s
  PROVE  /\ At(s, places) \in Seq(T)
         /\ \A x \in ToSet(At(s, places)) : \E i \in places : s[i] = x
         /\ \A i \in places : s[i] \in ToSet(At(s, places))
<1>1. At(s, places) \in Seq(T) /\ ToSet(At(s, places)) = Images(s, places)
  BY AtIs
<1> QED
  BY <1>1 DEF Images

LEMMA FirstKeeps ==
  ASSUME NEW T, NEW s \in Seq(T), NEW n \in Nat
  PROVE  Distinct(s) => Distinct(First(n, s))
<1>1. DOMAIN First(n, s) \subseteq DOMAIN s /\ \A i \in DOMAIN First(n, s) : First(n, s)[i] = s[i]
  BY FirstIs
<1> QED
  BY <1>1 DEF Distinct

LEMMA ConcatKeeps ==
  ASSUME NEW T, NEW s \in Seq(T), NEW t \in Seq(T)
  PROVE  /\ s \o t \in Seq(T) /\ Len(s \o t) = Len(s) + Len(t)
         /\ ToSet(s \o t) = ToSet(s) \cup ToSet(t)
         /\ Distinct(s) /\ Distinct(t) /\ ToSet(s) \cap ToSet(t) = {} => Distinct(s \o t)
<1> DEFINE u == s \o t
           n == Len(s)
           m == Len(t)
<1>1. n \in Nat /\ m \in Nat /\ DOMAIN s = 1..n /\ DOMAIN t = 1..m
  OBVIOUS
<1>2. u \in Seq(T) /\ Len(u) = n + m /\ \A i \in 1..(n + m) : u[i] = IF i <= n THEN s[i] ELSE t[i - n]
  BY ConcatProperties
<1>3. DOMAIN u = 1..(n + m)
  BY <1>2
<1> HIDE DEF u, n, m
<1>4. \A i \in 1..n : i \in 1..(n + m) /\ u[i] = s[i]
  BY <1>1, <1>2
<1>5. \A i \in 1..m : n + i \in 1..(n + m) /\ u[n + i] = t[i]
  <2> SUFFICES ASSUME NEW i \in 1..m PROVE n + i \in 1..(n + m) /\ u[n + i] = t[i]
    OBVIOUS
  <2>1. n + i \in 1..(n + m) /\ ~(n + i <= n) /\ (n + i) - n = i
    BY <1>1
  <2> QED
    BY <1>2, <2>1
<1>6. \A i \in 1..(n + m) : i \in 1..n \/ (i - n \in 1..m /\ ~(i \in 1..n) /\ u[i] = t[i - n])
  BY <1>1, <1>2
<1>7. ToSet(u) = ToSet(s) \cup ToSet(t)
  <2>1. \A x \in ToSet(u) : x \in ToSet(s) \cup ToSet(t)
    BY <1>1, <1>3, <1>4, <1>6 DEF ToSet
  <2>2. \A x \in ToSet(s) : x \in ToSet(u)
    BY <1>1, <1>3, <1>4 DEF ToSet
  <2>3. \A x \in ToSet(t) : x \in ToSet(u)
    BY <1>1, <1>3, <1>5 DEF ToSet
  <2> QED
    BY <2>1, <2>2, <2>3
<1>8. ASSUME Distinct(s), Distinct(t), ToSet(s) \cap ToSet(t) = {}, NEW i \in 1..(n + m),
             NEW j \in 1..(n + m), u[i] = u[j]
      PROVE  i = j
  <2>1. \A k \in 1..n : s[k] \in ToSet(s)
    BY <1>1 DEF ToSet
  <2>2. \A k \in 1..m : t[k] \in ToSet(t)
    BY <1>1 DEF ToSet
  <2>3. CASE i \in 1..n /\ j \in 1..n
    BY <1>1, <1>4, <1>8, <2>3 DEF Distinct
  <2>4. CASE ~(i \in 1..n) /\ ~(j \in 1..n)
    <3>1. i - n \in 1..m /\ j - n \in 1..m /\ t[i - n] = t[j - n]
      BY <1>6, <1>8, <2>4
    <3>2. i - n = j - n
      BY <1>1, <1>8, <3>1 DEF Distinct
    <3> QED
      BY <1>1, <3>2
  <2>5. CASE i \in 1..n /\ ~(j \in 1..n)
    <3>1. u[i] \in ToSet(s)
      BY <1>4, <2>1, <2>5
    <3>2. u[j] \in ToSet(t)
      BY <1>6, <2>2, <2>5
    <3> QED
      BY <1>8, <3>1, <3>2
  <2>6. CASE ~(i \in 1..n) /\ j \in 1..n
    <3>1. u[j] \in ToSet(s)
      BY <1>4, <2>1, <2>6
    <3>2. u[i] \in ToSet(t)
      BY <1>6, <2>2, <2>6
    <3> QED
      BY <1>8, <3>1, <3>2
  <2> QED
    BY <2>3, <2>4, <2>5, <2>6
<1>9. Distinct(s) /\ Distinct(t) /\ ToSet(s) \cap ToSet(t) = {} => Distinct(u)
  BY <1>3, <1>8 DEF Distinct
<1> QED
  BY <1>2, <1>7, <1>9 DEF u, n, m

LEMMA BestFirstKeeps ==
  ASSUME NEW T, NEW s \in Seq(T), NEW field, Values(s, field)
  PROVE  /\ Distinct(s) => Distinct(BestFirst(s, field))
         /\ BestFirst(s, field) \in Seq(T) /\ ToSet(BestFirst(s, field)) = ToSet(s)
         /\ Descending(BestFirst(s, field), field)
         /\ Len(BestFirst(s, field)) = Len(s)
         /\ \A other : Values(s, other) => Values(BestFirst(s, field), other)
<1> DEFINE t == BestFirst(s, field)
<1>1. \A i \in DOMAIN s : s[i][field] \in Int
  BY DEF Values
<1>2. Len(s) \in Nat /\ DOMAIN s = 1..Len(s) /\ DOMAIN t = 1..Len(s) /\ Rearranges(t, s)
  BY <1>1, BestFirstIs
<1>3. t \in Seq(T) /\ ToSet(t) = ToSet(s) /\ Descending(t, field) /\ Len(t) = Len(s)
  BY <1>1, BestFirstIs
<1> HIDE DEF t
<1>4. PICK order \in [1..Len(s) -> 1..Len(s)] :
        /\ \A i, j \in 1..Len(s) : order[i] = order[j] => i = j
        /\ \A i \in 1..Len(s) : t[i] = s[order[i]]
  BY <1>2 DEF Rearranges
<1>5. Distinct(s) => Distinct(t)
  BY <1>2, <1>4 DEF Distinct
<1>6. \A other : Values(s, other) => Values(t, other)
  BY <1>2, <1>4 DEF Values
<1> QED
  BY <1>3, <1>5, <1>6 DEF t

-----------------------------------------------------------------------------
\* A function on a..n may be defined by its first value and a step, which is a function too.
Steps(T) == [Int \X T -> T]

Recursive(f, a, n, T, base, step) ==
    f \in [a..n -> T] /\ \A i \in a..n : f[i] = IF i = a THEN base ELSE step[<<i, f[i - 1]>>]

LEMMA RecursionExists ==
  ASSUME NEW T, NEW a \in Int, NEW n \in Int, NEW base \in T, NEW step \in Steps(T)
  PROVE  \E f : Recursive(f, a, n, T, base, step)
<1> USE DEF Steps
<1> SUFFICES \E f \in [a..n -> T] : \A i \in a..n : f[i] = IF i = a THEN base ELSE step[<<i, f[i - 1]>>]
  BY DEF Recursive
<1> DEFINE Val(f, i) == IF i = a THEN base ELSE step[<<i, f[i - 1]>>]
           G == {k \in Nat : \E f \in [a..(a + k) -> T] : \A i \in a..(a + k) : f[i] = Val(f, i)}
<1>1. 0 \in G
  <2>1. [i \in a..(a + 0) |-> base] \in [a..(a + 0) -> T]
    OBVIOUS
  <2>2. \A i \in a..(a + 0) : i = a
    OBVIOUS
  <2> QED
    BY <2>1, <2>2
<1>2. ASSUME NEW k \in Nat, k \in G PROVE k + 1 \in G
  <2>1. PICK f \in [a..(a + k) -> T] : \A i \in a..(a + k) : f[i] = Val(f, i)
    BY <1>2
  <2> DEFINE g == [i \in a..(a + (k + 1)) |-> IF i = a + k + 1 THEN step[<<i, f[i - 1]>>] ELSE f[i]]
  <2>2. f[a + k] \in T
    OBVIOUS
  <2>3. step[<<a + k + 1, f[a + k]>>] \in T
    BY <2>2
  <2>4. g \in [a..(a + (k + 1)) -> T]
    BY <2>3
  <2>5. \A i \in a..(a + k) : g[i] = f[i] /\ (i # a => i - 1 \in a..(a + k))
    OBVIOUS
  <2>6. ASSUME NEW i \in a..(a + (k + 1)) PROVE g[i] = Val(g, i)
    <3>1. CASE i \in a..(a + k)
      BY <2>1, <2>5, <3>1
    <3>2. CASE i = a + k + 1
      <4>1. g[i] = step[<<i, f[i - 1]>>] /\ i - 1 \in a..(a + k) /\ i # a
        BY <3>2
      <4> QED
        BY <2>5, <4>1
    <3> QED
      BY <3>1, <3>2
  <2> HIDE DEF g
  <2> QED
    BY <2>4, <2>6
<1>3. \A k \in Nat : k \in G
  <2> HIDE DEF G
  <2> QED
    BY <1>1, <1>2, NatSetInduction
<1>4. CASE n >= a
  <2>1. n - a \in Nat /\ a + (n - a) = n
    BY <1>4
  <2>2. n - a \in G
    BY <1>3, <2>1
  <2>3. PICK f \in [a..n -> T] : \A i \in a..n : f[i] = Val(f, i)
    BY <2>1, <2>2
  <2> QED
    BY <2>3
<1>5. CASE n < a
  <2>1. a..n = {}
    BY <1>5
  <2> DEFINE f == [i \in a..n |-> base]
  <2>2. f \in [a..n -> T] /\ \A i \in a..n : f[i] = Val(f, i)
    BY <2>1
  <2> HIDE DEF f
  <2> QED
    BY <2>2
<1> QED
  BY <1>4, <1>5

-----------------------------------------------------------------------------
\* select_evidence: a pass over the ranked passages.

Of(ranked, c, i) == {j \in c : ranked[j].paper = ranked[i].paper}

Below(chosen, c, i) == chosen \cup {j \in c : j < i}

Capped(ranked, c) == \A i \in DOMAIN ranked : Cardinality(Of(ranked, c, i)) <= MaxPerPaper

\* What a pass does up to the k-th passage: it only adds, while there is room, and what it does
\* not add had no room when its turn came.
Passed(ranked, chosen, limit, some, c, k) ==
    /\ chosen \subseteq c /\ c \subseteq chosen \cup (some \cap 1..k)
    /\ c # chosen => Cardinality(c) <= limit
    /\ Capped(ranked, chosen) => Capped(ranked, c)
    /\ \A i \in (some \cap 1..k) \ c :
         \/ Cardinality(Below(chosen, c, i)) >= limit
         \/ Cardinality(Of(ranked, Below(chosen, c, i), i)) >= MaxPerPaper

LEMMA TakingIs ==
  ASSUME NEW T, NEW ranked \in Seq(T), NEW chosen \in SUBSET DOMAIN ranked, NEW limit \in Int, NEW some
  PROVE  /\ Taking(ranked, chosen, limit, some) \in SUBSET DOMAIN ranked
         /\ Passed(ranked, chosen, limit, some, Taking(ranked, chosen, limit, some), Len(ranked))
<1> DEFINE n == Len(ranked)
           D == 1..n
           perPaper(c, i) == Cardinality({j \in c : ranked[j].paper = ranked[i].paper})
           take(c, i) == IF /\ Cardinality(c) < limit /\ i \in some \ c
                            /\ perPaper(c, i) < MaxPerPaper
                         THEN c \cup {i} ELSE c
           upTo == CHOOSE upTo : upTo = [i \in 0..n |-> IF i = 0 THEN chosen ELSE take(upTo[i - 1], i)]
<1>1. n \in Nat /\ DOMAIN ranked = D /\ chosen \in SUBSET D
  OBVIOUS
<1>2. Taking(ranked, chosen, limit, some) = upTo[n]
  BY DEF Taking
<1>3. IsFiniteSet(D) /\ MaxPerPaper \in Nat
  BY <1>1, FS_Interval, RetrievalAssumption
<1>4. upTo = [i \in 0..n |-> IF i = 0 THEN chosen ELSE take(upTo[i - 1], i)]
  <2> DEFINE step == [x \in Int \X SUBSET D |-> IF x[1] \in D THEN take(x[2], x[1]) ELSE x[2]]
  <2>1. step \in [Int \X SUBSET D -> SUBSET D]
    <3>1. \A x \in Int \X SUBSET D : x[1] \in D => take(x[2], x[1]) \in SUBSET D
      OBVIOUS
    <3> HIDE DEF take
    <3> QED
      BY <3>1
  <2>2. PICK f \in [0..n -> SUBSET D] : \A i \in 0..n : f[i] = IF i = 0 THEN chosen ELSE step[<<i, f[i - 1]>>]
    <3> DEFINE PD == SUBSET D
               zero == 0
    <3>1. zero \in Int /\ n \in Int /\ chosen \in PD /\ step \in Steps(PD)
      BY <1>1, <2>1 DEF Steps
    <3> HIDE DEF step, n, PD, zero, take
    <3>2. PICK f : Recursive(f, zero, n, PD, chosen, step)
      BY <3>1, RecursionExists
    <3> QED
      BY <3>2 DEF PD, zero, Recursive
  <2>3. \A i \in 0..n : i # 0 => step[<<i, f[i - 1]>>] = take(f[i - 1], i)
    <3> SUFFICES ASSUME NEW i \in 0..n, i # 0 PROVE step[<<i, f[i - 1]>>] = take(f[i - 1], i)
      OBVIOUS
    <3>1. i \in D /\ f[i - 1] \in SUBSET D /\ <<i, f[i - 1]>> \in Int \X SUBSET D
      BY <1>1
    <3> HIDE DEF take
    <3> QED
      BY <3>1
  <2>4. f = [i \in 0..n |-> IF i = 0 THEN chosen ELSE take(f[i - 1], i)]
    <3> HIDE DEF step, take
    <3> QED
      BY <2>2, <2>3
  <2> HIDE DEF take
  <2> QED
    BY <2>4
<1>5. upTo[0] = chosen /\ \A i \in 1..n : upTo[i] = take(upTo[i - 1], i)
  <2> HIDE DEF take, upTo
  <2> QED
    BY <1>1, <1>4
<1> DEFINE P(c, k) == c \in SUBSET D /\ Passed(ranked, chosen, limit, some, c, k)
           G == {k \in Nat : k <= n => P(upTo[k], k)}
<1>6. P(chosen, 0)
  BY <1>1 DEF Passed
<1>7. ASSUME NEW k \in Nat, k + 1 <= n, NEW c, P(c, k) PROVE P(take(c, k + 1), k + 1)
  <2>1. k + 1 \in D /\ c \in SUBSET D /\ chosen \subseteq c /\ c \subseteq chosen \cup (some \cap 1..k)
    BY <1>1, <1>7 DEF Passed
  <2>2. IsFiniteSet(c) /\ Cardinality(c) \in Nat
    BY <1>3, <2>1, Parts
  <2>3. \A i \in D : IsFiniteSet(Of(ranked, c, i)) /\ Cardinality(Of(ranked, c, i)) \in Nat
    <3>1. \A i \in D : Of(ranked, c, i) \subseteq c
      BY DEF Of
    <3> QED
      BY <2>2, <3>1, Parts
  <2>4. CASE ~(Cardinality(c) < limit /\ k + 1 \in some \ c /\ Cardinality(Of(ranked, c, k + 1)) < MaxPerPaper)
    <3>1. take(c, k + 1) = c
      BY <2>4 DEF Of
    <3>2. c \subseteq chosen \cup (some \cap 1..(k + 1))
      BY <2>1
    <3>3. ASSUME NEW i \in (some \cap 1..(k + 1)) \ c
          PROVE  \/ Cardinality(Below(chosen, c, i)) >= limit
                 \/ Cardinality(Of(ranked, Below(chosen, c, i), i)) >= MaxPerPaper
      <4>1. CASE i \in 1..k
        BY <1>7, <3>3, <4>1 DEF Passed
      <4>2. CASE i = k + 1
        <5>1. Below(chosen, c, i) = c
          BY <2>1, <4>2 DEF Below
        <5>2. ~(Cardinality(c) < limit) \/ ~(Cardinality(Of(ranked, c, k + 1)) < MaxPerPaper)
          BY <2>4, <3>3, <4>2
        <5> QED
          BY <1>3, <2>1, <2>2, <2>3, <4>2, <5>1, <5>2
      <4> QED
        BY <4>1, <4>2
    <3> QED
      BY <1>7, <2>1, <3>1, <3>2, <3>3 DEF Passed
  <2>5. CASE Cardinality(c) < limit /\ k + 1 \in some \ c /\ Cardinality(Of(ranked, c, k + 1)) < MaxPerPaper
    <3> DEFINE d == c \cup {k + 1}
    <3>1. take(c, k + 1) = d
      BY <2>5 DEF Of
    <3>2. d \in SUBSET D /\ chosen \subseteq d /\ d \subseteq chosen \cup (some \cap 1..(k + 1))
      BY <2>1, <2>5
    <3>3. Cardinality(d) <= limit
      <4>1. Cardinality(d) = Cardinality(c) + 1
        BY <2>2, <2>5, FS_AddElement
      <4> QED
        BY <2>2, <2>5, <4>1
    <3>4. ASSUME Capped(ranked, c), NEW i \in D PROVE Cardinality(Of(ranked, d, i)) <= MaxPerPaper
      <4>1. CASE ranked[k + 1].paper = ranked[i].paper
        <5>1. Of(ranked, d, i) = Of(ranked, c, k + 1) \cup {k + 1} /\ k + 1 \notin Of(ranked, c, k + 1)
          BY <2>5, <4>1 DEF Of
        <5>2. Cardinality(Of(ranked, d, i)) = Cardinality(Of(ranked, c, k + 1)) + 1
          BY <2>1, <2>3, <5>1, FS_AddElement
        <5> QED
          BY <1>3, <2>1, <2>3, <2>5, <5>2
      <4>2. CASE ranked[k + 1].paper # ranked[i].paper
        <5>1. Of(ranked, d, i) = Of(ranked, c, i)
          BY <4>2 DEF Of
        <5> QED
          BY <1>1, <3>4, <5>1 DEF Capped
      <4> QED
        BY <4>1, <4>2
    <3>5. ASSUME NEW i \in (some \cap 1..(k + 1)) \ d
          PROVE  \/ Cardinality(Below(chosen, d, i)) >= limit
                 \/ Cardinality(Of(ranked, Below(chosen, d, i), i)) >= MaxPerPaper
      <4>1. i \in (some \cap 1..k) \ c /\ i < k + 1
        BY <3>5
      <4>2. Below(chosen, d, i) = Below(chosen, c, i)
        BY <4>1 DEF Below
      <4> QED
        BY <1>7, <4>1, <4>2 DEF Passed
    <3>6. Capped(ranked, chosen) => Capped(ranked, d)
      BY <1>1, <1>7, <3>4 DEF Passed, Capped
    <3> HIDE DEF d, take
    <3> QED
      BY <3>1, <3>2, <3>3, <3>5, <3>6 DEF Passed
  <2> QED
    BY <2>4, <2>5
<1>8. \A k \in Nat : k \in G
  <2> HIDE DEF P, take, upTo
  <2>1. 0 \in G
    BY <1>5, <1>6
  <2>2. ASSUME NEW k \in Nat, k \in G PROVE k + 1 \in G
    <3> SUFFICES ASSUME k + 1 <= n PROVE P(upTo[k + 1], k + 1)
      OBVIOUS
    <3>1. P(upTo[k], k)
      BY <1>1, <2>2
    <3>2. k + 1 \in 1..n /\ k + 1 - 1 = k
      BY <1>1
    <3> QED
      BY <1>5, <1>7, <3>1, <3>2
  <2> HIDE DEF G
  <2> QED
    BY <2>1, <2>2, NatSetInduction
<1>9. P(upTo[n], n)
  <2> HIDE DEF n, P, upTo
  <2>1. n \in G
    <3> HIDE DEF G
    <3> QED
      BY <1>1, <1>8
  <2> QED
    BY <1>1, <2>1
<1> QED
  BY <1>1, <1>2, <1>9

\* What EvidenceInv says of the passages that are chosen from some.
ChosenWell(ps, from) ==
    LET in      == ToSet(ps)
        out     == ToSet(from) \ in
        of(p)   == {q \in in : q.paper = p.paper}
        rel     == {p \in in : p.score >= PassageMin}
        detail  == {p \in in \ rel : p.score >= DetailMin /\ \E q \in rel : q.paper = p.paper}
    IN  /\ Cardinality(in) = Len(ps) /\ Len(ps) <= PassagesForAnswer
        /\ \A i, j \in DOMAIN ps : i < j => ps[i].score >= ps[j].score
        /\ \A p \in in : Cardinality(of(p)) <= MaxPerPaper
        /\ \A p \in out : p.score >= PassageMin =>
               \/ Cardinality({q \in of(p) : q.score >= p.score}) = MaxPerPaper
               \/ Cardinality({q \in in : q.score >= p.score}) = PassagesForAnswer
        /\ \/ in = rel \cup detail /\ Cardinality(detail) <= DetailMax
           \/ Cardinality(in) <= MinPassagesKept
        /\ Cardinality(in) < Min({MinPassagesKept, PassagesForAnswer}) =>
               \A p \in out : Cardinality(of(p)) = MaxPerPaper

LEMMA EvidenceIs ==
  ASSUME NEW T, NEW s \in Seq(T), \A i \in DOMAIN s : s[i].score \in Int,
         \A i, j \in DOMAIN s : s[i] = s[j] => i = j
  PROVE  SelectEvidence(s) \in Seq(T) /\ ChosenWell(SelectEvidence(s), s)
<1> DEFINE r == BestFirst(s, "score")
           n == Len(s)
           D == 1..n
           from(least) == {i \in DOMAIN r : r[i].score >= least}
           fitR == from(PassageMin)
           R == Taking(r, {}, PassagesForAnswer, fitR)
           papers == {r[i].paper : i \in R}
           roomD == Min({PassagesForAnswer, Cardinality(R) + DetailMax})
           fitD == {i \in from(DetailMin) : r[i].paper \in papers}
           E == Taking(r, R, roomD, fitD)
           roomF == Min({MinPassagesKept, PassagesForAnswer})
           F == Taking(r, E, roomF, DOMAIN r)
<1>0. PassagesForAnswer \in Nat /\ MinPassagesKept \in Nat /\ MaxPerPaper \in Nat /\ DetailMax \in Nat
  BY RetrievalAssumption
<1>1. SelectEvidence(s) = At(r, F)
  BY DEF SelectEvidence
<1>2. /\ n \in Nat /\ r \in Seq(T) /\ Len(r) = n /\ DOMAIN r = D /\ ToSet(r) = ToSet(s)
      /\ \A i \in D : r[i].score \in Int
      /\ \A i, j \in D : i < j => r[i].score >= r[j].score
      /\ \A i, j \in D : r[i] = r[j] => i = j
  <2>1. /\ Len(s) \in Nat /\ DOMAIN s = 1..Len(s)
        /\ r \in Seq(T) /\ Len(r) = Len(s) /\ DOMAIN r = 1..Len(s)
        /\ Rearranges(r, s) /\ Descending(r, "score")
        /\ ToSet(r) = ToSet(s)
    <3>1. \A i \in DOMAIN s : s[i]["score"] \in Int
      OBVIOUS
    <3> QED
      BY <3>1, BestFirstIs
  <2> HIDE DEF r
  <2>2. PICK order \in [1..Len(s) -> 1..Len(s)] :
          /\ \A i, j \in 1..Len(s) : order[i] = order[j] => i = j
          /\ \A i \in 1..Len(s) : r[i] = s[order[i]]
    BY <2>1 DEF Rearranges
  <2>3. \A i \in D : r[i].score \in Int
    BY <2>1, <2>2
  <2>4. \A i, j \in D : r[i] = r[j] => i = j
    BY <2>1, <2>2
  <2>5. \A i, j \in D : i < j => r[i].score >= r[j].score
    BY <2>1 DEF Descending
  <2> QED
    BY <2>1, <2>3, <2>4, <2>5
<1>3. roomD = (IF PassagesForAnswer <= Cardinality(R) + DetailMax THEN PassagesForAnswer ELSE Cardinality(R) + DetailMax)
      /\ roomF = (IF MinPassagesKept <= PassagesForAnswer THEN MinPassagesKept ELSE PassagesForAnswer)
      /\ R \in SUBSET D /\ IsFiniteSet(R) /\ Cardinality(R) \in Nat
      /\ Passed(r, {}, PassagesForAnswer, fitR, R, n)
  <2> HIDE DEF r, n, fitR
  <2>1. {} \in SUBSET DOMAIN r /\ PassagesForAnswer \in Int
    BY <1>0
  <2>2. R \in SUBSET D /\ Passed(r, {}, PassagesForAnswer, fitR, R, n)
    <3>1. r \in Seq(T) /\ Len(r) = n /\ DOMAIN r = D
      BY <1>2
    <3>2. /\ Taking(r, {}, PassagesForAnswer, fitR) \in SUBSET DOMAIN r
          /\ Passed(r, {}, PassagesForAnswer, fitR, Taking(r, {}, PassagesForAnswer, fitR), Len(r))
      BY <2>1, <3>1, TakingIs
    <3> QED
      BY <3>1, <3>2 DEF Images
  <2>3. IsFiniteSet(R) /\ Cardinality(R) \in Nat
    BY <1>2, <2>2, AtIs
  <2> HIDE DEF R
  <2>4. Cardinality(R) + DetailMax \in Int
    BY <1>0, <2>3
  <2> QED
    BY <1>0, <2>2, <2>3, <2>4, LesserOfTwo
<1>4. E \in SUBSET D /\ IsFiniteSet(E) /\ Cardinality(E) \in Nat /\ Passed(r, R, roomD, fitD, E, n)
  <2> HIDE DEF r, n, R, fitD, roomD
  <2>1. R \in SUBSET DOMAIN r /\ roomD \in Int
    BY <1>0, <1>2, <1>3
  <2>2. E \in SUBSET D /\ Passed(r, R, roomD, fitD, E, n)
    BY <1>2, <2>1, TakingIs
  <2> QED
    BY <1>2, <2>2, AtIs
<1>5. F \in SUBSET D /\ IsFiniteSet(F) /\ Cardinality(F) \in Nat /\ Passed(r, E, roomF, D, F, n)
  <2> HIDE DEF r, n, E, roomF
  <2>1. E \in SUBSET DOMAIN r /\ roomF \in Int
    BY <1>0, <1>2, <1>3, <1>4
  <2>2. F \in SUBSET D /\ Passed(r, E, roomF, DOMAIN r, F, n)
    BY <1>2, <2>1, TakingIs
  <2> QED
    BY <1>2, <2>2, AtIs
<1> DEFINE ps == At(r, F)
<1> HIDE DEF r, n, R, E, F, fitR, fitD, papers, roomD, roomF
<1>6. /\ ps \in Seq(T) /\ Len(ps) = Cardinality(F) /\ DOMAIN ps = 1..Cardinality(F)
      /\ ToSet(ps) = Images(r, F)
      /\ \A i, j \in DOMAIN ps : i < j => ps[i].score >= ps[j].score
  <2>1. /\ Ascending(F) \in [1..Cardinality(F) -> F]
        /\ \A i, j \in 1..Cardinality(F) : i < j => Ascending(F)[i] < Ascending(F)[j]
        /\ ps \in Seq(T) /\ Len(ps) = Cardinality(F) /\ DOMAIN ps = 1..Cardinality(F)
        /\ \A i \in 1..Cardinality(F) : ps[i] = r[Ascending(F)[i]]
        /\ ToSet(ps) = Images(r, F)
    BY <1>2, <1>5, AtIs
  <2> HIDE DEF ps
  <2>2. ASSUME NEW i \in 1..Cardinality(F), NEW j \in 1..Cardinality(F), i < j
        PROVE  ps[i].score >= ps[j].score
    <3>1. Ascending(F)[i] \in D /\ Ascending(F)[j] \in D /\ Ascending(F)[i] < Ascending(F)[j]
      BY <1>5, <2>1, <2>2
    <3> QED
      BY <1>2, <2>1, <3>1
  <2> QED
    BY <2>1, <2>2
\* Sets of passages are sets of places.
<1>7. ASSUME NEW A \in SUBSET D
      PROVE  /\ IsFiniteSet(Images(r, A)) /\ Cardinality(Images(r, A)) = Cardinality(A)
             /\ IsFiniteSet(A) /\ Cardinality(A) \in Nat
  <2>1. r \in Seq(T)
    BY <1>2
  <2>2. A \subseteq DOMAIN r
    BY <1>2, <1>7
  <2>3. Distinct(r)
    BY <1>2 DEF Distinct
  <2> QED
    BY <2>1, <2>2, <2>3, ImageIs
<1>8. R \subseteq E /\ E \subseteq F /\ E \subseteq R \cup fitD
  BY <1>3, <1>4, <1>5 DEF Passed
<1>9. Cardinality(R) <= PassagesForAnswer
  <2>1. CASE R = {}
    <3>1. \A x : x \notin R
      BY <2>1
    <3>2. Cardinality(R) = 0
      BY <3>1, NothingIn
    <3> QED
      BY <1>0, <3>2
  <2>2. CASE R # {}
    BY <1>3, <2>2 DEF Passed
  <2> QED
    BY <2>1, <2>2
<1>20. /\ roomD \in Int /\ roomD <= PassagesForAnswer /\ roomD <= Cardinality(R) + DetailMax
       /\ roomF \in Int /\ roomF <= PassagesForAnswer /\ roomF <= MinPassagesKept
  <2>1. Cardinality(R) \in Nat
    BY <1>3
  <2>2. roomD = (IF PassagesForAnswer <= Cardinality(R) + DetailMax THEN PassagesForAnswer ELSE Cardinality(R) + DetailMax)
    BY <1>3
  <2>3. roomF = (IF MinPassagesKept <= PassagesForAnswer THEN MinPassagesKept ELSE PassagesForAnswer)
    BY <1>3
  <2> QED
    BY <1>0, <2>1, <2>2, <2>3
<1>21. E # R => Cardinality(E) <= roomD
  BY <1>4 DEF Passed
<1>22. F # E => Cardinality(F) <= roomF
  BY <1>5 DEF Passed
<1>23. Cardinality(R) \in Nat /\ Cardinality(E) \in Nat /\ Cardinality(F) \in Nat
  BY <1>3, <1>4, <1>5
<1>24. Cardinality(E) <= PassagesForAnswer
  <2>1. CASE E = R
    BY <1>9, <2>1
  <2>2. CASE E # R
    BY <1>0, <1>20, <1>21, <1>23, <2>2
  <2> QED
    BY <2>1, <2>2
<1>25. Cardinality(F) <= PassagesForAnswer
  <2>1. CASE F = E
    BY <1>24, <2>1
  <2>2. CASE F # E
    BY <1>0, <1>20, <1>22, <1>23, <2>2
  <2> QED
    BY <2>1, <2>2
<1>10. Capped(r, E) /\ Capped(r, F)
  <2>1. Capped(r, {})
    <3>1. ASSUME NEW i \in DOMAIN r PROVE Cardinality(Of(r, {}, i)) <= MaxPerPaper
      <4>1. \A x : x \notin Of(r, {}, i)
        BY DEF Of
      <4>2. Cardinality(Of(r, {}, i)) = 0
        BY <4>1, NothingIn
      <4> QED
        BY <1>0, <4>2
    <3> QED
      BY <3>1 DEF Capped
  <2>2. Capped(r, R)
    BY <1>3, <2>1 DEF Passed
  <2>3. Capped(r, E)
    BY <1>4, <2>2 DEF Passed
  <2> QED
    BY <1>5, <2>3 DEF Passed
<1> DEFINE in == Images(r, F)
           of(p) == {q \in in : q.paper = p.paper}
           rel == {p \in in : p.score >= PassageMin}
           detail == {p \in in \ rel : p.score >= DetailMin /\ \E q \in rel : q.paper = p.paper}
<1>11. \A i \in D : of(r[i]) = Images(r, Of(r, F, i)) /\ Of(r, F, i) \subseteq F
         /\ Cardinality(Of(r, F, i)) <= MaxPerPaper
  <2> SUFFICES ASSUME NEW i \in D
               PROVE  of(r[i]) = Images(r, Of(r, F, i)) /\ Of(r, F, i) \subseteq F
                        /\ Cardinality(Of(r, F, i)) <= MaxPerPaper
    OBVIOUS
  <2>1. of(r[i]) = Images(r, Of(r, F, i)) /\ Of(r, F, i) \subseteq F
    BY DEF Of, Images
  <2>2. i \in DOMAIN r
    BY <1>2
  <2>3. Cardinality(Of(r, F, i)) <= MaxPerPaper
    BY <1>10, <2>2 DEF Capped
  <2> QED
    BY <2>1, <2>3
<1>12. \A i \in D : Cardinality(of(r[i])) = Cardinality(Of(r, F, i)) /\ Cardinality(of(r[i])) <= MaxPerPaper
                    /\ IsFiniteSet(of(r[i])) /\ Cardinality(of(r[i])) \in Nat
  BY <1>5, <1>7, <1>11
<1>13. IsFiniteSet(in) /\ Cardinality(in) = Cardinality(F)
  BY <1>5, <1>7
<1>14. \A p \in ToSet(s) \ in : \E i \in D \ F : p = r[i]
  BY <1>2, <1>5 DEF ToSet, Images
\* A relevant passage that is left out.
<1>15. ASSUME NEW i \in D \ F, r[i].score >= PassageMin
       PROVE  \/ Cardinality({q \in of(r[i]) : q.score >= r[i].score}) = MaxPerPaper
              \/ Cardinality({q \in in : q.score >= r[i].score}) = PassagesForAnswer
  <2> DEFINE before == Below({}, R, i)
  <2>1. i \in (fitR \cap 1..n) \ R
    BY <1>2, <1>8, <1>15 DEF fitR
  <2>2. Cardinality(before) >= PassagesForAnswer \/ Cardinality(Of(r, before, i)) >= MaxPerPaper
    BY <1>3, <2>1 DEF Passed
  <2>3. before \subseteq F /\ before \subseteq D /\ \A j \in before : r[j].score >= r[i].score
    BY <1>2, <1>3, <1>8 DEF Below
  <2>4. CASE Cardinality(before) >= PassagesForAnswer
    <3> DEFINE better == {q \in in : q.score >= r[i].score}
    <3>1. Images(r, before) \subseteq better /\ better \subseteq in
      BY <2>3 DEF Images
    <3>2. Cardinality(Images(r, before)) = Cardinality(before) /\ Cardinality(before) \in Nat
      BY <1>7, <2>3
    <3>3. IsFiniteSet(better) /\ Cardinality(better) \in Nat /\ Cardinality(better) <= Cardinality(F)
      <4> HIDE DEF better, in
      <4> QED
        BY <1>13, <3>1, Parts
    <3>4. Cardinality(Images(r, before)) <= Cardinality(better)
      <4> HIDE DEF better
      <4> QED
        BY <3>1, <3>3, Parts
    <3> HIDE DEF better
    <3>5. Cardinality(better) = PassagesForAnswer
      BY <1>0, <1>23, <1>25, <2>4, <3>2, <3>3, <3>4
    <3> QED
      BY <3>5 DEF better
  <2>5. CASE Cardinality(Of(r, before, i)) >= MaxPerPaper
    <3> DEFINE better == {q \in of(r[i]) : q.score >= r[i].score}
    <3>1. Of(r, before, i) \subseteq D /\ Images(r, Of(r, before, i)) \subseteq better
            /\ better \subseteq of(r[i])
      BY <2>3 DEF Of, Images
    <3>2. Cardinality(Images(r, Of(r, before, i))) = Cardinality(Of(r, before, i))
            /\ Cardinality(Of(r, before, i)) \in Nat
      BY <1>7, <3>1
    <3>3. IsFiniteSet(better) /\ Cardinality(better) \in Nat /\ Cardinality(better) <= MaxPerPaper
      <4>1. IsFiniteSet(of(r[i])) /\ Cardinality(of(r[i])) <= MaxPerPaper /\ Cardinality(of(r[i])) \in Nat
        BY <1>12
      <4> HIDE DEF better, of
      <4>2. IsFiniteSet(better) /\ Cardinality(better) \in Nat /\ Cardinality(better) <= Cardinality(of(r[i]))
        BY <3>1, <4>1, Parts
      <4> QED
        BY <1>0, <4>1, <4>2
    <3>4. Cardinality(Images(r, Of(r, before, i))) <= Cardinality(better)
      <4> HIDE DEF better
      <4> QED
        BY <3>1, <3>3, Parts
    <3> HIDE DEF better
    <3>5. Cardinality(better) = MaxPerPaper
      BY <1>0, <2>5, <3>2, <3>3, <3>4
    <3> QED
      BY <3>5 DEF better
  <2> QED
    BY <2>2, <2>4, <2>5
\* Nothing was added only to make up the minimum: what is not relevant is detail.
<1>16. ASSUME E = F PROVE in = rel \cup detail /\ Cardinality(detail) <= DetailMax
  <2>1. ASSUME NEW i \in E \ R PROVE ~(r[i].score >= PassageMin)
    <3> SUFFICES ASSUME r[i].score >= PassageMin PROVE FALSE
      OBVIOUS
    <3> DEFINE before == Below({}, R, i)
    <3>1. i \in (fitR \cap 1..n) \ R /\ i \in D
      BY <1>2, <1>4, <2>1 DEF fitR
    <3>2. Cardinality(before) >= PassagesForAnswer \/ Cardinality(Of(r, before, i)) >= MaxPerPaper
      BY <1>3, <3>1 DEF Passed
    <3>3. before \subseteq R /\ i \notin before
      BY <2>1 DEF Below
    <3>4. Cardinality(before) < Cardinality(E) /\ Cardinality(before) \in Nat
      <4>1. before \subseteq E /\ before # E
        BY <1>8, <2>1, <3>3
      <4> QED
        BY <1>4, <4>1, Parts
    <3>5. Cardinality(Of(r, before, i)) < Cardinality(Of(r, E, i)) /\ Cardinality(Of(r, before, i)) \in Nat
          /\ Cardinality(Of(r, E, i)) \in Nat
      <4>1. Of(r, before, i) \subseteq Of(r, E, i) /\ i \in Of(r, E, i) /\ i \notin Of(r, before, i)
        BY <1>8, <2>1, <3>3 DEF Of
      <4>2. Of(r, E, i) \subseteq E /\ Of(r, before, i) # Of(r, E, i)
        BY <4>1 DEF Of
      <4>3. IsFiniteSet(Of(r, E, i))
        BY <1>4, <4>2, Parts
      <4> QED
        BY <4>1, <4>2, <4>3, Parts
    <3>6. Cardinality(Of(r, E, i)) <= MaxPerPaper
      BY <1>2, <1>10, <3>1 DEF Capped
    <3> QED
      <4>1. CASE Cardinality(before) >= PassagesForAnswer
        BY <1>0, <1>23, <1>24, <3>4, <4>1
      <4>2. CASE Cardinality(Of(r, before, i)) >= MaxPerPaper
        BY <1>0, <3>5, <3>6, <4>2
      <4> QED
        BY <3>2, <4>1, <4>2
  <2>2. \A i \in R : r[i].score >= PassageMin
    BY <1>3 DEF Passed, fitR
  <2>3. rel = Images(r, R)
    BY <1>8, <1>16, <2>1, <2>2 DEF Images
  <2>4. \A i \in E \ R : r[i].score >= DetailMin /\ r[i].paper \in papers
    BY <1>8 DEF fitD
  <2>5. detail = Images(r, E \ R)
    <3>1. \A i \in E \ R : r[i] \in in /\ r[i] \notin rel /\ r[i].score >= DetailMin
            /\ \E q \in rel : q.paper = r[i].paper
      <4>1. \A i \in E \ R : r[i].paper \in papers
        BY <2>4
      <4>2. \A i \in E \ R : r[i] \in in /\ r[i] \notin rel
        BY <1>16, <2>1 DEF Images
      <4> QED
        BY <2>3, <2>4, <4>1, <4>2 DEF papers, Images
    <3>2. \A p \in in \ rel : \E i \in E \ R : p = r[i]
      BY <1>16, <2>3 DEF Images
    <3> HIDE DEF in, rel
    <3> QED
      BY <3>1, <3>2 DEF Images
  <2>6. in = rel \cup detail
    <3> HIDE DEF detail, rel
    <3> QED
      BY <1>8, <1>16, <2>3, <2>5 DEF Images
  <2>7. Cardinality(detail) <= DetailMax
    <3>1. Cardinality(E \ R) = Cardinality(E) - Cardinality(R)
      <4>1. IsFiniteSet(E \ R)
        BY <1>4, Parts
      <4>2. R \cap (E \ R) = {} /\ R \cup (E \ R) = E
        BY <1>8
      <4> HIDE DEF in
      <4>3. Cardinality(E) = Cardinality(R) + Cardinality(E \ R) - Cardinality({})
        BY <1>3, <4>1, <4>2, FS_Union
      <4>4. Cardinality({}) = 0 /\ Cardinality(E \ R) \in Nat
        BY <4>1, FS_EmptySet, FS_CardinalityType
      <4> QED
        BY <1>3, <1>4, <4>3, <4>4
    <3>2. E \ R \in SUBSET D
      BY <1>4
    <3>3. Cardinality(Images(r, E \ R)) = Cardinality(E \ R)
      BY <1>7, <3>2
    <3> HIDE DEF detail
    <3>4. Cardinality(E) - Cardinality(R) <= DetailMax
      <4>1. CASE E = R
        BY <1>0, <1>3, <4>1
      <4>2. CASE E # R
        BY <1>0, <1>20, <1>21, <1>23, <4>2
      <4> QED
        BY <4>1, <4>2
    <3> QED
      BY <2>5, <3>1, <3>3, <3>4
  <2> QED
    BY <2>6, <2>7
<1>17. (in = rel \cup detail /\ Cardinality(detail) <= DetailMax) \/ Cardinality(in) <= MinPassagesKept
  <2>1. CASE E = F
    BY <1>16, <2>1
  <2>2. CASE E # F
    <3>1. Cardinality(F) <= MinPassagesKept
      BY <1>0, <1>20, <1>22, <1>23, <2>2
    <3> QED
      BY <1>13, <3>1
  <2> QED
    BY <2>1, <2>2
\* Below the minimum.
<1>18. ASSUME Cardinality(in) < roomF, NEW i \in D \ F PROVE Cardinality(of(r[i])) = MaxPerPaper
  <2> DEFINE before == Below(E, F, i)
  <2>1. Cardinality(before) >= roomF \/ Cardinality(Of(r, before, i)) >= MaxPerPaper
    BY <1>5, <1>18 DEF Passed
  <2>2. before \subseteq F
    BY <1>8 DEF Below
  <2>3. Cardinality(before) <= Cardinality(F) /\ Cardinality(before) \in Nat
    BY <1>5, <2>2, Parts
  <2>4. Cardinality(Of(r, before, i)) <= Cardinality(Of(r, F, i)) /\ Cardinality(Of(r, before, i)) \in Nat
    <3>1. Of(r, before, i) \subseteq Of(r, F, i) /\ Of(r, F, i) \subseteq F
      BY <2>2 DEF Of
    <3> QED
      BY <1>5, <3>1, Parts
  <2>5. roomF \in Int
    BY <1>0, <1>3
  <2> QED
    BY <1>0, <1>5, <1>12, <1>13, <1>18, <2>1, <2>3, <2>4, <2>5
<1>19. ChosenWell(ps, s)
  <2>1. \A p \in in : \E i \in D : p = r[i]
    BY <1>5 DEF Images
  <2>2. \A p \in in : Cardinality(of(p)) <= MaxPerPaper
    <3> HIDE DEF in, of
    <3> QED
      BY <1>12, <2>1
  <2>3. \A p \in ToSet(s) \ in : p.score >= PassageMin =>
           \/ Cardinality({q \in of(p) : q.score >= p.score}) = MaxPerPaper
           \/ Cardinality({q \in in : q.score >= p.score}) = PassagesForAnswer
    <3> HIDE DEF in, of
    <3> QED
      BY <1>14, <1>15
  <2>4. Cardinality(in) < Min({MinPassagesKept, PassagesForAnswer})
          => \A p \in ToSet(s) \ in : Cardinality(of(p)) = MaxPerPaper
    <3> HIDE DEF in, of
    <3> QED
      BY <1>14, <1>18 DEF roomF
  <2>5. ToSet(ps) = in /\ Cardinality(in) = Len(ps) /\ Len(ps) <= PassagesForAnswer
    <3>1. Len(ps) = Cardinality(F) /\ ToSet(ps) = in
      BY <1>6
    <3> HIDE DEF ps, in
    <3> QED
      BY <1>13, <1>25, <3>1
  <2>6. \A i, j \in DOMAIN ps : i < j => ps[i].score >= ps[j].score
    BY <1>6
  <2> HIDE DEF ps
  <2> QED
    BY <1>17, <2>2, <2>3, <2>4, <2>5, <2>6 DEF ChosenWell
<1> QED
  BY <1>1, <1>6, <1>19

-----------------------------------------------------------------------------
\* apply_prior and keep_pinned.

LEMMA NonNegative ==
  ASSUME NEW x \in Int
  PROVE  Max({0, x}) \in Nat /\ Max({0, x}) >= x /\ Max({0, x}) = (IF 0 >= x THEN 0 ELSE x)
<1> DEFINE zero == 0
<1>1. zero \in Int
  OBVIOUS
<1> HIDE DEF zero
<1>2. Max({zero, x}) = IF zero >= x THEN zero ELSE x
  BY <1>1, LesserOfTwo
<1> QED
  BY <1>2 DEF zero

Pins(h, pinned) == h.id \in ToSet(pinned)

\* The pinned papers are in, and the others are the best that there is room for.
BestBeside(sel, hs, pinned) ==
    LET first == {h \in ToSet(hs) : Pins(h, pinned)}
        room  == Max({0, PapersForAnswer - Cardinality(first)})
        other == {h \in ToSet(sel) : ~Pins(h, pinned)}
    IN  /\ first \subseteq ToSet(sel)
        /\ room \in Nat /\ IsFiniteSet(other) /\ Cardinality(other) <= room
        /\ \A h \in other : \/ h.rerank >= MinScore
                            \/ /\ IsFiniteSet({g \in ToSet(hs) : g.final > h.final})
                               /\ Cardinality({g \in ToSet(hs) : g.final > h.final}) < MinPapersKept
        /\ \A p \in ToSet(hs) \ ToSet(sel) : p.rerank >= MinScore =>
               Cardinality(other) = room /\ \A h \in other : h.final >= p.final

LEMMA SelectedIs ==
  ASSUME NEW T, NEW hs \in Seq(T), Distinct(hs), Values(hs, "final"), NEW pinned
  PROVE  LET sel == KeepPinned(hs, AbovePrior(hs), pinned)
         IN  /\ sel \in Seq(T) /\ Distinct(sel) /\ ToSet(sel) \subseteq ToSet(hs) /\ Descending(sel, "final")
             /\ BestBeside(sel, hs, pinned)
<1> DEFINE r == BestFirst(hs, "final")
           high == {i \in DOMAIN r : i <= MinPapersKept \/ r[i].rerank >= MinScore}
           a == At(r, high)
           pl == {i \in DOMAIN hs : hs[i].id \in ToSet(pinned)}
           ph == At(hs, pl)
           ol == {i \in DOMAIN a : a[i].id \notin ToSet(pinned)}
           o == At(a, ol)
           room == Max({0, PapersForAnswer - Len(ph)})
           fo == First(room, o)
           cc == ph \o fo
           sel == BestFirst(cc, "final")
           first == {h \in ToSet(hs) : Pins(h, pinned)}
           other == {h \in ToSet(sel) : ~Pins(h, pinned)}
<1>0. PapersForAnswer \in Nat /\ MinPapersKept \in Nat
  BY RetrievalAssumption
<1>1. a = AbovePrior(hs) /\ sel = KeepPinned(hs, AbovePrior(hs), pinned)
  BY DEF AbovePrior, KeepPinned
<1>2. r \in Seq(T) /\ Distinct(r) /\ ToSet(r) = ToSet(hs) /\ Descending(r, "final") /\ Values(r, "final")
  BY BestFirstKeeps
<1> HIDE DEF r
<1>3. a \in Seq(T) /\ Distinct(a) /\ Descending(a, "final")
  <2>1. high \subseteq DOMAIN r
    OBVIOUS
  <2> HIDE DEF high
  <2> QED
    BY <1>2, <2>1, AtHas, AtKeeps
<1>4. \A h \in ToSet(a) : \E i \in high : r[i] = h
  <2>1. high \subseteq DOMAIN r
    OBVIOUS
  <2> HIDE DEF high
  <2> QED
    BY <1>2, <2>1, AtHas
<1>5. \A i \in high : r[i] \in ToSet(a)
  <2>1. high \subseteq DOMAIN r
    OBVIOUS
  <2> HIDE DEF high
  <2> QED
    BY <1>2, <2>1, AtHas
<1>6. \A h \in ToSet(r) : \E i \in DOMAIN r : r[i] = h
  BY <1>2, ToSetIs
<1>7. DOMAIN r = 1..Len(r) /\ Len(r) \in Nat /\ \A i \in DOMAIN r : r[i] \in ToSet(r)
  BY <1>2, ToSetIs
<1>8. ToSet(a) \subseteq ToSet(hs)
  BY <1>2, <1>4, <1>7
<1>9. ph \in Seq(T) /\ Distinct(ph) /\ ToSet(ph) = first
  <2>1. pl \subseteq DOMAIN hs
    OBVIOUS
  <2>2. /\ At(hs, pl) \in Seq(T)
        /\ \A x \in ToSet(At(hs, pl)) : \E i \in pl : hs[i] = x
        /\ \A i \in pl : hs[i] \in ToSet(At(hs, pl))
    <3> HIDE DEF pl
    <3> QED
      BY <2>1, AtHas
  <2>3. Distinct(ph)
    <3> HIDE DEF pl
    <3> QED
      BY <2>1, AtKeeps
  <2>4. \A x \in ToSet(hs) : \E i \in DOMAIN hs : hs[i] = x
    BY ToSetIs
  <2>5. \A i \in DOMAIN hs : hs[i] \in ToSet(hs)
    BY ToSetIs
  <2>6. \A x \in ToSet(ph) : x \in first
    BY <2>2, <2>5 DEF Pins
  <2>7. \A x \in first : x \in ToSet(ph)
    BY <2>2, <2>4 DEF Pins
  <2> HIDE DEF ph, first
  <2> QED
    BY <2>2, <2>3, <2>6, <2>7 DEF ph
<1>10. o \in Seq(T) /\ Distinct(o) /\ Descending(o, "final") /\ ToSet(o) = {h \in ToSet(a) : ~Pins(h, pinned)}
  <2> HIDE DEF a
  <2>1. ol \subseteq DOMAIN a
    OBVIOUS
  <2>2. /\ At(a, ol) \in Seq(T)
        /\ \A x \in ToSet(At(a, ol)) : \E i \in ol : a[i] = x
        /\ \A i \in ol : a[i] \in ToSet(At(a, ol))
    <3> HIDE DEF ol
    <3> QED
      BY <1>3, <2>1, AtHas
  <2>3. Distinct(o) /\ Descending(o, "final")
    <3> HIDE DEF ol
    <3> QED
      BY <1>3, <2>1, AtKeeps
  <2>4. \A x \in ToSet(a) : \E i \in DOMAIN a : a[i] = x
    BY <1>3, ToSetIs
  <2>5. \A i \in DOMAIN a : a[i] \in ToSet(a)
    BY <1>3, ToSetIs
  <2>6. \A x \in ToSet(o) : x \in ToSet(a) /\ ~Pins(x, pinned)
    BY <2>2, <2>5 DEF Pins
  <2>7. \A x \in ToSet(a) : ~Pins(x, pinned) => x \in ToSet(o)
    BY <2>2, <2>4 DEF Pins
  <2> HIDE DEF o
  <2>8. ToSet(o) = {h \in ToSet(a) : ~Pins(h, pinned)}
    BY <2>6, <2>7
  <2> QED
    BY <2>2, <2>3, <2>8 DEF o
<1>11. IsFiniteSet(first) /\ Cardinality(first) = Len(ph) /\ Len(ph) \in Nat
  <2> HIDE DEF ph, first
  <2>1. Len(ph) \in Nat
    BY <1>9
  <2> QED
    BY <1>9, <2>1, SizeIs
<1>12. room \in Nat /\ room = Max({0, PapersForAnswer - Cardinality(first)})
  <2> HIDE DEF ph, first
  <2>1. PapersForAnswer - Len(ph) \in Int
    BY <1>0, <1>11
  <2>2. Max({0, PapersForAnswer - Len(ph)}) \in Nat
    BY <2>1, NonNegative
  <2> QED
    BY <1>11, <2>2
<1> HIDE DEF a, ph, o, room, high, pl, ol
<1>13. /\ fo \in Seq(T) /\ Distinct(fo) /\ ToSet(fo) \subseteq ToSet(o)
       /\ Len(fo) = (IF room <= Len(o) THEN room ELSE Len(o)) /\ Len(fo) <= room
       /\ DOMAIN fo = 1..Len(fo) /\ \A i \in DOMAIN fo : fo[i] = o[i]
  <2>1. o \in Seq(T) /\ room \in Nat /\ Distinct(o)
    BY <1>10, <1>12
  <2>2. /\ fo \in Seq(T) /\ ToSet(fo) \subseteq ToSet(o)
        /\ Len(fo) = (IF room <= Len(o) THEN room ELSE Len(o)) /\ Len(fo) <= room
        /\ DOMAIN fo = 1..Len(fo) /\ \A i \in DOMAIN fo : fo[i] = o[i]
    BY <2>1, FirstIs
  <2>3. Distinct(fo)
    BY <2>1, FirstKeeps
  <2> QED
    BY <2>2, <2>3
<1> HIDE DEF fo
<1>14. ToSet(ph) \cap ToSet(fo) = {}
  BY <1>9, <1>10, <1>13
<1>15. cc \in Seq(T) /\ Distinct(cc) /\ ToSet(cc) = ToSet(ph) \cup ToSet(fo)
  BY <1>9, <1>13, <1>14, ConcatKeeps
<1> HIDE DEF cc
<1>16. ToSet(cc) \subseteq ToSet(hs)
  BY <1>8, <1>9, <1>10, <1>13, <1>15
<1>17. Values(cc, "final")
  <2>1. \A i \in DOMAIN cc : cc[i] \in ToSet(cc)
    BY <1>15, ToSetIs
  <2>2. \A x \in ToSet(hs) : \E i \in DOMAIN hs : hs[i] = x
    BY ToSetIs
  <2>3. \A x \in ToSet(hs) : x.final \in Int
    BY <2>2 DEF Values
  <2> QED
    BY <1>16, <2>1, <2>3 DEF Values
<1>18. sel \in Seq(T) /\ Distinct(sel) /\ ToSet(sel) = ToSet(cc) /\ Descending(sel, "final")
  BY <1>15, <1>17, BestFirstKeeps
<1> HIDE DEF sel
<1>19. other = ToSet(fo)
  BY <1>9, <1>10, <1>13, <1>15, <1>18
<1>20. IsFiniteSet(other) /\ Cardinality(other) = Len(fo)
  <2> HIDE DEF other
  <2> QED
    BY <1>13, <1>19, SizeIs
<1>21. ASSUME NEW h \in other
       PROVE  \/ h.rerank >= MinScore
              \/ /\ IsFiniteSet({g \in ToSet(hs) : g.final > h.final})
                 /\ Cardinality({g \in ToSet(hs) : g.final > h.final}) < MinPapersKept
  <2>1. h \in ToSet(a)
    BY <1>10, <1>13, <1>19
  <2>2. PICK k \in high : r[k] = h
    BY <1>4, <2>1
  <2>3. k \in 1..Len(r) /\ (k <= MinPapersKept \/ h.rerank >= MinScore)
    BY <1>7, <2>2 DEF high
  <2>4. CASE k <= MinPapersKept
    <3> DEFINE better == {g \in ToSet(hs) : g.final > h.final}
               before == 1..(k - 1)
    <3>1. better \subseteq Images(r, before)
      <4> SUFFICES ASSUME NEW g \in better PROVE g \in Images(r, before)
        OBVIOUS
      <4>1. PICK j \in DOMAIN r : r[j] = g
        BY <1>2, <1>6
      <4>2. ~(k <= j)
        <5> SUFFICES ASSUME k <= j PROVE FALSE
          OBVIOUS
        <5>1. g.final \in Int /\ h.final \in Int
          BY <1>2, <1>7, <2>2, <2>3, <4>1 DEF Values
        <5>2. h.final >= g.final
          <6>1. CASE k = j
            BY <2>2, <4>1, <5>1, <6>1
          <6>2. CASE k < j
            BY <1>2, <1>7, <2>2, <2>3, <4>1, <6>2 DEF Descending
          <6> QED
            BY <1>7, <2>3, <4>1, <6>1, <6>2
        <5> QED
          BY <5>1, <5>2
      <4>3. j \in before
        BY <1>7, <2>3, <4>1, <4>2
      <4> QED
        BY <4>1, <4>3 DEF Images
    <3>2. before \subseteq DOMAIN r
      BY <1>7, <2>3
    <3>3. Cardinality(before) = k - 1
      BY <2>3, FS_Interval
    <3> HIDE DEF before
    <3>4. IsFiniteSet(Images(r, before)) /\ Cardinality(Images(r, before)) = Cardinality(before)
      BY <1>2, <3>2, ImageIs
    <3> HIDE DEF better
    <3>5. IsFiniteSet(better) /\ Cardinality(better) \in Nat
            /\ Cardinality(better) <= Cardinality(Images(r, before))
      BY <3>1, <3>4, Parts
    <3>6. Cardinality(better) < MinPapersKept
      BY <1>0, <2>3, <2>4, <3>3, <3>4, <3>5
    <3> QED
      BY <3>5, <3>6 DEF better
  <2>5. CASE h.rerank >= MinScore
    BY <2>5
  <2> QED
    BY <2>3, <2>4, <2>5
<1>22. ASSUME NEW p \in ToSet(hs) \ ToSet(sel), p.rerank >= MinScore
       PROVE  Cardinality(other) = room /\ \A h \in other : h.final >= p.final
  <2>1. PICK k \in DOMAIN r : r[k] = p
    BY <1>2, <1>6
  <2>2. p \in ToSet(a)
    BY <1>5, <1>22, <2>1 DEF high
  <2>3. p \notin ToSet(ph) /\ p \notin ToSet(fo)
    BY <1>15, <1>18
  <2>4. p \in ToSet(o)
    BY <1>9, <1>10, <2>2, <2>3
  <2>5. PICK m \in DOMAIN o : o[m] = p
    BY <1>10, <2>4, ToSetIs
  <2>6. DOMAIN o = 1..Len(o) /\ Len(o) \in Nat
    BY <1>10, ToSetIs
  <2>7. \A i \in DOMAIN fo : fo[i] \in ToSet(fo)
    BY <1>13, ToSetIs
  <2>8. m \notin DOMAIN fo
    BY <1>13, <2>3, <2>5, <2>7
  <2>9. Len(fo) = room
    BY <1>12, <1>13, <2>5, <2>6, <2>8
  <2>10. ASSUME NEW h \in other PROVE h.final >= p.final
    <3>1. PICK j \in DOMAIN fo : fo[j] = h
      <4>1. h \in ToSet(fo)
        BY <1>19
      <4> QED
        BY <1>13, <4>1, ToSetIs
    <3>2. j < m /\ j \in DOMAIN o /\ o[j] = h
      BY <1>12, <1>13, <2>5, <2>6, <2>8, <2>9, <3>1
    <3> QED
      BY <1>10, <2>5, <3>2 DEF Descending
  <2> QED
    BY <1>20, <2>9, <2>10
<1>23. first \subseteq ToSet(sel) /\ ToSet(sel) \subseteq ToSet(hs)
  <2> HIDE DEF first
  <2> QED
    BY <1>9, <1>15, <1>16, <1>18
<1>24. Cardinality(other) <= room
  <2> HIDE DEF other
  <2> QED
    BY <1>13, <1>20
<1> DEFINE space == Max({0, PapersForAnswer - Cardinality(first)})
<1>25. space \in Nat /\ Cardinality(other) <= space
       /\ \A p \in ToSet(hs) \ ToSet(sel) : p.rerank >= MinScore =>
            Cardinality(other) = space /\ \A h \in other : h.final >= p.final
  <2> HIDE DEF other, space
  <2>1. space = room
    BY <1>12 DEF space
  <2> QED
    BY <1>12, <1>22, <1>24, <2>1
<1> QED
  <2> HIDE DEF other, first, space
  <2>1. sel = KeepPinned(hs, AbovePrior(hs), pinned)
    BY <1>1
  <2> QED
    BY <1>18, <1>20, <1>21, <1>23, <1>25, <2>1 DEF other, first, space, BestBeside

-----------------------------------------------------------------------------
\* SumFunction: the sum over a finite set is a number.

FoldStep(g, S, f) == [s \in SUBSET S |-> IF s = {} THEN 0 ELSE LET x == CHOOSE x \in s : TRUE IN g[x] + f[s \ {x}]]

LEMMA SumIs ==
  ASSUME NEW S, IsFiniteSet(S), NEW g \in [S -> Int]
  PROVE  SumFunction(g) \in Int
<1> DEFINE Z == [SUBSET S -> Int]
           N == Cardinality(S)
           iter == CHOOSE iter : iter = FoldStep(g, S, iter)
           one(s) == CHOOSE x \in s : TRUE
<1>1. SumFunction(g) = iter[S]
  BY DEF SumFunction, SumFunctionOnSet, FoldFunctionOnSet, MapThenFoldSet, FoldStep
<1>2. N \in Nat
  BY FS_CardinalityType
<1>3. \A s \in SUBSET S : IsFiniteSet(s) /\ Cardinality(s) \in Nat /\ Cardinality(s) <= N
  BY Parts
<1>4. ASSUME NEW s \in SUBSET S, s # {}
      PROVE  /\ one(s) \in S /\ g[one(s)] \in Int /\ s \ {one(s)} \in SUBSET S
             /\ Cardinality(s \ {one(s)}) = Cardinality(s) - 1
  <2>1. one(s) \in s
    BY <1>4
  <2> HIDE DEF one
  <2>2. Cardinality(s \ {one(s)}) = Cardinality(s) - 1
    BY <1>3, <2>1, FS_RemoveElement
  <2> QED
    BY <2>1, <2>2
<1>5. \A f : \A s \in SUBSET S : FoldStep(g, S, f)[s] = IF s = {} THEN 0 ELSE g[one(s)] + f[s \ {one(s)}]
  BY DEF FoldStep
<1>6. \A f : DOMAIN FoldStep(g, S, f) = SUBSET S
  BY DEF FoldStep
<1>7. \A f : FoldStep(g, S, f) = [s \in SUBSET S |-> FoldStep(g, S, f)[s]]
  BY DEF FoldStep
<1> HIDE DEF one, N
<1>8. ASSUME NEW f \in Z PROVE FoldStep(g, S, f) \in Z
  <2>1. \A s \in SUBSET S : f[s] \in Int
    OBVIOUS
  <2>2. ASSUME NEW s \in SUBSET S PROVE FoldStep(g, S, f)[s] \in Int
    <3>1. CASE s = {}
      <4>1. FoldStep(g, S, f)[s] = 0
        BY <1>5, <3>1
      <4> QED
        BY <4>1
    <3>2. CASE s # {}
      <4>1. FoldStep(g, S, f)[s] = g[one(s)] + f[s \ {one(s)}]
        BY <1>5, <3>2
      <4>2. g[one(s)] \in Int /\ f[s \ {one(s)}] \in Int
        BY <1>4, <2>1, <3>2
      <4> QED
        BY <4>1, <4>2
    <3> QED
      BY <3>1, <3>2
  <2> DEFINE h == FoldStep(g, S, f)
  <2>3. h = [s \in SUBSET S |-> h[s]]
    BY <1>7
  <2>4. \A s \in SUBSET S : h[s] \in Int
    BY <2>2
  <2> HIDE DEF h
  <2>5. h \in Z
    BY <2>3, <2>4
  <2> QED
    BY <2>5 DEF h
\* Repeated from zero, the step ends at what it no longer changes.
<1> DEFINE zero == 0
           base == [s \in SUBSET S |-> 0]
           step == [x \in Int \X Z |-> FoldStep(g, S, x[2])]
<1>9. \E F : Recursive(F, zero, N + 1, Z, base, step)
  <2>1. zero \in Int /\ N + 1 \in Int /\ base \in Z
    BY <1>2
  <2>2. step \in Steps(Z)
    <3>1. \A x \in Int \X Z : FoldStep(g, S, x[2]) \in Z
      BY <1>8
    <3> HIDE DEF Z
    <3> QED
      BY <3>1 DEF Steps
  <2> HIDE DEF zero, base, step, Z
  <2>3. \A n \in Int : \E F : Recursive(F, zero, n, Z, base, step)
    BY <2>1, <2>2, RecursionExists
  <2> QED
    BY <2>1, <2>3
<1>10. PICK F : Recursive(F, zero, N + 1, Z, base, step)
  BY <1>9
<1>11. F[0] = base /\ \A k \in 0..N : F[k] \in Z /\ F[k + 1] = FoldStep(g, S, F[k])
  <2>1. F \in [0..(N + 1) -> Z]
    BY <1>10 DEF Recursive
  <2>2. \A i \in 0..(N + 1) : F[i] = IF i = 0 THEN base ELSE step[<<i, F[i - 1]>>]
    BY <1>10 DEF Recursive
  <2> HIDE DEF Z, base, zero
  <2>3. ASSUME NEW k \in 0..N PROVE F[k] \in Z /\ F[k + 1] = FoldStep(g, S, F[k])
    <3>1. k \in 0..(N + 1) /\ k + 1 \in 0..(N + 1) /\ k + 1 # 0 /\ (k + 1) - 1 = k
      BY <1>2
    <3>2. F[k] \in Z
      BY <2>1, <3>1
    <3>3. F[k + 1] = step[<<k + 1, F[k]>>]
      BY <2>2, <3>1
    <3>4. <<k + 1, F[k]>> \in Int \X Z
      BY <3>1, <3>2
    <3> QED
      BY <3>2, <3>3, <3>4
  <2>4. F[0] = base
    <3>1. 0 \in 0..(N + 1)
      BY <1>2
    <3>2. \A i \in 0..(N + 1) : i = 0 => F[i] = base
      BY <2>2
    <3> QED
      BY <3>1, <3>2
  <2> QED
    BY <2>3, <2>4
<1> DEFINE Still == {k \in Nat : k <= N => \A s \in SUBSET S : Cardinality(s) <= k => F[k + 1][s] = F[k][s]}
<1>12. \A k \in Nat : k \in Still
  <2>1. 0 \in Still
    <3> SUFFICES ASSUME NEW s \in SUBSET S, Cardinality(s) <= 0 PROVE F[0 + 1][s] = F[0][s]
      BY <1>2
    <3>1. s = {}
      <4>1. Cardinality(s) = 0 /\ IsFiniteSet(s)
        BY <1>3
      <4> QED
        BY <4>1, FS_EmptySet
    <3>2. F[0][s] = 0
      BY <1>11
    <3>3. F[0 + 1] = FoldStep(g, S, F[0])
      BY <1>2, <1>11
    <3>4. FoldStep(g, S, F[0])[s] = 0
      BY <1>5, <3>1
    <3> QED
      BY <3>2, <3>3, <3>4
  <2>2. ASSUME NEW k \in Nat, k \in Still PROVE k + 1 \in Still
    <3> SUFFICES ASSUME k + 1 <= N, NEW s \in SUBSET S, Cardinality(s) <= k + 1
                 PROVE  F[k + 1 + 1][s] = F[k + 1][s]
      OBVIOUS
    <3>1. k \in 0..N /\ k + 1 \in 0..N
      BY <1>2
    <3>2. F[k + 1] = FoldStep(g, S, F[k]) /\ F[k + 1 + 1] = FoldStep(g, S, F[k + 1])
      BY <1>11, <3>1
    <3>3. CASE s = {}
      BY <1>5, <3>2, <3>3
    <3>4. CASE s # {}
      <4>1. s \ {one(s)} \in SUBSET S /\ Cardinality(s \ {one(s)}) <= k
        BY <1>3, <1>4, <3>4
      <4>2. F[k + 1][s \ {one(s)}] = F[k][s \ {one(s)}]
        BY <2>2, <3>1, <4>1
      <4>3. F[k + 1][s] = g[one(s)] + F[k][s \ {one(s)}]
        BY <1>5, <3>2, <3>4
      <4>4. F[k + 1 + 1][s] = g[one(s)] + F[k + 1][s \ {one(s)}]
        BY <1>5, <3>2, <3>4
      <4> QED
        BY <4>2, <4>3, <4>4
    <3> QED
      BY <3>3, <3>4
  <2> HIDE DEF Still
  <2> QED
    BY <2>1, <2>2, NatSetInduction
<1>13. F[N] = FoldStep(g, S, F[N])
  <2>1. \A s \in SUBSET S : F[N + 1][s] = F[N][s]
    BY <1>2, <1>3, <1>12
  <2>2. F[N] \in Z /\ F[N + 1] = FoldStep(g, S, F[N])
    <3>1. N \in 0..N
      BY <1>2
    <3> HIDE DEF Z
    <3> QED
      BY <1>11, <3>1
  <2>3. F[N + 1] \in Z
    BY <1>8, <2>2
  <2>4. F[N + 1] = F[N]
    BY <2>1, <2>2, <2>3
  <2> QED
    BY <2>2, <2>4
<1>14. iter = FoldStep(g, S, iter)
  <2>1. \E f : f = FoldStep(g, S, f)
    BY <1>13
  <2> QED
    BY <2>1
<1> HIDE DEF iter
<1> DEFINE Num == {k \in Nat : \A s \in SUBSET S : Cardinality(s) <= k => iter[s] \in Int}
<1>15. \A s \in SUBSET S : iter[s] = IF s = {} THEN 0 ELSE g[one(s)] + iter[s \ {one(s)}]
  BY <1>5, <1>14
<1>16. \A k \in Nat : k \in Num
  <2>1. 0 \in Num
    <3> SUFFICES ASSUME NEW s \in SUBSET S, Cardinality(s) <= 0 PROVE iter[s] \in Int
      OBVIOUS
    <3>1. s = {}
      <4>1. Cardinality(s) = 0 /\ IsFiniteSet(s)
        BY <1>3
      <4> QED
        BY <4>1, FS_EmptySet
    <3>2. iter[s] = 0
      BY <1>15, <3>1
    <3> QED
      BY <3>2
  <2>2. ASSUME NEW k \in Nat, k \in Num PROVE k + 1 \in Num
    <3> SUFFICES ASSUME NEW s \in SUBSET S, Cardinality(s) <= k + 1 PROVE iter[s] \in Int
      OBVIOUS
    <3>1. CASE s = {}
      <4>1. iter[s] = 0
        BY <1>15, <3>1
      <4> QED
        BY <4>1
    <3>2. CASE s # {}
      <4>1. s \ {one(s)} \in SUBSET S /\ Cardinality(s \ {one(s)}) <= k /\ g[one(s)] \in Int
        BY <1>3, <1>4, <3>2
      <4>2. iter[s \ {one(s)}] \in Int
        BY <2>2, <4>1
      <4>3. iter[s] = g[one(s)] + iter[s \ {one(s)}]
        BY <1>15, <3>2
      <4> QED
        BY <4>1, <4>2, <4>3
    <3> QED
      BY <3>1, <3>2
  <2> HIDE DEF Num
  <2> QED
    BY <2>1, <2>2, NatSetInduction
<1>17. iter[S] \in Int
  BY <1>2, <1>3, <1>16 DEF N
<1> QED
  BY <1>1, <1>17

-----------------------------------------------------------------------------
\* Fused rankings: each document of a list once.

Found(gives) == UNION {DOMAIN gives[i] : i \in DOMAIN gives}

Scored(P) == [id: P, rrf: Int]

\* What lists give to documents of P.
Gives(gives, P) ==
    /\ IsFiniteSet(DOMAIN gives)
    /\ \A i \in DOMAIN gives : DOMAIN gives[i] \subseteq P /\ \A d \in DOMAIN gives[i] : gives[i][d] \in Int

Identified(s, P) == \A i \in DOMAIN s : s[i].id \in P

LEMMA IdsIs ==
  ASSUME NEW P, NEW T, NEW s \in Seq(T), Identified(s, P)
  PROVE  /\ Ids(s) \in Seq(P) /\ Len(Ids(s)) = Len(s) /\ DOMAIN Ids(s) = DOMAIN s
         /\ \A i \in DOMAIN s : Ids(s)[i] = s[i].id
<1>1. Len(s) \in Nat /\ DOMAIN s = 1..Len(s)
  OBVIOUS
<1>2. Ids(s) = [i \in 1..Len(s) |-> s[i].id]
  BY <1>1 DEF Ids
<1> QED
  BY <1>1, <1>2 DEF Identified

LEMMA BySumIs ==
  ASSUME NEW P, IsFiniteSet(P), P \subseteq Int, NEW gives, Gives(gives, P)
  PROVE  /\ BySum(gives) \in Seq(Scored(P))
         /\ Ids(BySum(gives)) \in Seq(P) /\ Distinct(Ids(BySum(gives)))
         /\ DOMAIN Ids(BySum(gives)) = DOMAIN BySum(gives)
         /\ ToSet(Ids(BySum(gives))) = Found(gives)
<1> DEFINE found == Found(gives)
           given(d) == [i \in DOMAIN gives |-> IF d \in DOMAIN gives[i] THEN gives[i][d] ELSE 0]
           sum == [d \in found |-> SumFunction(given(d))]
           n == Cardinality(found)
           order == Ranked(sum)
           b == BySum(gives)
<1>1. found \subseteq P
  BY DEF Gives, Found
<1>2. IsFiniteSet(found) /\ found \subseteq Int /\ n \in Nat
  <2> HIDE DEF found
  <2> QED
    BY <1>1, Parts
<1>3. ASSUME NEW d \in found PROVE SumFunction(given(d)) \in Int
  <2>1. IsFiniteSet(DOMAIN gives)
    BY DEF Gives
  <2>2. given(d) \in [DOMAIN gives -> Int]
    BY DEF Gives
  <2> HIDE DEF given
  <2> QED
    BY <2>1, <2>2, SumIs
<1>4. sum \in [found -> Int]
  <2> HIDE DEF found, given
  <2> QED
    BY <1>3
<1>5. b = [i \in DOMAIN order |-> [id |-> order[i], rrf |-> sum[order[i]]]]
  BY DEF BySum, Found
<1> HIDE DEF found, sum
<1>6. /\ order \in [1..n -> found]
      /\ \A x \in found : \E i \in 1..n : order[i] = x
      /\ \A i, j \in 1..n : order[i] = order[j] => i = j
  BY <1>2, <1>4, RankedIs
<1> HIDE DEF order, n, b
<1>7. DOMAIN order = 1..n /\ \A i \in 1..n : order[i] \in found
  BY <1>6
<1>8. \A i \in 1..n : order[i] \in P /\ sum[order[i]] \in Int
  BY <1>1, <1>4, <1>7
<1>9. b = [i \in 1..n |-> [id |-> order[i], rrf |-> sum[order[i]]]]
  BY <1>5, <1>7
<1>10. b \in Seq(Scored(P)) /\ DOMAIN b = 1..n /\ \A i \in 1..n : b[i].id = order[i]
  <2>1. \A i \in 1..n : [id |-> order[i], rrf |-> sum[order[i]]] \in Scored(P)
    BY <1>8 DEF Scored
  <2> HIDE DEF Scored
  <2>2. b \in Seq(Scored(P))
    BY <1>2, <1>9, <2>1
  <2>3. DOMAIN b = 1..n /\ \A i \in 1..n : b[i].id = order[i]
    BY <1>9
  <2> QED
    BY <2>2, <2>3
<1>11. Ids(b) \in Seq(P) /\ DOMAIN Ids(b) = DOMAIN b /\ \A i \in DOMAIN b : Ids(b)[i] = b[i].id
  <2>1. Identified(b, P)
    BY <1>8, <1>10 DEF Identified
  <2>2. b \in Seq(Scored(P))
    BY <1>10
  <2> QED
    BY <2>1, <2>2, IdsIs
<1>12. \A i \in 1..n : Ids(b)[i] = order[i]
  BY <1>10, <1>11
<1>13. DOMAIN Ids(b) = 1..n
  BY <1>10, <1>11
<1>14. Distinct(Ids(b))
  <2>1. \A i, j \in 1..n : order[i] = order[j] => i = j
    BY <1>6
  <2> QED
    BY <1>12, <1>13, <2>1 DEF Distinct
<1>15. ToSet(Ids(b)) = found
  <2>1. \A x \in found : \E i \in 1..n : order[i] = x
    BY <1>6
  <2>2. ToSet(Ids(b)) = {Ids(b)[i] : i \in 1..n}
    BY <1>13 DEF ToSet
  <2>3. \A x \in ToSet(Ids(b)) : x \in found
    BY <1>7, <1>12, <2>2
  <2>4. \A x \in found : x \in ToSet(Ids(b))
    BY <1>12, <2>1, <2>2
  <2> QED
    BY <2>3, <2>4
<1> QED
  BY <1>10, <1>11, <1>14, <1>15 DEF b, found

LEMMA PlaceIs ==
  ASSUME NEW T, NEW s \in Seq(T), NEW x \in ToSet(s)
  PROVE  Place(x, s) \in DOMAIN s /\ Place(x, s) \in Nat \ {0} /\ s[Place(x, s)] = x
<1>1. \E i \in DOMAIN s : s[i] = x
  BY DEF ToSet
<1>2. DOMAIN s \subseteq Nat \ {0}
  OBVIOUS
<1> QED
  BY <1>1, <1>2 DEF Place

\* A part of the scale is a number.
LEMMA QuotientIs ==
  ASSUME NEW a \in Int, NEW b \in Nat \ {0}
  PROVE  a \div b \in Int
  OBVIOUS

\* What a list of lists holds.
Holds(lists) == UNION {ToSet(lists[i]) : i \in DOMAIN lists}

LEMMA RrfFuseIs ==
  ASSUME NEW P, IsFiniteSet(P), P \subseteq Int, NEW lists, IsFiniteSet(DOMAIN lists),
         \A i \in DOMAIN lists : lists[i] \in Seq(P)
  PROVE  /\ RrfFuse(lists) \in Seq(Scored(P))
         /\ Ids(RrfFuse(lists)) \in Seq(P) /\ Distinct(Ids(RrfFuse(lists)))
         /\ DOMAIN Ids(RrfFuse(lists)) = DOMAIN RrfFuse(lists)
         /\ ToSet(Ids(RrfFuse(lists))) = Holds(lists)
<1> DEFINE gives(s) == [d \in ToSet(s) |-> RrfScale \div (RrfK + Place(d, s))]
           given == [i \in DOMAIN lists |-> gives(lists[i])]
<1>1. RrfFuse(lists) = BySum(given)
  BY DEF RrfFuse
<1>2. ASSUME NEW s \in Seq(P) PROVE ToSet(s) \subseteq P
               /\ \A d \in ToSet(s) : RrfScale \div (RrfK + Place(d, s)) \in Int
  <2>1. ToSet(s) \subseteq P
    BY ToSetIs
  <2>2. ASSUME NEW d \in ToSet(s) PROVE RrfScale \div (RrfK + Place(d, s)) \in Int
    <3>1. Place(d, s) \in Nat \ {0}
      BY PlaceIs
    <3>2. RrfScale \in Int /\ RrfK \in Nat
      BY RetrievalAssumption
    <3>3. RrfK + Place(d, s) \in Nat \ {0}
      BY <3>1, <3>2
    <3> QED
      BY <3>2, <3>3, QuotientIs
  <2> QED
    BY <2>1, <2>2
<1>3. DOMAIN given = DOMAIN lists /\ \A i \in DOMAIN lists : DOMAIN given[i] = ToSet(lists[i])
  OBVIOUS
<1>4. Gives(given, P)
  BY <1>2, <1>3 DEF Gives
<1>5. Found(given) = Holds(lists)
  <2> HIDE DEF given
  <2> QED
    BY <1>3 DEF Found, Holds
<1> HIDE DEF given
<1> QED
  BY <1>1, <1>4, <1>5, BySumIs

LEMMA MergeQueryListsIs ==
  ASSUME NEW P, IsFiniteSet(P), P \subseteq Int, NEW fused, IsFiniteSet(DOMAIN fused),
         \A q \in DOMAIN fused : fused[q] \in Seq(Scored(P))
  PROVE  /\ Ids(MergeQueryLists(fused)) \in Seq(P) /\ Distinct(Ids(MergeQueryLists(fused)))
         /\ ToSet(Ids(MergeQueryLists(fused))) = UNION {ToSet(Ids(fused[q])) : q \in DOMAIN fused}
<1> DEFINE gives(s) == [d \in ToSet(Ids(s)) |-> s[Place(d, Ids(s))].rrf]
           given == [q \in DOMAIN fused |-> gives(fused[q])]
<1>1. MergeQueryLists(fused) = BySum(given)
  BY DEF MergeQueryLists
<1>2. ASSUME NEW s \in Seq(Scored(P))
      PROVE  ToSet(Ids(s)) \subseteq P /\ \A d \in ToSet(Ids(s)) : s[Place(d, Ids(s))].rrf \in Int
  <2>0. \A i \in DOMAIN s : s[i] \in Scored(P)
    OBVIOUS
  <2>1. \A i \in DOMAIN s : s[i].id \in P /\ s[i].rrf \in Int
    BY <2>0 DEF Scored
  <2>2. Ids(s) \in Seq(P) /\ DOMAIN Ids(s) = DOMAIN s
    <3>1. Identified(s, P)
      BY <2>1 DEF Identified
    <3> QED
      BY <3>1, IdsIs
  <2>3. ToSet(Ids(s)) \subseteq P
    BY <2>2, ToSetIs
  <2>4. \A d \in ToSet(Ids(s)) : Place(d, Ids(s)) \in DOMAIN s
    BY <2>2, PlaceIs
  <2> QED
    BY <2>1, <2>3, <2>4
<1>3. DOMAIN given = DOMAIN fused /\ \A i \in DOMAIN fused : DOMAIN given[i] = ToSet(Ids(fused[i]))
  OBVIOUS
<1>4. Gives(given, P)
  BY <1>2, <1>3 DEF Gives
<1>5. Found(given) = UNION {ToSet(Ids(fused[q])) : q \in DOMAIN fused}
  <2> HIDE DEF given
  <2> QED
    BY <1>3 DEF Found
<1> HIDE DEF given
<1>6. Ids(BySum(given)) \in Seq(P) /\ Distinct(Ids(BySum(given))) /\ ToSet(Ids(BySum(given))) = Found(given)
  BY <1>4, BySumIs
<1> QED
  BY <1>1, <1>5, <1>6

-----------------------------------------------------------------------------
\* The candidates of a selection.

ChannelsOf(c, P) == c.keyword \in Seq(P) /\ c.vector \in Seq(P) /\ c.near \in Seq(P) /\ c.title \in Seq(P)

AllChannels(channels, P) == IsFiniteSet(DOMAIN channels)
  /\ \A q \in DOMAIN channels : ChannelsOf(channels[q], P)

LEMMA PairIs ==
  ASSUME NEW P, IsFiniteSet(P), P \subseteq Int, NEW a \in Seq(P), NEW b \in Seq(P)
  PROVE  /\ RrfFuse(<<a, b>>) \in Seq(Scored(P))
         /\ Ids(RrfFuse(<<a, b>>)) \in Seq(P) /\ Distinct(Ids(RrfFuse(<<a, b>>)))
         /\ ToSet(Ids(RrfFuse(<<a, b>>))) = ToSet(a) \cup ToSet(b)
<1> DEFINE two == <<a, b>>
<1>1. DOMAIN two = 1..2 /\ two[1] = a /\ two[2] = b
  OBVIOUS
<1> HIDE DEF two
<1>2. IsFiniteSet(DOMAIN two)
  <2> DEFINE from == 1
             upTo == 2
  <2>1. from \in Int /\ upTo \in Int
    OBVIOUS
  <2>2. DOMAIN two = from..upTo
    BY <1>1
  <2> HIDE DEF from, upTo
  <2> QED
    BY <2>1, <2>2, FS_Interval
<1>3. \A i \in DOMAIN two : i = 1 \/ i = 2
  BY <1>1
<1>4. \A i \in DOMAIN two : two[i] \in Seq(P)
  BY <1>1, <1>3
<1>5. 1 \in DOMAIN two /\ 2 \in DOMAIN two
  BY <1>1
<1>6. Holds(two) = ToSet(a) \cup ToSet(b)
  <2>1. \A x \in Holds(two) : x \in ToSet(a) \cup ToSet(b)
    BY <1>1, <1>3 DEF Holds
  <2>2. \A x \in ToSet(a) \cup ToSet(b) : x \in Holds(two)
    BY <1>1, <1>5 DEF Holds
  <2> QED
    BY <2>1, <2>2
<1> QED
  BY <1>2, <1>4, <1>6, RrfFuseIs DEF two

LEMMA FusedIs ==
  ASSUME NEW P, IsFiniteSet(P), P \subseteq Int, NEW c, ChannelsOf(c, P)
  PROVE  Fused(c) \in Seq(Scored(P)) /\ ToSet(Ids(Fused(c))) \subseteq Reach(c)
<1> DEFINE top == First(Max({VectorK, GateK}), c.vector)
           gated == GateKeywordHits(c.keyword, First(GateK, top))
           kw == IF GateK = 0 THEN c.keyword ELSE gated
           vc == First(VectorK, top)
<1>0. VectorK \in Nat /\ GateK \in Nat
  BY RetrievalAssumption
<1>1. Fused(c) = RrfFuse(<<kw, vc>>)
  BY DEF Fused
<1>2. c.keyword \in Seq(P) /\ c.vector \in Seq(P)
  BY DEF ChannelsOf
<1>3. Max({VectorK, GateK}) \in Nat
  <2>1. VectorK \in Int /\ GateK \in Int
    BY <1>0
  <2>2. Max({VectorK, GateK}) = IF VectorK >= GateK THEN VectorK ELSE GateK
    BY <2>1, LesserOfTwo
  <2> QED
    BY <1>0, <2>2
<1>4. top \in Seq(P) /\ ToSet(top) \subseteq ToSet(c.vector)
  BY <1>2, <1>3, FirstIs
<1> HIDE DEF top
<1>5. vc \in Seq(P) /\ ToSet(vc) \subseteq ToSet(c.vector)
  BY <1>0, <1>4, FirstIs
<1>6. First(GateK, top) \in Seq(P) /\ ToSet(First(GateK, top)) \subseteq ToSet(c.vector)
  BY <1>0, <1>4, FirstIs
<1> HIDE DEF vc
<1>7. gated \in Seq(P) /\ ToSet(gated) \subseteq ToSet(c.vector)
  <2> DEFINE near == First(GateK, top)
             places == {i \in DOMAIN c.keyword : c.keyword[i] \in ToSet(near)}
  <2>1. gated = At(c.keyword, places)
    BY DEF GateKeywordHits
  <2>2. places \subseteq DOMAIN c.keyword /\ \A i \in places : c.keyword[i] \in ToSet(near)
    OBVIOUS
  <2> HIDE DEF places, near
  <2>3. At(c.keyword, places) \in Seq(P) /\ \A x \in ToSet(At(c.keyword, places)) : \E i \in places : c.keyword[i] = x
    BY <1>2, <2>2, AtHas
  <2>4. ToSet(near) \subseteq ToSet(c.vector)
    BY <1>6 DEF near
  <2> HIDE DEF gated
  <2> QED
    BY <2>1, <2>2, <2>3, <2>4
<1> HIDE DEF gated
<1>8. kw \in Seq(P) /\ ToSet(kw) \subseteq Reach(c)
  BY <1>2, <1>7 DEF Reach
<1> HIDE DEF kw
<1>9. RrfFuse(<<kw, vc>>) \in Seq(Scored(P)) /\ ToSet(Ids(RrfFuse(<<kw, vc>>))) = ToSet(kw) \cup ToSet(vc)
  BY <1>5, <1>8, PairIs
<1>10. ToSet(c.vector) \subseteq Reach(c)
  BY DEF Reach
<1> QED
  BY <1>1, <1>5, <1>8, <1>9, <1>10

LEMMA AnchorsIs ==
  ASSUME NEW P, IsFiniteSet(P), P \subseteq Int, NEW channels, AllChannels(channels, P)
  PROVE  /\ Anchors(channels) \in Seq(P) /\ Distinct(Anchors(channels))
         /\ ToSet(Anchors(channels)) \subseteq Reached(channels)
<1> DEFINE list(q) == First(AnchorK, Ids(RrfFuse(<<channels[q].near, channels[q].title>>)))
           lists == [q \in DOMAIN channels |-> list(q)]
           gives(s) == [d \in ToSet(s) |-> RrfScale \div Place(d, s)]
           given == [q \in DOMAIN lists |-> gives(lists[q])]
           ids == Ids(BySum(given))
<1>0. AnchorK \in Nat /\ RrfScale \in Int
  BY RetrievalAssumption
<1>1. Anchors(channels) = First(AnchorK, ids)
  BY DEF Anchors
<1>2. ASSUME NEW q \in DOMAIN channels
      PROVE  list(q) \in Seq(P) /\ ToSet(list(q)) \subseteq Reach(channels[q])
  <2>1. channels[q].near \in Seq(P) /\ channels[q].title \in Seq(P)
    BY DEF AllChannels, ChannelsOf
  <2> DEFINE near == channels[q].near
             title == channels[q].title
             f == Ids(RrfFuse(<<near, title>>))
  <2>2. near \in Seq(P) /\ title \in Seq(P)
    BY <2>1
  <2> HIDE DEF near, title
  <2>3. f \in Seq(P) /\ ToSet(f) = ToSet(near) \cup ToSet(title)
    BY <2>2, PairIs
  <2>4. list(q) = First(AnchorK, f)
    BY DEF near, title
  <2>5. ToSet(near) \cup ToSet(title) \subseteq Reach(channels[q])
    BY DEF near, title, Reach
  <2> HIDE DEF f, list
  <2>6. First(AnchorK, f) \in Seq(P) /\ ToSet(First(AnchorK, f)) \subseteq ToSet(f)
    BY <1>0, <2>3, FirstIs
  <2> QED
    BY <2>3, <2>4, <2>5, <2>6
<1>3. ASSUME NEW s \in Seq(P) PROVE ToSet(s) \subseteq P
               /\ \A d \in ToSet(s) : RrfScale \div Place(d, s) \in Int
  <2>1. ToSet(s) \subseteq P
    BY ToSetIs
  <2>2. ASSUME NEW d \in ToSet(s) PROVE RrfScale \div Place(d, s) \in Int
    <3>1. Place(d, s) \in Nat \ {0}
      BY PlaceIs
    <3> QED
      BY <1>0, <3>1, QuotientIs
  <2> QED
    BY <2>1, <2>2
<1> HIDE DEF list
<1>4. DOMAIN lists = DOMAIN channels /\ \A q \in DOMAIN channels : lists[q] = list(q)
  OBVIOUS
<1> HIDE DEF lists
<1>5. DOMAIN given = DOMAIN channels /\ \A q \in DOMAIN channels : given[q] = gives(list(q))
  BY <1>4
<1>6. Gives(given, P)
  <2>1. IsFiniteSet(DOMAIN given)
    BY <1>5 DEF AllChannels
  <2>2. ASSUME NEW q \in DOMAIN given
        PROVE  DOMAIN given[q] \subseteq P /\ \A d \in DOMAIN given[q] : given[q][d] \in Int
    <3>1. given[q] = gives(list(q)) /\ list(q) \in Seq(P)
      BY <1>2, <1>5
    <3> HIDE DEF given
    <3>2. DOMAIN given[q] = ToSet(list(q)) /\ \A d \in ToSet(list(q)) : given[q][d] = RrfScale \div Place(d, list(q))
      BY <3>1
    <3> QED
      BY <1>3, <3>1, <3>2
  <2> HIDE DEF given
  <2> QED
    BY <2>1, <2>2 DEF Gives
<1>7. Found(given) \subseteq Reached(channels)
  <2>1. \A q \in DOMAIN given : DOMAIN given[q] = ToSet(list(q))
    BY <1>5
  <2>2. DOMAIN given = DOMAIN channels
    BY <1>5
  <2> HIDE DEF given
  <2>3. \A x \in Found(given) : \E q \in DOMAIN channels : x \in ToSet(list(q))
    BY <2>1, <2>2 DEF Found
  <2>4. \A x \in Found(given) : \E q \in DOMAIN channels : x \in Reach(channels[q])
    BY <1>2, <2>3
  <2> QED
    BY <2>4 DEF Reached
<1> HIDE DEF given
<1>8. ids \in Seq(P) /\ Distinct(ids) /\ ToSet(ids) = Found(given)
  BY <1>6, BySumIs
<1> HIDE DEF ids
<1>9. First(AnchorK, ids) \in Seq(P) /\ ToSet(First(AnchorK, ids)) \subseteq ToSet(ids)
  BY <1>0, <1>8, FirstIs
<1>10. Distinct(First(AnchorK, ids))
  BY <1>0, <1>8, FirstKeeps
<1> QED
  BY <1>1, <1>7, <1>8, <1>9, <1>10

LEMMA NotInIs ==
  ASSUME NEW T, NEW s \in Seq(T), NEW ids
  PROVE  /\ NotIn(s, ids) \in Seq(T) /\ ToSet(NotIn(s, ids)) = ToSet(s) \ ids
         /\ Distinct(s) => Distinct(NotIn(s, ids))
<1> DEFINE places == {i \in DOMAIN s : s[i] \notin ids}
<1>1. NotIn(s, ids) = At(s, places)
  BY DEF NotIn
<1>2. places \subseteq DOMAIN s /\ \A i \in DOMAIN s : i \in places <=> s[i] \notin ids
  OBVIOUS
<1> HIDE DEF places
<1>3. /\ At(s, places) \in Seq(T)
      /\ \A x \in ToSet(At(s, places)) : \E i \in places : s[i] = x
      /\ \A i \in places : s[i] \in ToSet(At(s, places))
  BY <1>2, AtHas
<1>4. Distinct(s) => Distinct(At(s, places))
  BY <1>2, AtKeeps
<1>5. \A x \in ToSet(s) : \E i \in DOMAIN s : s[i] = x
  BY ToSetIs
<1>6. \A i \in DOMAIN s : s[i] \in ToSet(s)
  BY ToSetIs
<1>7. ToSet(At(s, places)) = ToSet(s) \ ids
  <2>1. \A x \in ToSet(At(s, places)) : x \in ToSet(s) \ ids
    BY <1>2, <1>3, <1>6
  <2>2. \A x \in ToSet(s) \ ids : x \in ToSet(At(s, places))
    BY <1>2, <1>3, <1>5
  <2> QED
    BY <2>1, <2>2
<1> QED
  BY <1>1, <1>3, <1>4, <1>7

LEMMA CandidatesIs ==
  ASSUME NEW P, IsFiniteSet(P), P \subseteq Int, NEW channels, AllChannels(channels, P),
         NEW carryover \in Seq(P), Distinct(carryover), NEW pinned \in Seq(P), Distinct(pinned)
  PROVE  LET ids == Candidates(channels, carryover, pinned).ids
         IN  /\ ids \in Seq(P) /\ Distinct(ids)
             /\ ToSet(carryover) \cup ToSet(pinned) \subseteq ToSet(ids)
             /\ ToSet(ids) \subseteq ToSet(carryover) \cup ToSet(pinned) \cup Reached(channels)
<1> DEFINE fused == [q \in DOMAIN channels |-> Fused(channels[q])]
           merged == Ids(MergeQueryLists(fused))
           found == First(RerankTopN, merged)
           anchor == IF AnchorK = 0 THEN <<>> ELSE NotIn(Anchors(channels), ToSet(found))
           anchored == found \o anchor
           carry == NotIn(carryover, ToSet(anchored))
           carried == anchored \o carry
           pins == NotIn(pinned, ToSet(carried))
           ids == carried \o pins
<1>0. RerankTopN \in Nat
  BY RetrievalAssumption
<1>1. Candidates(channels, carryover, pinned).ids = ids
  BY DEF Candidates
<1>2. DOMAIN fused = DOMAIN channels /\ \A q \in DOMAIN channels : fused[q] = Fused(channels[q])
  OBVIOUS
<1> HIDE DEF fused
<1>3. \A q \in DOMAIN fused : fused[q] \in Seq(Scored(P)) /\ ToSet(Ids(fused[q])) \subseteq Reach(channels[q])
  <2> SUFFICES ASSUME NEW q \in DOMAIN channels
               PROVE  fused[q] \in Seq(Scored(P)) /\ ToSet(Ids(fused[q])) \subseteq Reach(channels[q])
    BY <1>2
  <2>1. ChannelsOf(channels[q], P)
    BY DEF AllChannels
  <2> QED
    BY <1>2, <2>1, FusedIs
<1>4. merged \in Seq(P) /\ Distinct(merged) /\ ToSet(merged) = UNION {ToSet(Ids(fused[q])) : q \in DOMAIN fused}
  <2>1. IsFiniteSet(DOMAIN fused)
    BY <1>2 DEF AllChannels
  <2>2. \A q \in DOMAIN fused : fused[q] \in Seq(Scored(P))
    BY <1>3
  <2> QED
    BY <2>1, <2>2, MergeQueryListsIs
<1> HIDE DEF merged
<1>5. ToSet(merged) \subseteq Reached(channels)
  BY <1>2, <1>3, <1>4 DEF Reached
<1>6. found \in Seq(P) /\ Distinct(found) /\ ToSet(found) \subseteq Reached(channels)
  <2>1. found \in Seq(P) /\ ToSet(found) \subseteq ToSet(merged)
    BY <1>0, <1>4, FirstIs
  <2>2. Distinct(found)
    BY <1>0, <1>4, FirstKeeps
  <2> QED
    BY <1>5, <2>1, <2>2
<1> HIDE DEF found
<1>7. anchor \in Seq(P) /\ Distinct(anchor) /\ ToSet(anchor) \subseteq Reached(channels)
        /\ ToSet(found) \cap ToSet(anchor) = {}
  <2>1. CASE AnchorK = 0
    <3>1. anchor = <<>>
      BY <2>1
    <3> HIDE DEF anchor
    <3>2. anchor \in Seq(P) /\ DOMAIN anchor = {}
      BY <3>1
    <3>3. ToSet(anchor) = {} /\ Distinct(anchor)
      BY <3>2 DEF ToSet, Distinct
    <3> QED
      BY <3>2, <3>3
  <2>2. CASE AnchorK # 0
    <3>1. anchor = NotIn(Anchors(channels), ToSet(found))
      BY <2>2
    <3> HIDE DEF anchor
    <3>2. Anchors(channels) \in Seq(P) /\ Distinct(Anchors(channels))
            /\ ToSet(Anchors(channels)) \subseteq Reached(channels)
      BY AnchorsIs
    <3>3. anchor \in Seq(P) /\ ToSet(anchor) = ToSet(Anchors(channels)) \ ToSet(found) /\ Distinct(anchor)
      BY <3>1, <3>2, NotInIs
    <3> QED
      BY <3>2, <3>3
  <2> QED
    BY <2>1, <2>2
<1> HIDE DEF anchor
<1>8. anchored \in Seq(P) /\ Distinct(anchored) /\ ToSet(anchored) = ToSet(found) \cup ToSet(anchor)
  BY <1>6, <1>7, ConcatKeeps
<1> HIDE DEF anchored
<1>9. carry \in Seq(P) /\ Distinct(carry) /\ ToSet(carry) = ToSet(carryover) \ ToSet(anchored)
  BY NotInIs
<1> HIDE DEF carry
<1>10. ToSet(anchored) \cap ToSet(carry) = {}
  BY <1>9
<1>11. carried \in Seq(P) /\ Distinct(carried) /\ ToSet(carried) = ToSet(anchored) \cup ToSet(carry)
  BY <1>8, <1>9, <1>10, ConcatKeeps
<1> HIDE DEF carried
<1>12. pins \in Seq(P) /\ Distinct(pins) /\ ToSet(pins) = ToSet(pinned) \ ToSet(carried)
  BY NotInIs
<1> HIDE DEF pins
<1>13. ToSet(carried) \cap ToSet(pins) = {}
  BY <1>12
<1>14. ids \in Seq(P) /\ Distinct(ids) /\ ToSet(ids) = ToSet(carried) \cup ToSet(pins)
  BY <1>11, <1>12, <1>13, ConcatKeeps
<1> HIDE DEF ids
<1>15. ToSet(carryover) \cup ToSet(pinned) \subseteq ToSet(ids)
  BY <1>9, <1>11, <1>12, <1>14
<1>16. ToSet(ids) \subseteq ToSet(carryover) \cup ToSet(pinned) \cup Reached(channels)
  BY <1>6, <1>7, <1>8, <1>9, <1>11, <1>12, <1>14
<1> QED
  BY <1>1, <1>14, <1>15, <1>16

-----------------------------------------------------------------------------
\* select_papers.

Hit == [id: Papers, state: BOOLEAN, rerank: Int, final: Int, chained: BOOLEAN]

\* Lists of papers, each of them once.
PaperLists == {s \in Seq(Papers) : Distinct(s)}

HitLists == {hs \in Seq(Hit) : Distinct(Ids(hs))}

LEMMA FinalScoreIs ==
  ASSUME NEW p \in Papers, NEW rerank \in Int, NEW carryover
  PROVE  FinalScore(p, rerank, carryover) \in Int
<1> DEFINE one == 1
           x == Row[p].prior
           m == Min({one, x})
           carry == IF Contains(carryover, p) THEN CarryBoost ELSE 0
           name == IF NameMatches(p) THEN NameBoost ELSE 0
           clamped == Clamped(x)
           boost == PriorBoost * clamped
<1>1. x \in Int /\ one \in Int
  BY RetrievalAssumption
<1> HIDE DEF one, x
<1>2. m = IF one <= x THEN one ELSE x
  BY <1>1, LesserOfTwo
<1>3. m \in Int
  BY <1>1, <1>2
<1> HIDE DEF m
<1>4. clamped = Max({0, m})
  BY DEF Clamped, m, one
<1> HIDE DEF clamped
<1>5. clamped \in Int
  BY <1>3, <1>4, NonNegative
<1>6. PriorBoost \in Int /\ NameBoost \in Int /\ CarryBoost \in Int
  BY RetrievalAssumption
<1>7. boost \in Int
  BY <1>5, <1>6
<1>8. carry \in Int /\ name \in Int
  BY <1>6
<1>9. FinalScore(p, rerank, carryover) = rerank + boost + carry + name
  BY DEF FinalScore, boost, clamped, x
<1> HIDE DEF boost, carry, name
<1> QED
  BY <1>7, <1>8, <1>9

\* The papers selected, from what they are selected.
Selects(sel, channels, carryover, pinned, rerank) ==
    LET ids      == ToSet(Ids(sel))
        others   == {i \in DOMAIN sel : sel[i].id \notin ToSet(pinned)}
        score(p) == FinalScore(p, rerank[p], carryover)
    IN  /\ Cardinality(ids) = Len(sel)
        /\ ToSet(pinned) \subseteq ids
        /\ Cardinality(others) <= Max({0, PapersForAnswer - Len(pinned)})
        /\ ids \subseteq ToSet(carryover) \cup ToSet(pinned) \cup Reached(channels)
        /\ \A i, j \in DOMAIN sel : i < j => sel[i].final >= sel[j].final
        /\ \A i \in others : sel[i].rerank >= MinScore
                               \/ Cardinality({j \in ids : score(j) > sel[i].final}) < MinPapersKept
        /\ \A p \in ToSet(carryover) \ ids : rerank[p] >= MinScore =>
               /\ Cardinality(others) = Max({0, PapersForAnswer - Len(pinned)})
               /\ \A i \in others : sel[i].final >= score(p)

LEMMA SelectPapersIs ==
  ASSUME NEW channels, AllChannels(channels, Papers),
         NEW carryover \in PaperLists, NEW pinned \in PaperLists,
         NEW stateOf \in [Papers -> BOOLEAN], NEW rerank \in [Papers -> Int]
  PROVE  LET sel == SelectPapers(Candidates(channels, carryover, pinned), carryover, pinned, stateOf, rerank)
         IN  sel \in HitLists /\ Selects(sel, channels, carryover, pinned, rerank)
<1> DEFINE ids == Candidates(channels, carryover, pinned).ids
           score(p) == FinalScore(p, rerank[p], carryover)
           hit(p) == [id |-> p, state |-> stateOf[p], rerank |-> rerank[p], final |-> score(p), chained |-> FALSE]
           hs == [i \in DOMAIN ids |-> hit(ids[i])]
           sel == KeepPinned(hs, AbovePrior(hs), pinned)
           first == {h \in ToSet(hs) : Pins(h, pinned)}
           other == {h \in ToSet(sel) : ~Pins(h, pinned)}
           others == {i \in DOMAIN sel : sel[i].id \notin ToSet(pinned)}
           pl == {i \in DOMAIN hs : hs[i].id \in ToSet(pinned)}
           room == Max({0, PapersForAnswer - Len(pinned)})
<1>1. SelectPapers(Candidates(channels, carryover, pinned), carryover, pinned, stateOf, rerank) = sel
  BY DEF SelectPapers
<1>2. /\ carryover \in Seq(Papers) /\ Distinct(carryover) /\ pinned \in Seq(Papers) /\ Distinct(pinned)
      /\ IsFiniteSet(Papers) /\ Papers \subseteq Int
  BY RetrievalAssumption DEF PaperLists
<1>3. /\ ids \in Seq(Papers) /\ Distinct(ids) /\ ToSet(carryover) \cup ToSet(pinned) \subseteq ToSet(ids)
      /\ ToSet(ids) \subseteq ToSet(carryover) \cup ToSet(pinned) \cup Reached(channels)
  BY <1>2, CandidatesIs
<1> HIDE DEF ids
<1>4. \A p \in Papers : score(p) \in Int /\ rerank[p] \in Int
  BY FinalScoreIs
<1> HIDE DEF score
<1>5. \A p \in Papers : /\ hit(p) \in Hit /\ hit(p).id = p /\ hit(p).rerank = rerank[p]
                        /\ hit(p).final = score(p)
  BY <1>4 DEF Hit
<1> HIDE DEF hit
<1>6. /\ Len(ids) \in Nat /\ DOMAIN ids = 1..Len(ids) /\ DOMAIN hs = DOMAIN ids
      /\ \A i \in DOMAIN ids : ids[i] \in Papers /\ hs[i] = hit(ids[i])
  BY <1>3
<1>7. hs \in Seq(Hit)
  BY <1>5, <1>6
<1> HIDE DEF hs
<1>8. Distinct(hs)
  BY <1>3, <1>5, <1>6 DEF Distinct
<1>9. Values(hs, "final")
  BY <1>4, <1>5, <1>6 DEF Values
<1>10. \A h \in ToSet(hs) : h.id \in ToSet(ids) /\ h.id \in Papers /\ h = hit(h.id)
  BY <1>5, <1>6 DEF ToSet
<1>11. \A p \in ToSet(ids) : p \in Papers /\ hit(p) \in ToSet(hs)
  BY <1>6 DEF ToSet
<1>12. /\ sel \in Seq(Hit) /\ Distinct(sel) /\ ToSet(sel) \subseteq ToSet(hs) /\ Descending(sel, "final")
       /\ first \subseteq ToSet(sel)
       /\ Max({0, PapersForAnswer - Cardinality(first)}) \in Nat /\ IsFiniteSet(other)
       /\ Cardinality(other) <= Max({0, PapersForAnswer - Cardinality(first)})
       /\ \A h \in other : \/ h.rerank >= MinScore
                           \/ /\ IsFiniteSet({g \in ToSet(hs) : g.final > h.final})
                              /\ Cardinality({g \in ToSet(hs) : g.final > h.final}) < MinPapersKept
       /\ \A p \in ToSet(hs) \ ToSet(sel) : p.rerank >= MinScore =>
              /\ Cardinality(other) = Max({0, PapersForAnswer - Cardinality(first)})
              /\ \A h \in other : h.final >= p.final
  <2>1. /\ sel \in Seq(Hit) /\ Distinct(sel) /\ ToSet(sel) \subseteq ToSet(hs) /\ Descending(sel, "final")
        /\ BestBeside(sel, hs, pinned)
    BY <1>7, <1>8, <1>9, SelectedIs
  <2> HIDE DEF sel
  <2> QED
    BY <2>1 DEF BestBeside
<1> HIDE DEF sel
<1>13. Cardinality(first) = Len(pinned)
  <2>1. pl \subseteq DOMAIN hs /\ pl \subseteq DOMAIN ids
    BY <1>6
  <2>2. Images(hs, pl) = first
    BY DEF Images, ToSet, Pins
  <2>3. Images(ids, pl) = ToSet(pinned)
    <3>1. \A i \in DOMAIN ids : hs[i].id = ids[i]
      BY <1>5, <1>6
    <3>2. \A p \in ToSet(pinned) : \E i \in DOMAIN ids : ids[i] = p
      BY <1>3 DEF ToSet
    <3> QED
      BY <1>6, <3>1, <3>2 DEF Images
  <2> HIDE DEF pl
  <2>4. Cardinality(Images(hs, pl)) = Cardinality(pl)
    BY <1>7, <1>8, <2>1, ImageIs
  <2>5. Cardinality(Images(ids, pl)) = Cardinality(pl)
    BY <1>3, <2>1, ImageIs
  <2>6. Cardinality(ToSet(pinned)) = Len(pinned)
    BY <1>2, SizeIs
  <2> QED
    BY <2>2, <2>3, <2>4, <2>5, <2>6
<1>14. Len(sel) \in Nat /\ DOMAIN sel = 1..Len(sel)
         /\ \A i \in DOMAIN sel : sel[i] \in ToSet(sel) /\ sel[i] \in ToSet(hs)
  BY <1>12, ToSetIs
<1>15. \A i \in DOMAIN sel : sel[i].id \in Papers /\ sel[i] = hit(sel[i].id)
  BY <1>10, <1>14
<1>16. Identified(sel, Papers)
  BY <1>15 DEF Identified
<1>17. /\ Ids(sel) \in Seq(Papers) /\ Len(Ids(sel)) = Len(sel) /\ DOMAIN Ids(sel) = DOMAIN sel
       /\ \A i \in DOMAIN sel : Ids(sel)[i] = sel[i].id
  BY <1>12, <1>16, IdsIs
<1>18. Distinct(Ids(sel))
  <2> SUFFICES ASSUME NEW i \in DOMAIN sel, NEW j \in DOMAIN sel, sel[i].id = sel[j].id PROVE i = j
    BY <1>17 DEF Distinct
  <2>1. sel[i] = sel[j]
    BY <1>15
  <2> QED
    BY <1>12, <2>1 DEF Distinct
<1>19. sel \in HitLists
  BY <1>12, <1>18 DEF HitLists
<1>20. Cardinality(ToSet(Ids(sel))) = Len(sel)
  BY <1>17, <1>18, SizeIs
<1>21. \A h \in ToSet(sel) : h.id \in ToSet(Ids(sel))
  BY <1>17 DEF ToSet
<1>22. ToSet(pinned) \subseteq ToSet(Ids(sel))
  <2> SUFFICES ASSUME NEW p \in ToSet(pinned) PROVE p \in ToSet(Ids(sel))
    OBVIOUS
  <2>1. p \in ToSet(ids)
    BY <1>3
  <2>2. hit(p) \in ToSet(hs) /\ hit(p).id = p
    BY <1>5, <1>11, <2>1
  <2>3. hit(p) \in first
    BY <2>2 DEF Pins
  <2> QED
    BY <1>12, <1>21, <2>2, <2>3
<1>23. Cardinality(others) = Cardinality(other)
  <2>1. others \subseteq DOMAIN sel
    OBVIOUS
  <2>2. Images(sel, others) = other
    BY DEF Images, ToSet, Pins
  <2> HIDE DEF others, other
  <2>3. Cardinality(Images(sel, others)) = Cardinality(others)
    BY <1>12, <2>1, ImageIs
  <2> QED
    BY <2>2, <2>3
<1>24. Cardinality(others) <= room
  <2> HIDE DEF others, other, first
  <2> QED
    BY <1>12, <1>13, <1>23
<1>25. ToSet(Ids(sel)) \subseteq ToSet(carryover) \cup ToSet(pinned) \cup Reached(channels)
  <2>1. \A p \in ToSet(Ids(sel)) : p \in ToSet(ids)
    BY <1>10, <1>14, <1>17 DEF ToSet
  <2> QED
    BY <1>3, <2>1
<1>26. \A i, j \in DOMAIN sel : i < j => sel[i].final >= sel[j].final
  BY <1>12 DEF Descending
<1>27. \A i \in others : sel[i] \in other
  BY <1>14 DEF Pins
<1>28. ASSUME NEW i \in others, ~(sel[i].rerank >= MinScore)
       PROVE  Cardinality({p \in ToSet(Ids(sel)) : score(p) > sel[i].final}) < MinPapersKept
  <2> DEFINE K == {k \in DOMAIN sel : sel[k].final > sel[i].final}
             G == {g \in ToSet(hs) : g.final > sel[i].final}
             S == {p \in ToSet(Ids(sel)) : score(p) > sel[i].final}
  <2>1. IsFiniteSet(G) /\ Cardinality(G) < MinPapersKept
    BY <1>12, <1>27, <1>28
  <2>2. K \subseteq DOMAIN sel /\ K \subseteq DOMAIN Ids(sel)
    BY <1>17
  <2>3. Images(sel, K) \subseteq G
    BY <1>14 DEF Images
  <2>4. Images(Ids(sel), K) = S
    <3>1. \A k \in DOMAIN sel : sel[k].final = score(Ids(sel)[k])
      BY <1>5, <1>15, <1>17
    <3> QED
      BY <1>17, <3>1 DEF Images, ToSet
  <2> HIDE DEF K, G, S
  <2>5. Cardinality(Images(sel, K)) = Cardinality(K) /\ Cardinality(K) \in Nat
    BY <1>12, <2>2, ImageIs
  <2>6. Cardinality(Images(Ids(sel), K)) = Cardinality(K)
    BY <1>17, <1>18, <2>2, ImageIs
  <2>7. Cardinality(Images(sel, K)) <= Cardinality(G) /\ Cardinality(G) \in Nat
    BY <2>1, <2>3, Parts
  <2>8. MinPapersKept \in Nat
    BY RetrievalAssumption
  <2>9. Cardinality(S) < MinPapersKept
    BY <2>1, <2>4, <2>5, <2>6, <2>7, <2>8
  <2> QED
    BY <2>9 DEF S
<1>29. ASSUME NEW p \in ToSet(carryover) \ ToSet(Ids(sel)), rerank[p] >= MinScore
       PROVE  Cardinality(others) = room /\ \A i \in others : sel[i].final >= score(p)
  <2>1. p \in Papers /\ hit(p) \in ToSet(hs) /\ hit(p).id = p /\ hit(p).rerank = rerank[p]
          /\ hit(p).final = score(p)
    BY <1>3, <1>5, <1>11
  <2>2. hit(p) \in ToSet(hs) \ ToSet(sel)
    BY <1>21, <2>1
  <2>3. /\ Cardinality(other) = Max({0, PapersForAnswer - Cardinality(first)})
        /\ \A h \in other : h.final >= score(p)
    BY <1>12, <1>29, <2>1, <2>2
  <2> HIDE DEF others, other, first
  <2> QED
    BY <1>13, <1>23, <1>27, <2>3
<1>30. Selects(sel, channels, carryover, pinned, rerank)
  BY <1>20, <1>22, <1>24, <1>25, <1>26, <1>28, <1>29 DEF Selects, score
<1> QED
  BY <1>1, <1>19, <1>30

-----------------------------------------------------------------------------
\* Answer: what holds at every step.

Passage       == [paper: Papers, chunk: ChunkIds \cup {0}]
ScoredPassage == [paper: Papers, chunk: ChunkIds \cup {0}, score: Int]
Draft         == [text: Texts, tags: SUBSET Tags]
Written       == [text: Texts, tags: SUBSET Sources]
Checked       == [seq: Int, text: Texts, verdict: Verdicts, tags: SUBSET Sources, spurious: BOOLEAN]

\* A row: nothing yet, or a payload.
Slot(S) == {row \in Seq(S) : Len(row) <= 1}

StoreTypes == store \in [Papers -> [ready: BOOLEAN, chunks: SUBSET ChunkIds]]

ThreadTypes ==
    thread \in [papers: PaperLists, chunks: SUBSET ChunkIds, pinned: PaperLists, filters: Filters \cup {NoFilters}]

SavedTypes ==
    saved \in [queries: Slot(Nat), papers: Slot(HitLists), chain: Slot(HitLists),
               passages: Slot(Seq(Passage)), read: Slot(Seq(Sources)), draft: Slot(Seq(Draft))]

WorkTypes ==
    /\ pc \in {"asked", "rewritten", "selected", "read", "again", "found", "fetched", "chained", "chosen",
               "evidence", "nothing", "written", "checked", "verified", "stored", "failed"}
    /\ hits \in HitLists /\ scored \in Seq(ScoredPassage)
    /\ passages \in (IF pc = "chosen" THEN Seq(ScoredPassage) ELSE Seq(Passage))
    /\ notes \in Seq(Sources) /\ drafts \in Seq(Written)
    /\ \A i \in DOMAIN finals : finals[i] \in Checked
    /\ restarts \in 0..MaxRestarts

\* The steps after the passages are chosen, and those with what they have.
Answering == {"evidence", "read", "again", "written", "checked", "verified", "stored", "failed"}
Noted     == {"read", "again", "written", "checked", "verified", "stored", "failed"}
Drafted   == {"written", "checked", "verified", "stored", "failed"}

NoneRechunked == \A q \in Papers : store[q].chunks # ChunksOf[q][2]

StoreFacts == \A p \in Papers : ~store[p].ready => store[p].chunks = {}

\* Of a run that goes on from its rows: the papers of the two rows differ, and the hits are of the first.
PaperFacts ==
    /\ pc # "asked" => Recorded(saved.queries)
    /\ Recorded(saved.chain) => /\ Recorded(saved.papers)
                                /\ ToSet(Ids(saved.chain[1])) \cap ToSet(Ids(saved.papers[1])) = {}
    /\ pc \in {"selected", "found", "fetched"} =>
         /\ Recorded(saved.papers)
         /\ ToSet(Ids(hits)) = ToSet(Ids(saved.papers[1]))

\* A passage that is recorded is there, unless a paper has been chunked anew.
RecordedFacts ==
    /\ pc \in {"chosen", "nothing"} \cup Answering => Recorded(saved.passages)
    /\ Recorded(saved.passages) =>
         \A i \in DOMAIN saved.passages[1] :
            \/ saved.passages[1][i].chunk \in {0} \cup AllChunks
            \/ \E q \in Papers : store[q].ready /\ store[q].chunks = ChunksOf[q][2]
    /\ Recorded(saved.read) => /\ Recorded(saved.passages)
                               /\ ToSet(saved.read[1]) \subseteq SourcesOf(saved.passages[1])

EvidenceFacts ==
    /\ pc = "chosen" => saved.passages[1] = Bare(passages)
    /\ pc \in Answering =>
         /\ SourcesOf(passages) \cup ToSet(notes) \subseteq SourcesOf(saved.passages[1])
         /\ NoneRechunked => passages = saved.passages[1]
    /\ pc \notin Noted => notes = <<>>
    /\ pc \notin Drafted => drafts = <<>>
    /\ \A i \in DOMAIN drafts : drafts[i].tags \subseteq SourcesOf(passages)

\* What the verifier has said for a sentence.
Supported(i) == \E j \in judged : j.seq = i /\ j.text = finals[i].text /\ j.span \in finals[i].tags

FinalFacts ==
    /\ pc \in {"checked", "verified", "stored"} =>
         /\ DOMAIN finals = DOMAIN drafts
         /\ \A i \in DOMAIN finals :
              /\ finals[i].seq = i /\ finals[i].tags = drafts[i].tags
              /\ finals[i].verdict # "unsupported_removed" =>
                   /\ finals[i].tags # {}
                   /\ NamesIn[finals[i].text] \subseteq UNION {Mentions(t) : t \in finals[i].tags}
              /\ finals[i].verdict = "supported" => finals[i].text = drafts[i].text /\ Supported(i)
    /\ pc = "checked" =>
         \A i \in DOMAIN finals : finals[i].verdict = "partial_rewritten" /\ finals[i].spurious =>
              finals[i].text = drafts[i].text
    /\ pc \in {"verified", "stored"} => \A i \in DOMAIN finals : finals[i].verdict # "unsupported_removed"
      => Supported(i)

AnswerInv ==
    /\ StoreTypes /\ ThreadTypes /\ SavedTypes /\ WorkTypes
    /\ StoreFacts /\ PaperFacts /\ RecordedFacts /\ EvidenceFacts /\ FinalFacts

-----------------------------------------------------------------------------
\* Rows, sources and passages.

LEMMA RowIs ==
  ASSUME NEW S, NEW row \in Slot(S)
  PROVE  Recorded(row) => row[1] \in S
  BY DEF Slot, Recorded

LEMMA ChunksFinite ==
  /\ IsFiniteSet(ChunkIds) /\ ChunkIds \subseteq Int /\ 0 \notin ChunkIds
  /\ \A p \in Papers, g \in {1, 2} : ChunksOf[p][g] \subseteq ChunkIds
<1>1. IsFiniteSet(ChunkIds) /\ ChunkIds \subseteq Nat \ {0}
  BY AnswerAssumption
<1>2. \A g \in {1, 2} : g \in 1..2
  OBVIOUS
<1>3. \A p \in Papers, g \in {1, 2} : ChunksOf[p][g] \subseteq ChunkIds
  BY <1>2 DEF ChunkIds
<1> QED
  BY <1>1, <1>3

LEMMA PaperOfIs ==
  ASSUME NEW source \in Sources
  PROVE  PaperOf(source) \in Papers
<1>1. CASE source \in {"a"} \X Papers
  <2>1. source[1] = "a" /\ source[2] \in Papers
    BY <1>1
  <2> QED
    BY <2>1 DEF PaperOf
<1>2. CASE source \in {"c"} \X ChunkIds
  <2>1. source[1] # "a" /\ source[2] \in ChunkIds
    BY <1>2
  <2>2. \E p \in Papers : \E g \in 1..2 : source[2] \in ChunksOf[p][g]
    BY <2>1 DEF ChunkIds
  <2> QED
    BY <2>1, <2>2 DEF PaperOf
<1> QED
  BY <1>1, <1>2 DEF Sources

LEMMA SourceIs ==
  ASSUME NEW passage, passage.paper \in Papers, passage.chunk \in ChunkIds \cup {0}
  PROVE  Source(passage) \in Sources
  BY DEF Source, Sources

LEMMA SourcesOfIs ==
  ASSUME NEW ps, \A i \in DOMAIN ps : ps[i].paper \in Papers /\ ps[i].chunk \in ChunkIds \cup {0}
  PROVE  SourcesOf(ps) \in SUBSET Sources
  BY SourceIs DEF SourcesOf

LEMMA BareIs ==
  ASSUME NEW ps \in Seq(ScoredPassage)
  PROVE  Bare(ps) \in Seq(Passage)
<1>1. Len(ps) \in Nat /\ DOMAIN ps = 1..Len(ps)
  OBVIOUS
<1>2. \A i \in 1..Len(ps) : [paper |-> ps[i].paper, chunk |-> ps[i].chunk] \in Passage
  <2> SUFFICES ASSUME NEW i \in 1..Len(ps) PROVE [paper |-> ps[i].paper, chunk |-> ps[i].chunk] \in Passage
    OBVIOUS
  <2>1. ps[i] \in ScoredPassage
    OBVIOUS
  <2>2. ps[i].paper \in Papers /\ ps[i].chunk \in ChunkIds \cup {0}
    BY <2>1 DEF ScoredPassage
  <2> QED
    BY <2>2 DEF Passage
<1>3. Bare(ps) = [i \in 1..Len(ps) |-> [paper |-> ps[i].paper, chunk |-> ps[i].chunk]]
  BY <1>1 DEF Bare
<1> QED
  BY <1>1, <1>2, <1>3

\* The channels keep to the papers that pass.
LEMMA FilteredIs ==
  ASSUME NEW r \in Rankings, NEW f
  PROVE  ChannelsOf(Filtered(r, f), Papers) /\ Reach(Filtered(r, f)) \subseteq {p \in Papers : Passes(f, p)}
<1> DEFINE pl(s) == {i \in DOMAIN s : Passes(f, s[i])}
           al(s) == {i \in DOMAIN s : Passes(f, s[i]) /\ Anchor(s[i])}
           passing == {p \in Papers : Passes(f, p)}
<1>1. r.keyword \in Seq(Papers) /\ r.vector \in Seq(Papers) /\ r.near \in Seq(Papers)
        /\ r.title \in Seq(Papers)
  BY AnswerAssumption
<1>2. ASSUME NEW s \in Seq(Papers), NEW places, places \subseteq DOMAIN s, \A i \in places : Passes(f, s[i])
      PROVE  At(s, places) \in Seq(Papers) /\ ToSet(At(s, places)) \subseteq passing
  <2>1. At(s, places) \in Seq(Papers) /\ \A x \in ToSet(At(s, places)) : \E i \in places : s[i] = x
    BY <1>2, AtHas
  <2>2. \A i \in DOMAIN s : s[i] \in Papers
    OBVIOUS
  <2> QED
    BY <1>2, <2>1, <2>2
<1>3. \A s : /\ pl(s) \subseteq DOMAIN s /\ \A i \in pl(s) : Passes(f, s[i])
             /\ al(s) \subseteq DOMAIN s /\ \A i \in al(s) : Passes(f, s[i])
  OBVIOUS
<1>4. /\ Filtered(r, f).keyword = At(r.keyword, pl(r.keyword))
         /\ Filtered(r, f).vector = At(r.vector, pl(r.vector))
      /\ Filtered(r, f).near = At(r.near, al(r.near)) /\ Filtered(r, f).title = At(r.title, al(r.title))
  BY DEF Filtered
<1> HIDE DEF pl, al, passing
<1>5. \A s \in Seq(Papers) : /\ At(s, pl(s)) \in Seq(Papers) /\ ToSet(At(s, pl(s))) \subseteq passing
                             /\ At(s, al(s)) \in Seq(Papers) /\ ToSet(At(s, al(s))) \subseteq passing
  BY <1>2, <1>3
<1>6. ChannelsOf(Filtered(r, f), Papers)
  BY <1>1, <1>4, <1>5 DEF ChannelsOf
<1>7. Reach(Filtered(r, f)) \subseteq passing
  BY <1>1, <1>4, <1>5 DEF Reach
<1> QED
  BY <1>6, <1>7 DEF passing

\* Two lists of papers that differ are one list.
LEMMA HitsConcat ==
  ASSUME NEW hs \in HitLists, NEW gs \in HitLists, ToSet(Ids(hs)) \cap ToSet(Ids(gs)) = {}
  PROVE  hs \o gs \in HitLists
<1> DEFINE u == hs \o gs
<1>1. hs \in Seq(Hit) /\ gs \in Seq(Hit) /\ Distinct(Ids(hs)) /\ Distinct(Ids(gs))
  BY DEF HitLists
<1>2. u \in Seq(Hit) /\ Len(u) = Len(hs) + Len(gs)
  BY <1>1, ConcatKeeps
<1>3. \A h \in Hit : h.id \in Papers
  BY DEF Hit
<1>4. Identified(hs, Papers) /\ Identified(gs, Papers) /\ Identified(u, Papers)
  BY <1>1, <1>2, <1>3 DEF Identified
<1>5. /\ Ids(hs) \in Seq(Papers) /\ Len(Ids(hs)) = Len(hs) /\ \A i \in DOMAIN hs : Ids(hs)[i] = hs[i].id
      /\ Ids(gs) \in Seq(Papers) /\ Len(Ids(gs)) = Len(gs) /\ \A i \in DOMAIN gs : Ids(gs)[i] = gs[i].id
      /\ Ids(u) \in Seq(Papers) /\ Len(Ids(u)) = Len(u) /\ \A i \in DOMAIN u : Ids(u)[i] = u[i].id
  BY <1>1, <1>2, <1>4, IdsIs
<1>6. Distinct(Ids(hs) \o Ids(gs)) /\ Ids(hs) \o Ids(gs) \in Seq(Papers)
        /\ Len(Ids(hs) \o Ids(gs)) = Len(hs) + Len(gs)
  BY <1>1, <1>5, ConcatKeeps
<1>7. Ids(u) = Ids(hs) \o Ids(gs)
  <2> DEFINE n == Len(hs)
             m == Len(gs)
             w == Ids(hs) \o Ids(gs)
             a == Ids(hs)
             b == Ids(gs)
  <2>1. n \in Nat /\ m \in Nat /\ DOMAIN hs = 1..n /\ DOMAIN gs = 1..m /\ DOMAIN u = 1..(n + m)
    BY <1>1, <1>2
  <2>2. \A i \in 1..(n + m) : u[i] = IF i <= n THEN hs[i] ELSE gs[i - n]
    BY <1>1, ConcatProperties
  <2>3. w \in Seq(Papers) /\ Len(w) = n + m /\ \A i \in 1..(n + m) : w[i] = IF i <= n THEN a[i] ELSE b[i - n]
    BY <1>5, <1>6, ConcatProperties
  <2>4. Ids(u) \in Seq(Papers) /\ Len(Ids(u)) = n + m /\ \A i \in 1..(n + m) : Ids(u)[i] = u[i].id
    BY <1>2, <1>5, <2>1
  <2>5. (\A i \in 1..n : a[i] = hs[i].id) /\ (\A i \in 1..m : b[i] = gs[i].id)
    BY <1>5, <2>1
  <2> HIDE DEF n, m, w, a, b, u
  <2>6. ASSUME NEW i \in 1..(n + m) PROVE Ids(u)[i] = w[i]
    <3>1. CASE i <= n
      <4>1. i \in 1..n
        BY <2>1, <3>1
      <4> QED
        BY <2>2, <2>3, <2>4, <2>5, <3>1, <4>1
    <3>2. CASE ~(i <= n)
      <4>1. i - n \in 1..m
        BY <2>1, <3>2
      <4> QED
        BY <2>2, <2>3, <2>4, <2>5, <3>2, <4>1
    <3> QED
      BY <3>1, <3>2
  <2>7. Ids(u) = w
    BY <2>3, <2>4, <2>6
  <2> QED
    BY <2>7 DEF w
<1> QED
  BY <1>2, <1>6, <1>7 DEF HitLists

LEMMA HitListIs ==
  ASSUME NEW hs \in HitLists
  PROVE  /\ hs \in Seq(Hit) /\ Len(hs) \in Nat /\ DOMAIN hs = 1..Len(hs) /\ Distinct(Ids(hs))
         /\ Ids(hs) \in Seq(Papers) /\ DOMAIN Ids(hs) = DOMAIN hs
         /\ \A i \in DOMAIN hs : /\ Ids(hs)[i] = hs[i].id /\ hs[i] \in Hit /\ hs[i].id \in Papers
                                 /\ hs[i].state \in BOOLEAN /\ hs[i].rerank \in Int
<1>1. hs \in Seq(Hit) /\ Distinct(Ids(hs))
  BY DEF HitLists
<1>2. Len(hs) \in Nat /\ DOMAIN hs = 1..Len(hs) /\ \A i \in DOMAIN hs : hs[i] \in Hit
  BY <1>1
<1>3. \A h \in Hit : h.id \in Papers /\ h.state \in BOOLEAN /\ h.rerank \in Int
  BY DEF Hit
<1>4. Identified(hs, Papers)
  BY <1>2, <1>3 DEF Identified
<1>5. Ids(hs) \in Seq(Papers) /\ DOMAIN Ids(hs) = DOMAIN hs /\ \A i \in DOMAIN hs : Ids(hs)[i] = hs[i].id
  BY <1>1, <1>4, IdsIs
<1> QED
  BY <1>1, <1>2, <1>3, <1>5

LEMMA NoHits ==
  /\ <<>> \in HitLists /\ ToSet(Ids(<<>>)) = {}
<1>1. <<>> \in Seq(Hit) /\ DOMAIN <<>> = {}
  OBVIOUS
<1>2. DOMAIN Ids(<<>>) = {}
  BY <1>1 DEF Ids
<1> QED
  BY <1>1, <1>2 DEF HitLists, Distinct, ToSet

\* load_hits
LEMMA LoadedIs ==
  ASSUME StoreTypes, NEW hs \in HitLists
  PROVE  Loaded(hs) \in HitLists /\ Ids(Loaded(hs)) = Ids(hs)
<1> DEFINE fresh(h) == [h EXCEPT !.state = store[h.id].ready]
           n == Len(hs)
<1>1. hs \in Seq(Hit) /\ n \in Nat /\ DOMAIN hs = 1..n /\ \A i \in DOMAIN hs : hs[i] \in Hit
  BY HitListIs
<1>2. ASSUME NEW h \in Hit PROVE fresh(h) \in Hit /\ fresh(h).id = h.id
  <2>1. h.id \in Papers
    BY DEF Hit
  <2>2. store[h.id].ready \in BOOLEAN
    BY <2>1 DEF StoreTypes
  <2> QED
    BY <2>2 DEF Hit
<1>3. Loaded(hs) = [i \in 1..n |-> fresh(hs[i])]
  BY <1>1 DEF Loaded
<1> HIDE DEF fresh
<1>4. Loaded(hs) \in Seq(Hit) /\ DOMAIN Loaded(hs) = 1..n /\ \A i \in 1..n : Loaded(hs)[i].id = hs[i].id
  BY <1>1, <1>2, <1>3
<1>5. Ids(Loaded(hs)) = Ids(hs)
  <2>1. Ids(Loaded(hs)) = [i \in 1..n |-> Loaded(hs)[i].id]
    BY <1>4 DEF Ids
  <2>2. Ids(hs) = [i \in 1..n |-> hs[i].id]
    BY <1>1 DEF Ids
  <2> QED
    BY <1>4, <2>1, <2>2
<1> QED
  BY <1>4, <1>5 DEF HitLists

\* step_chain
LEMMA ChainAddedIs ==
  ASSUME NEW hs \in HitLists, NEW stateOf \in [Papers -> BOOLEAN], NEW rerank \in [Papers -> Int]
  PROVE  /\ ChainAdded(hs, stateOf, rerank) \in HitLists
         /\ ToSet(Ids(hs)) \cap ToSet(Ids(ChainAdded(hs, stateOf, rerank))) = {}
<1> DEFINE top   == ToSet(First(ChainFrom, Ids(hs)))
           refs  == {e[2] : e \in {e \in Cites : e[1] \in top}} \ ToSet(Ids(hs))
           least == Min({hs[i].rerank : i \in DOMAIN hs})
           S     == {p \in refs : rerank[p] >= least}
           score == [p \in S |-> rerank[p]]
           ranked == Ranked(score)
           order == First(ChainMax, ranked)
           hit(p) == [id |-> p, state |-> stateOf[p], rerank |-> rerank[p], final |-> rerank[p], chained |-> TRUE]
           added == [i \in DOMAIN order |-> hit(order[i])]
<1>1. CASE hs = <<>>
  <2>1. ChainAdded(hs, stateOf, rerank) = <<>>
    BY <1>1 DEF ChainAdded
  <2> QED
    BY <2>1, NoHits
<1>2. CASE hs # <<>>
  <2>1. ChainAdded(hs, stateOf, rerank) = added
    BY <1>2 DEF ChainAdded
  <2>2. S \subseteq Papers /\ S \cap ToSet(Ids(hs)) = {}
    BY RetrievalAssumption
  <2>3. IsFiniteSet(Papers) /\ Papers \subseteq Int /\ ChainMax \in Nat
    BY RetrievalAssumption
  <2>4. score \in [S -> Int] /\ IsFiniteSet(S) /\ S \subseteq Int
    <3> HIDE DEF S
    <3>1. \A p \in S : rerank[p] \in Int
      BY <2>2
    <3> QED
      BY <2>2, <2>3, <3>1, FS_Subset
  <2> HIDE DEF S, score
  <2>5. /\ Cardinality(S) \in Nat /\ Ranked(score) \in [1..Cardinality(S) -> S]
        /\ \A i, j \in 1..Cardinality(S) : Ranked(score)[i] = Ranked(score)[j] => i = j
    BY <2>4, RankedIs
  <2>6. ranked \in Seq(S) /\ DOMAIN ranked = 1..Cardinality(S)
    BY <2>5
  <2>7. Distinct(ranked)
    BY <2>5, <2>6 DEF Distinct
  <2> HIDE DEF ranked
  <2>8. order \in Seq(S)
    BY <2>3, <2>6, FirstIs
  <2>9. Distinct(order)
    BY <2>3, <2>6, <2>7, FirstKeeps
  <2> HIDE DEF order
  <2>10. Len(order) \in Nat /\ DOMAIN order = 1..Len(order) /\ \A i \in DOMAIN order : order[i] \in S
    BY <2>8
  <2>11. \A p \in S : hit(p) \in Hit /\ hit(p).id = p
    <3> SUFFICES ASSUME NEW p \in S PROVE hit(p) \in Hit /\ hit(p).id = p
      OBVIOUS
    <3>1. p \in Papers /\ stateOf[p] \in BOOLEAN /\ rerank[p] \in Int
      BY <2>2
    <3> QED
      BY <3>1 DEF Hit
  <2> HIDE DEF hit
  <2>12. added \in Seq(Hit) /\ DOMAIN added = DOMAIN order /\ \A i \in DOMAIN order : added[i].id = order[i]
    BY <2>10, <2>11
  <2> HIDE DEF added
  <2>13. Ids(added) = order
    <3>1. Ids(added) = [i \in 1..Len(order) |-> order[i]]
      BY <2>10, <2>12 DEF Ids
    <3> QED
      BY <2>8, <2>10, <3>1
  <2>14. ToSet(order) \subseteq S
    BY <2>8, ToSetIs
  <2> QED
    BY <2>1, <2>2, <2>9, <2>12, <2>13, <2>14 DEF HitLists
<1> QED
  BY <1>1, <1>2

\* FlattenSeq: the lists one after the other.
LEMMA FlattenIs ==
  ASSUME NEW T, NEW lists \in Seq(Seq(T))
  PROVE  FlattenSeq(lists) \in Seq(T)
<1> DEFINE n == Len(lists)
           D == 1..n
           step == [x \in Int \X Seq(T) |-> IF x[1] \in D THEN x[2] \o lists[x[1]] ELSE x[2]]
           a == 1
           base == lists[1]
           f0 == CHOOSE f : f = [i \in 1..n |-> IF i = 1 THEN lists[i] ELSE f[i - 1] \o lists[i]]
<1>1. n \in Nat /\ D = DOMAIN lists /\ \A i \in D : lists[i] \in Seq(T)
  OBVIOUS
<1>2. CASE n = 0
  <2>1. FlattenSeq(lists) = lists
    BY <1>2 DEF FlattenSeq
  <2>2. lists = <<>>
    BY <1>2
  <2> QED
    BY <2>1, <2>2
<1>3. CASE n # 0
  <2>1. FlattenSeq(lists) = f0[n]
    BY <1>3 DEF FlattenSeq
  <2>2. step \in Steps(Seq(T))
    <3>1. ASSUME NEW i \in Int, NEW s \in Seq(T) PROVE (IF i \in D THEN s \o lists[i] ELSE s) \in Seq(T)
      <4>1. CASE i \in D
        <5>1. lists[i] \in Seq(T)
          BY <1>1, <4>1
        <5>2. s \o lists[i] \in Seq(T)
          BY <5>1, ConcatKeeps
        <5> QED
          BY <4>1, <5>2
      <4>2. CASE i \notin D
        BY <4>2
      <4> QED
        BY <4>1, <4>2
    <3> QED
      BY <3>1 DEF Steps
  <2>3. base \in Seq(T) /\ a \in Int /\ n \in Int /\ 1 \in D
    BY <1>1, <1>3
  <2>4. \A i \in D, s \in Seq(T) : step[<<i, s>>] = s \o lists[i]
    <3> SUFFICES ASSUME NEW i \in D, NEW s \in Seq(T) PROVE step[<<i, s>>] = s \o lists[i]
      OBVIOUS
    <3> DEFINE x == <<i, s>>
    <3>1. x \in Int \X Seq(T) /\ x[1] = i /\ x[2] = s
      BY <1>1
    <3> HIDE DEF x
    <3>2. step[x] = IF x[1] \in D THEN x[2] \o lists[x[1]] ELSE x[2]
      BY <3>1
    <3> QED
      BY <3>1, <3>2 DEF x
  <2> HIDE DEF step, a, base
  <2>5. PICK f : Recursive(f, a, n, Seq(T), base, step)
    BY <2>2, <2>3, RecursionExists
  <2>6. f \in [D -> Seq(T)] /\ \A i \in D : f[i] = IF i = 1 THEN base ELSE step[<<i, f[i - 1]>>]
    BY <2>5 DEF Recursive, a
  <2>7. f = [i \in 1..n |-> IF i = 1 THEN lists[i] ELSE f[i - 1] \o lists[i]]
    <3>1. ASSUME NEW i \in D PROVE f[i] = IF i = 1 THEN lists[i] ELSE f[i - 1] \o lists[i]
      <4>1. CASE i = 1
        BY <2>6, <4>1 DEF base
      <4>2. CASE i # 1
        <5>1. i - 1 \in D
          BY <1>1, <4>2
        <5>2. f[i - 1] \in Seq(T)
          BY <2>6, <5>1
        <5> QED
          BY <2>4, <2>6, <4>2, <5>2
      <4> QED
        BY <4>1, <4>2
    <3> QED
      BY <2>6, <3>1
  <2>8. f0 = [i \in 1..n |-> IF i = 1 THEN lists[i] ELSE f0[i - 1] \o lists[i]]
    BY <2>7
  <2> DEFINE good == {k \in Nat : k + 1 \in D => f0[k + 1] \in Seq(T)}
  <2> HIDE DEF f0
  <2>9. \A i \in D : f0[i] = IF i = 1 THEN lists[i] ELSE f0[i - 1] \o lists[i]
    BY <2>8
  <2>10. 0 \in good
    <3>1. 0 + 1 = 1
      OBVIOUS
    <3>2. f0[1] = lists[1]
      BY <2>3, <2>9
    <3>3. f0[1] \in Seq(T)
      BY <1>1, <2>3, <3>2
    <3> QED
      BY <3>1, <3>3
  <2>11. \A k \in Nat : k \in good => k + 1 \in good
    <3> SUFFICES ASSUME NEW k \in Nat, k \in good, k + 1 + 1 \in D PROVE f0[k + 1 + 1] \in Seq(T)
      OBVIOUS
    <3> DEFINE i == k + 1 + 1
    <3>1. i \in D /\ i # 1 /\ i - 1 = k + 1 /\ k + 1 \in D
      BY <1>1
    <3>2. f0[i - 1] \in Seq(T) /\ lists[i] \in Seq(T)
      BY <1>1, <3>1
    <3>3. f0[i] = f0[i - 1] \o lists[i]
      BY <2>9, <3>1
    <3> HIDE DEF i
    <3>4. f0[i] \in Seq(T)
      BY <3>2, <3>3, ConcatKeeps
    <3> QED
      BY <3>4 DEF i
  <2> HIDE DEF good
  <2>12. \A k \in Nat : k \in good
    BY <2>10, <2>11, NatSetInduction
  <2>13. n - 1 \in Nat /\ (n - 1) + 1 = n /\ n \in D
    BY <1>1, <1>3
  <2>14. n - 1 \in good
    BY <2>12, <2>13
  <2>15. f0[n] \in Seq(T)
    BY <2>13, <2>14 DEF good
  <2> QED
    BY <2>1, <2>15
<1> QED
  BY <1>2, <1>3

\* thread_cited
LEMMA ThreadCitedIs ==
  ASSUME NEW sentences \in Earlier
  PROVE  ThreadCited(sentences).papers \in PaperLists /\ ThreadCited(sentences).chunks \in SUBSET ChunkIds
<1> DEFINE R == [verdict: Verdicts, sources: Seq(Sources)]
           kl == {i \in DOMAIN sentences : Kept(sentences[i].verdict)}
           kept == At(sentences, kl)
           lists == [i \in DOMAIN kept |-> kept[i].sources]
           cited == FlattenSeq(lists)
           fl == {i \in DOMAIN cited : \A k \in 1..(i - 1) : PaperOf(cited[k]) # PaperOf(cited[i])}
           first == At(cited, fl)
           papers == [i \in DOMAIN first |-> PaperOf(first[i])]
           chunks == {s[2] : s \in {s \in ToSet(cited) : s[1] = "c"}}
<1>1. ThreadCited(sentences).papers = papers /\ ThreadCited(sentences).chunks = chunks
  BY DEF ThreadCited
<1>2. sentences \in Seq(R)
  BY AnswerAssumption
<1>3. kl \subseteq DOMAIN sentences
  OBVIOUS
<1> HIDE DEF kl, R
<1>4. kept \in Seq(R)
  BY <1>2, <1>3, AtHas
<1> HIDE DEF kept
<1>5. lists \in Seq(Seq(Sources))
  <2>1. Len(kept) \in Nat /\ DOMAIN kept = 1..Len(kept) /\ \A i \in DOMAIN kept : kept[i] \in R
    BY <1>4
  <2>2. \A r \in R : r.sources \in Seq(Sources)
    BY DEF R
  <2> QED
    BY <2>1, <2>2
<1> HIDE DEF lists
<1>6. cited \in Seq(Sources)
  BY <1>5, FlattenIs
<1> HIDE DEF cited
<1>7. Len(cited) \in Nat /\ DOMAIN cited = 1..Len(cited) /\ \A i \in DOMAIN cited : cited[i] \in Sources
  BY <1>6
<1>8. fl \subseteq DOMAIN cited
  OBVIOUS
<1>9. \A i, j \in fl : i < j => PaperOf(cited[i]) # PaperOf(cited[j])
  <2> SUFFICES ASSUME NEW i \in fl, NEW j \in fl, i < j PROVE PaperOf(cited[i]) # PaperOf(cited[j])
    OBVIOUS
  <2>1. i \in 1..(j - 1)
    BY <1>7
  <2> QED
    BY <2>1
<1> HIDE DEF fl
<1>10. /\ IsFiniteSet(fl) /\ Cardinality(fl) \in Nat /\ Ascending(fl) \in [1..Cardinality(fl) -> fl]
       /\ \A i, j \in 1..Cardinality(fl) : i < j => Ascending(fl)[i] < Ascending(fl)[j]
       /\ first \in Seq(Sources)
  BY <1>6, <1>8, AtIs
<1>11. first = [i \in 1..Cardinality(fl) |-> cited[Ascending(fl)[i]]]
  BY <1>10 DEF At
<1> HIDE DEF first
<1>12. DOMAIN first = 1..Cardinality(fl) /\ \A i \in DOMAIN first : first[i] = cited[Ascending(fl)[i]]
         /\ first[i] \in Sources
  BY <1>10, <1>11
<1>13. papers \in Seq(Papers)
  <2>1. \A i \in DOMAIN first : PaperOf(first[i]) \in Papers
    BY <1>12, PaperOfIs
  <2> QED
    BY <1>10, <1>12, <2>1
<1>14. Distinct(papers)
  <2> SUFFICES ASSUME NEW i \in DOMAIN first, NEW j \in DOMAIN first, i < j
               PROVE  PaperOf(first[i]) # PaperOf(first[j])
    <3>1. \A i \in DOMAIN papers : i \in DOMAIN first /\ i \in Nat /\ papers[i] = PaperOf(first[i])
      BY <1>12
    <3> HIDE DEF papers
    <3> SUFFICES ASSUME NEW i \in DOMAIN papers, NEW j \in DOMAIN papers, papers[i] = papers[j] PROVE i = j
      BY DEF Distinct
    <3>2. ~(i < j) /\ ~(j < i)
      BY <3>1
    <3> QED
      BY <3>1, <3>2
  <2>1. Ascending(fl)[i] \in fl /\ Ascending(fl)[j] \in fl /\ Ascending(fl)[i] < Ascending(fl)[j]
    BY <1>10, <1>12
  <2> QED
    BY <1>9, <1>12, <2>1
<1>15. chunks \subseteq ChunkIds
  <2>1. ToSet(cited) \subseteq Sources
    BY <1>6, ToSetIs
  <2>2. \A s \in Sources : s[1] = "c" => s[2] \in ChunkIds
    BY DEF Sources
  <2> QED
    BY <2>1, <2>2
<1> QED
  BY <1>1, <1>13, <1>14, <1>15 DEF PaperLists

\* The chunks that passages are made of.
LEMMA FoundChunksIs ==
  ASSUME StoreTypes, ThreadTypes, hits \in HitLists, NEW found \in FoundChunks
  PROVE  found \subseteq AllChunks /\ found \subseteq ChunkIds /\ IsFiniteSet(found)
<1> DEFINE ready == {hits[i].id : i \in {i \in DOMAIN hits : hits[i].state}}
           S == UNION {store[p].chunks : p \in ready}
           reused == thread.chunks \cap AllChunks
<1>1. PICK lists \in ChunkLists(S) : found = FusedChunks(lists, reused)
  BY DEF FoundChunks
<1>2. ready \subseteq Papers
  BY HitListIs
<1>3. \A p \in Papers : store[p].chunks \subseteq ChunkIds
  BY DEF StoreTypes
<1>4. S \subseteq AllChunks /\ AllChunks \subseteq ChunkIds /\ reused \subseteq AllChunks
  BY <1>2, <1>3 DEF AllChunks
<1> HIDE DEF S, reused
<1>5. S \in SUBSET ChunkIds
  BY <1>4
<1>6. lists \in Seq(Seq(S))
  BY <1>5, AnswerAssumption
<1> DEFINE cut == [i \in DOMAIN lists |-> First(ChunkK, lists[i])]
           fused == First(PassageTopN, Ids(RrfFuse(cut)))
<1>7. Len(lists) \in Nat /\ DOMAIN lists = 1..Len(lists) /\ \A i \in DOMAIN lists : lists[i] \in Seq(S)
  BY <1>6
<1>8. ChunkK \in Nat /\ PassageTopN \in Nat
  BY RetrievalAssumption
<1>9. \A i \in DOMAIN lists : First(ChunkK, lists[i]) \in Seq(S)
  BY <1>7, <1>8, FirstIs
<1>10. DOMAIN cut = DOMAIN lists /\ \A i \in DOMAIN cut : cut[i] \in Seq(S)
  BY <1>9
<1>11. IsFiniteSet(DOMAIN cut)
  <2>1. IsFiniteSet(1..Len(lists))
    <3> DEFINE from == 1
    <3>1. from \in Int /\ Len(lists) \in Int
      BY <1>7
    <3> HIDE DEF from
    <3>2. IsFiniteSet(from..Len(lists))
      BY <3>1, FS_Interval
    <3> QED
      BY <3>2 DEF from
  <2> QED
    BY <1>7, <1>10, <2>1
<1> HIDE DEF cut
<1>12. IsFiniteSet(S) /\ S \subseteq Int
  BY <1>5, ChunksFinite, FS_Subset
<1>13. Ids(RrfFuse(cut)) \in Seq(S)
  BY <1>10, <1>11, <1>12, RrfFuseIs
<1>14. fused \in Seq(S)
  BY <1>8, <1>13, FirstIs
<1>15. FusedChunks(lists, reused) = ToSet(fused) \cup reused
  BY DEF FusedChunks, cut
<1> HIDE DEF fused
<1>16. ToSet(fused) \subseteq S
  BY <1>14, ToSetIs
<1>17. found \subseteq AllChunks /\ found \in SUBSET ChunkIds
  BY <1>1, <1>4, <1>15, <1>16
<1> QED
  BY <1>17, ChunksFinite, FS_Subset

LEMMA ChunkPassagesIs ==
  ASSUME NEW found \in SUBSET ChunkIds, IsFiniteSet(found), NEW score \in [found -> PassageScores]
  PROVE  /\ ChunkPassages(score) \in Seq(ScoredPassage) /\ Distinct(ChunkPassages(score))
         /\ \A p \in ToSet(ChunkPassages(score)) : p.chunk \in found
<1> DEFINE order == Ascending(found)
           n == Cardinality(found)
           passage(x) == [paper |-> PaperOf(<<"c", x>>), chunk |-> x, score |-> score[x]]
           ps == ChunkPassages(score)
<1>1. found \subseteq Int
  BY ChunksFinite
<1>2. /\ n \in Nat /\ order \in [1..n -> found]
      /\ \A i, j \in 1..n : order[i] = order[j] => i = j
  BY <1>1, AscendingIs
<1>3. ASSUME NEW x \in found PROVE passage(x) \in ScoredPassage /\ passage(x).chunk = x
  <2> DEFINE source == <<"c", x>>
  <2>1. source \in Sources
    BY DEF Sources
  <2> HIDE DEF source
  <2>2. PaperOf(source) \in Papers
    BY <2>1, PaperOfIs
  <2>3. score[x] \in Int
    BY AnswerAssumption
  <2>4. PaperOf(<<"c", x>>) \in Papers
    BY <2>2 DEF source
  <2> QED
    BY <2>3, <2>4 DEF ScoredPassage
<1>4. DOMAIN score = found
  OBVIOUS
<1>5. ps = [i \in 1..n |-> passage(order[i])]
  <2>1. DOMAIN order = 1..n
    BY <1>2
  <2> QED
    BY <1>4, <2>1 DEF ChunkPassages
<1> HIDE DEF passage, ps, order, n
<1>6. \A i \in 1..n : order[i] \in found
  BY <1>2
<1>7. ps \in Seq(ScoredPassage) /\ DOMAIN ps = 1..n /\ \A i \in 1..n : ps[i].chunk = order[i]
  BY <1>2, <1>3, <1>5, <1>6
<1>8. Distinct(ps)
  BY <1>2, <1>7 DEF Distinct
<1>9. \A p \in ToSet(ps) : p.chunk \in found
  BY <1>6, <1>7 DEF ToSet
<1> QED
  BY <1>7, <1>8, <1>9 DEF ps

LEMMA AbstractsIs ==
  ASSUME hits \in HitLists
  PROVE  /\ Abstracts \in Seq(ScoredPassage) /\ Distinct(Abstracts)
         /\ \A p \in ToSet(Abstracts) : p.chunk = 0
<1> DEFINE places == {i \in DOMAIN hits : ~hits[i].state}
           bare == At(hits, places)
           passage(h) == [paper |-> h.id, chunk |-> 0, score |-> h.rerank]
           n == Cardinality(places)
           order == Ascending(places)
<1>1. hits \in Seq(Hit) /\ Distinct(Ids(hits)) /\ DOMAIN Ids(hits) = DOMAIN hits
      /\ \A i \in DOMAIN hits : Ids(hits)[i] = hits[i].id
  BY HitListIs
<1>2. places \subseteq DOMAIN hits
  OBVIOUS
<1> HIDE DEF places
<1>3. bare \in Seq(Hit) /\ \A x \in ToSet(bare) : \E i \in places : hits[i] = x
  BY <1>1, <1>2, AtHas
<1>4. Distinct(hits)
  BY <1>1 DEF Distinct
<1>5. Distinct(bare)
  BY <1>1, <1>2, <1>4, AtKeeps
<1>6. Abstracts = [i \in DOMAIN bare |-> passage(bare[i])]
  BY DEF Abstracts, places
<1> HIDE DEF bare
<1>7. Len(bare) \in Nat /\ DOMAIN bare = 1..Len(bare) /\ \A i \in DOMAIN bare : bare[i] \in Hit
  BY <1>3
<1>8. \A h \in Hit : passage(h) \in ScoredPassage /\ passage(h).paper = h.id /\ passage(h).chunk = 0
  BY DEF Hit, ScoredPassage
<1> HIDE DEF passage
<1>9. /\ Abstracts \in Seq(ScoredPassage) /\ DOMAIN Abstracts = DOMAIN bare
      /\ \A i \in DOMAIN bare : Abstracts[i].paper = bare[i].id /\ Abstracts[i].chunk = 0
  BY <1>6, <1>7, <1>8
<1>10. \A i \in DOMAIN bare : \E k \in DOMAIN hits : hits[k] = bare[i]
  BY <1>2, <1>3, <1>7 DEF ToSet
<1>11. \A i, j \in DOMAIN bare : bare[i].id = bare[j].id => bare[i] = bare[j]
  <2> SUFFICES ASSUME NEW i \in DOMAIN bare, NEW j \in DOMAIN bare, bare[i].id = bare[j].id
               PROVE  bare[i] = bare[j]
    OBVIOUS
  <2>1. PICK k \in DOMAIN hits : hits[k] = bare[i]
    BY <1>10
  <2>2. PICK m \in DOMAIN hits : hits[m] = bare[j]
    BY <1>10
  <2>3. Ids(hits)[k] = Ids(hits)[m]
    BY <1>1, <2>1, <2>2
  <2>4. k = m
    BY <1>1, <2>3 DEF Distinct
  <2> QED
    BY <2>1, <2>2, <2>4
<1>12. Distinct(Abstracts)
  BY <1>5, <1>9, <1>11 DEF Distinct
<1>13. \A p \in ToSet(Abstracts) : p.chunk = 0
  BY <1>9 DEF ToSet
<1> QED
  BY <1>9, <1>12, <1>13

\* select_passages: what select_evidence is given.
LEMMA ScoredIs ==
  ASSUME StoreTypes, ThreadTypes, hits \in HitLists, NEW found \in FoundChunks,
         NEW score \in [found -> PassageScores]
  PROVE  LET ps == ChunkPassages(score) \o Abstracts
         IN  /\ ps \in Seq(ScoredPassage) /\ Distinct(ps)
             /\ \A p \in ToSet(ps) : p.chunk \in {0} \cup AllChunks
<1> DEFINE c == ChunkPassages(score)
           a == Abstracts
<1>1. found \subseteq AllChunks /\ found \in SUBSET ChunkIds /\ IsFiniteSet(found)
  BY FoundChunksIs
<1>2. c \in Seq(ScoredPassage) /\ Distinct(c) /\ \A p \in ToSet(c) : p.chunk \in found
  BY <1>1, ChunkPassagesIs
<1>3. a \in Seq(ScoredPassage) /\ Distinct(a) /\ \A p \in ToSet(a) : p.chunk = 0
  BY AbstractsIs
<1> HIDE DEF c, a
<1>4. ToSet(c) \cap ToSet(a) = {}
  BY <1>1, <1>2, <1>3, ChunksFinite
<1>5. c \o a \in Seq(ScoredPassage) /\ ToSet(c \o a) = ToSet(c) \cup ToSet(a) /\ Distinct(c \o a)
  BY <1>2, <1>3, <1>4, ConcatKeeps
<1> QED
  BY <1>1, <1>2, <1>3, <1>5 DEF c, a

\* load_passages
LEMMA ReloadedIs ==
  ASSUME NEW ps \in Seq(Passage)
  PROVE  /\ Reloaded(ps) \in Seq(Passage) /\ SourcesOf(Reloaded(ps)) \subseteq SourcesOf(ps)
         /\ (\A i \in DOMAIN ps : ps[i].chunk \in {0} \cup AllChunks) => Reloaded(ps) = ps
<1> DEFINE abstracts == {ps[i].paper : i \in {i \in DOMAIN ps : ps[i].chunk = 0}}
           there(p) == p.chunk = 0 \/ p.chunk \in AllChunks \/ p.paper \in abstracts
           places == {i \in DOMAIN ps : there(ps[i])}
           kept == At(ps, places)
           again(p) == IF p.chunk \in AllChunks THEN p ELSE [p EXCEPT !.chunk = 0]
<1>1. Len(ps) \in Nat /\ DOMAIN ps = 1..Len(ps) /\ \A i \in DOMAIN ps : ps[i] \in Passage
  OBVIOUS
<1>2. places \subseteq DOMAIN ps /\ \A i \in places : there(ps[i])
  OBVIOUS
<1>3. Reloaded(ps) = [i \in DOMAIN kept |-> again(kept[i])]
  BY DEF Reloaded
<1>4. \A x \in abstracts : \E i \in DOMAIN ps : ps[i].chunk = 0 /\ ps[i].paper = x
  OBVIOUS
<1> HIDE DEF abstracts
<1>5. \A p \in Passage : /\ again(p) \in Passage /\ again(p).paper = p.paper
                         /\ again(p).chunk = (IF p.chunk \in AllChunks THEN p.chunk ELSE 0)
                         /\ p.chunk \in {0} \cup AllChunks => again(p) = p
  BY DEF Passage
<1> HIDE DEF again
<1>6. kept \in Seq(Passage) /\ \A x \in ToSet(kept) : \E i \in places : ps[i] = x
  <2> HIDE DEF places
  <2> QED
    BY <1>2, AtHas
<1>7. (\A i \in DOMAIN ps : ps[i].chunk \in {0} \cup AllChunks) => kept = ps
  <2> SUFFICES ASSUME \A i \in DOMAIN ps : ps[i].chunk \in {0} \cup AllChunks PROVE kept = ps
    OBVIOUS
  <2>1. places = DOMAIN ps
    OBVIOUS
  <2> HIDE DEF places
  <2> QED
    BY <2>1, AtAll
<1> HIDE DEF kept
<1> DEFINE n == Len(kept)
<1>8. n \in Nat /\ DOMAIN kept = 1..n /\ \A i \in 1..n : kept[i] \in Passage /\ kept[i] \in ToSet(kept)
  <2>1. n \in Nat /\ DOMAIN kept = 1..n /\ \A i \in DOMAIN kept : kept[i] \in Passage
    BY <1>6
  <2>2. \A i \in DOMAIN kept : kept[i] \in ToSet(kept)
    BY <1>6, ToSetIs
  <2> QED
    BY <2>1, <2>2
<1> HIDE DEF n
<1>9. Reloaded(ps) \in Seq(Passage) /\ DOMAIN Reloaded(ps) = 1..n
        /\ \A i \in 1..n : Reloaded(ps)[i] = again(kept[i])
  BY <1>3, <1>5, <1>8
<1>10. ASSUME NEW i \in 1..n PROVE Source(Reloaded(ps)[i]) \in SourcesOf(ps)
  <2>1. PICK k \in places : ps[k] = kept[i]
    BY <1>6, <1>8
  <2>2. k \in DOMAIN ps /\ there(kept[i]) /\ kept[i] \in Passage
    BY <1>2, <1>8, <2>1
  <2>3. CASE kept[i].chunk \in {0} \cup AllChunks
    <3>1. Reloaded(ps)[i] = ps[k]
      BY <1>5, <1>9, <2>1, <2>2, <2>3
    <3> QED
      BY <2>2, <3>1 DEF SourcesOf
  <2>4. CASE kept[i].chunk \notin {0} \cup AllChunks
    <3>1. kept[i].paper \in abstracts
      BY <2>2, <2>4
    <3>2. PICK m \in DOMAIN ps : ps[m].chunk = 0 /\ ps[m].paper = kept[i].paper
      BY <1>4, <3>1
    <3>3. Reloaded(ps)[i].chunk = 0 /\ Reloaded(ps)[i].paper = kept[i].paper
      BY <1>5, <1>9, <2>2, <2>4
    <3>4. Source(Reloaded(ps)[i]) = Source(ps[m])
      BY <3>2, <3>3 DEF Source
    <3> QED
      BY <3>4 DEF SourcesOf
  <2> QED
    BY <2>3, <2>4
<1>11. SourcesOf(Reloaded(ps)) \subseteq SourcesOf(ps)
  BY <1>9, <1>10 DEF SourcesOf
<1>12. ASSUME \A i \in DOMAIN ps : ps[i].chunk \in {0} \cup AllChunks PROVE Reloaded(ps) = ps
  <2>1. kept = ps
    BY <1>7, <1>12
  <2>2. \A i \in 1..n : again(kept[i]) = ps[i]
    BY <1>1, <1>5, <1>8, <1>12, <2>1
  <2>3. 1..n = DOMAIN ps /\ ps = [i \in DOMAIN ps |-> ps[i]]
    BY <1>1, <1>8, <2>1
  <2>4. Reloaded(ps) = [i \in 1..n |-> again(kept[i])]
    BY <1>3, <1>8
  <2> QED
    BY <2>2, <2>3, <2>4
<1> QED
  BY <1>9, <1>11, <1>12

\* step_read
LEMMA ReadNotesIs ==
  ASSUME NEW n \in ReadNotes, SourcesOf(passages) \in SUBSET Sources
  PROVE  n \in Seq(Sources) /\ ToSet(n) \subseteq SourcesOf(passages)
<1> DEFINE S == SourcesOf(passages)
           good == {x \in Seq(Sources) : ToSet(x) \subseteq S}
           read == {Valid(reply) : reply \in ReadAnswers(S)}
<1> HIDE DEF S
<1>1. ASSUME NEW reply \in ReadAnswers(S) PROVE Valid(reply) \in good
  <2> DEFINE places == {i \in DOMAIN reply : reply[i] \in S}
             a == At(reply, places)
  <2>1. reply \in Seq(Tags)
    BY AnswerAssumption DEF S
  <2>2. places \subseteq DOMAIN reply /\ \A i \in places : reply[i] \in S
    OBVIOUS
  <2>3. Valid(reply) = First(MaxNotes, a)
    BY DEF Valid, S
  <2> HIDE DEF places
  <2>4. a \in Seq(Tags) /\ \A x \in ToSet(a) : \E i \in places : reply[i] = x
    BY <2>1, <2>2, AtHas
  <2>5. ToSet(a) \subseteq S
    BY <2>2, <2>4
  <2>6. Len(a) \in Nat /\ DOMAIN a = 1..Len(a) /\ \A i \in DOMAIN a : a[i] \in ToSet(a)
    BY <2>4, ToSetIs
  <2> HIDE DEF a
  <2>7. \A i \in DOMAIN a : a[i] \in Sources
    BY <2>5, <2>6 DEF S
  <2>8. a \in Seq(Sources)
    BY <2>4, <2>6, <2>7
  <2>9. MaxNotes \in Nat
    BY AnswerAssumption
  <2> QED
    BY <2>3, <2>5, <2>8, <2>9, FirstIs
<1>2. \A x \in read : x \in good
  BY <1>1
<1>3. \E x \in read : n = x \/ \E again \in read : n = again
  BY DEF ReadNotes, S
<1> QED
  BY <1>2, <1>3 DEF S

LEMMA SkimmedIs ==
  ASSUME passages \in Seq(Passage)
  PROVE  Skimmed \in Seq(Sources) /\ ToSet(Skimmed) \subseteq SourcesOf(passages)
<1>1. Len(passages) \in Nat /\ DOMAIN passages = 1..Len(passages)
        /\ \A i \in DOMAIN passages : passages[i] \in Passage
  OBVIOUS
<1>2. \A p \in Passage : Source(p) \in Sources
  BY SourceIs DEF Passage
<1>3. Skimmed = [i \in 1..Len(passages) |-> Source(passages[i])]
  BY <1>1 DEF Skimmed
<1> QED
  BY <1>1, <1>2, <1>3 DEF ToSet, SourcesOf

\* parse_answer
LEMMA ParseAnswerIs ==
  ASSUME NEW raw \in Seq(Draft), NEW allowed \in SUBSET Sources
  PROVE  /\ ParseAnswer(raw, allowed) \in Seq(Written)
         /\ \A i \in DOMAIN ParseAnswer(raw, allowed) : ParseAnswer(raw, allowed)[i].tags \subseteq allowed
<1> DEFINE tags(d) == UNION {Repaired(t, allowed) : t \in d.tags}
           d2(d) == [text |-> d.text, tags |-> tags(d)]
<1>1. Len(raw) \in Nat /\ DOMAIN raw = 1..Len(raw) /\ \A i \in DOMAIN raw : raw[i] \in Draft
  OBVIOUS
<1>2. \A t : Repaired(t, allowed) \subseteq allowed
  BY DEF Repaired
<1>3. \A d : tags(d) \subseteq allowed
  BY <1>2
<1>4. ParseAnswer(raw, allowed) = [i \in 1..Len(raw) |-> d2(raw[i])]
  BY <1>1 DEF ParseAnswer
<1> HIDE DEF tags
<1>5. \A d \in Draft : d2(d) \in Written /\ d2(d).tags \subseteq allowed
  BY <1>3 DEF Draft, Written
<1> QED
  BY <1>1, <1>4, <1>5

-----------------------------------------------------------------------------
\* Answer: the steps keep what holds at every step.

LEMMA SavedIs ==
  ASSUME SavedTypes
  PROVE  /\ Recorded(saved.queries) => saved.queries[1] \in Nat
         /\ Recorded(saved.papers) => saved.papers[1] \in HitLists
         /\ Recorded(saved.chain) => saved.chain[1] \in HitLists
         /\ Recorded(saved.passages) => saved.passages[1] \in Seq(Passage)
         /\ Recorded(saved.read) => saved.read[1] \in Seq(Sources)
         /\ Recorded(saved.draft) => saved.draft[1] \in Seq(Draft)
<1>1. /\ saved.queries \in Slot(Nat) /\ saved.papers \in Slot(HitLists) /\ saved.chain \in Slot(HitLists)
      /\ saved.passages \in Slot(Seq(Passage)) /\ saved.read \in Slot(Seq(Sources))
      /\ saved.draft \in Slot(Seq(Draft))
  BY DEF SavedTypes
<1>2. \A S : \A row \in Slot(S) : Recorded(row) => row[1] \in S
  BY RowIs
<1> QED
  BY <1>1, <1>2

LEMMA StoreSame ==
  ASSUME StoreTypes, StoreFacts, store' = store
  PROVE  StoreTypes' /\ StoreFacts' /\ AllChunks' = AllChunks /\ NoneRechunked' = NoneRechunked
BY DEF StoreTypes, StoreFacts, AllChunks, NoneRechunked

LEMMA ThreadSame ==
  ASSUME ThreadTypes, thread' = thread
  PROVE  ThreadTypes'
BY DEF ThreadTypes

LEMMA SavedSame ==
  ASSUME SavedTypes, saved' = saved
  PROVE  SavedTypes'
BY DEF SavedTypes

\* A step that leaves the rows and the papers alone.
LEMMA RecordedSame ==
  ASSUME RecordedFacts, StoreTypes, StoreFacts, store' = store, saved' = saved,
         pc' \in {"chosen", "nothing"} \cup Answering => Recorded(saved.passages)
  PROVE  RecordedFacts'
<1>1. AllChunks' = AllChunks
  BY StoreSame
<1> QED
  BY <1>1 DEF RecordedFacts, SourcesOf, Source

\* Restart: nothing is in memory.
LEMMA EmptyWork ==
  ASSUME hits' = <<>>, scored' = <<>>, passages' = <<>>, notes' = <<>>, drafts' = <<>>, finals' = <<>>,
         restarts' \in 0..MaxRestarts, pc' = "asked"
  PROVE  WorkTypes' /\ EvidenceFacts' /\ FinalFacts'
<1>1. hits' \in HitLists
  BY NoHits
<1>2. DOMAIN finals' = {} /\ DOMAIN drafts' = {}
  OBVIOUS
<1>3. WorkTypes'
  <2>1. /\ scored' \in Seq(ScoredPassage) /\ passages' \in Seq(Passage) /\ notes' \in Seq(Sources)
        /\ drafts' \in Seq(Written)
    OBVIOUS
  <2> QED
    BY <1>1, <1>2, <2>1 DEF WorkTypes
<1>4. EvidenceFacts'
  BY <1>2 DEF EvidenceFacts, Answering, Noted, Drafted
<1>5. FinalFacts'
  BY DEF FinalFacts
<1> QED
  BY <1>3, <1>4, <1>5

LEMMA AnswerStarts ==
  ASSUME Init
  PROVE  AnswerInv
<1>1. PICK waiting \in SUBSET Unready :
         store = [p \in Papers |-> [ready |-> p \notin waiting,
                                    chunks |-> IF p \in waiting THEN {} ELSE ChunksOf[p][1]]]
  BY DEF Init
<1>2. PICK sentences \in Earlier, f \in Filters :
         thread = [papers |-> ThreadCited(sentences).papers, chunks |-> ThreadCited(sentences).chunks,
                   pinned |-> <<>>, filters |-> f]
  BY DEF Init
<1>3. /\ saved = [queries |-> <<>>, papers |-> <<>>, chain |-> <<>>, passages |-> <<>>, read |-> <<>>, draft |-> <<>>]
      /\ pc = "asked" /\ hits = <<>> /\ scored = <<>> /\ passages = <<>> /\ notes = <<>> /\ drafts = <<>>
      /\ finals = <<>> /\ restarts = 0
  BY DEF Init
<1>4. StoreTypes
  <2>1. \A p \in Papers : ChunksOf[p][1] \in SUBSET ChunkIds
    BY ChunksFinite
  <2> QED
    BY <1>1, <2>1 DEF StoreTypes
<1>5. StoreFacts
  BY <1>1 DEF StoreFacts
<1>6. ThreadTypes
  <2>1. ThreadCited(sentences).papers \in PaperLists /\ ThreadCited(sentences).chunks \in SUBSET ChunkIds
    BY ThreadCitedIs
  <2>2. <<>> \in PaperLists
    <3>1. <<>> \in Seq(Papers) /\ DOMAIN <<>> = {}
      OBVIOUS
    <3> QED
      BY <3>1 DEF PaperLists, Distinct
  <2> QED
    BY <1>2, <2>1, <2>2 DEF ThreadTypes
<1>7. SavedTypes
  <2>1. \A S : <<>> \in Slot(S)
    BY DEF Slot
  <2> QED
    BY <1>3, <2>1 DEF SavedTypes
<1>8. DOMAIN finals = {} /\ DOMAIN drafts = {}
  BY <1>3
<1>9. WorkTypes
  <2>1. hits \in HitLists
    BY <1>3, NoHits
  <2>2. scored \in Seq(ScoredPassage) /\ passages \in Seq(Passage) /\ notes \in Seq(Sources)
          /\ drafts \in Seq(Written)
    BY <1>3
  <2>3. restarts \in 0..MaxRestarts
    BY <1>3, AnswerAssumption
  <2> QED
    BY <1>3, <1>8, <2>1, <2>2, <2>3 DEF WorkTypes
<1>10. PaperFacts
  BY <1>3 DEF PaperFacts, Recorded
<1>11. RecordedFacts
  BY <1>3 DEF RecordedFacts, Recorded, Answering
<1>12. EvidenceFacts
  BY <1>3, <1>8 DEF EvidenceFacts, Answering, Noted, Drafted
<1>13. FinalFacts
  BY <1>3 DEF FinalFacts
<1> QED
  BY <1>4, <1>5, <1>6, <1>7, <1>9, <1>10, <1>11, <1>12, <1>13 DEF AnswerInv

\* BecomesReady: the paper had no chunks, so none is lost.
LEMMA BecomesReadyKeeps ==
  ASSUME AnswerInv, NEW p \in Papers, BecomesReady(p)
  PROVE  AnswerInv'
<1>1. /\ StoreTypes /\ StoreFacts /\ ThreadTypes /\ SavedTypes /\ WorkTypes
      /\ PaperFacts /\ RecordedFacts /\ EvidenceFacts /\ FinalFacts
  BY DEF AnswerInv
<1>2. /\ ~store[p].ready /\ pc = "found" /\ pc' = pc
      /\ store' = [store EXCEPT ![p] = [ready |-> TRUE, chunks |-> ChunksOf[p][1]]]
      /\ thread' = thread /\ saved' = saved /\ hits' = hits /\ scored' = scored /\ passages' = passages
      /\ notes' = notes /\ drafts' = drafts /\ judged' = judged /\ finals' = finals /\ restarts' = restarts
  BY DEF BecomesReady, workVars
<1>3. /\ \A q \in Papers : q # p => store'[q] = store[q]
      /\ store'[p] = [ready |-> TRUE, chunks |-> ChunksOf[p][1]]
      /\ store[p].chunks = {}
  BY <1>1, <1>2 DEF StoreTypes, StoreFacts
<1>4. StoreTypes'
  <2>1. ChunksOf[p][1] \in SUBSET ChunkIds
    BY ChunksFinite
  <2> QED
    BY <1>1, <1>2, <2>1 DEF StoreTypes
<1>5. StoreFacts'
  BY <1>1, <1>3 DEF StoreFacts
<1>6. ThreadTypes' /\ SavedTypes'
  BY <1>1, <1>2, ThreadSame, SavedSame
<1>7. WorkTypes'
  BY <1>1, <1>2 DEF WorkTypes
<1>8. PaperFacts'
  BY <1>1, <1>2 DEF PaperFacts
<1>9. RecordedFacts'
  <2>1. AllChunks \subseteq AllChunks'
    BY <1>3 DEF AllChunks
  <2>2. \A q \in Papers : store[q].ready => store'[q] = store[q]
    BY <1>2, <1>3
  <2> QED
    BY <1>1, <1>2, <2>1, <2>2 DEF RecordedFacts, Answering
<1>10. EvidenceFacts'
  BY <1>1, <1>2 DEF EvidenceFacts, Answering, Noted, Drafted, SourcesOf, Source
<1>11. FinalFacts'
  BY <1>2 DEF FinalFacts
<1> QED
  BY <1>4, <1>5, <1>6, <1>7, <1>8, <1>9, <1>10, <1>11 DEF AnswerInv

\* Rechunked: from now on passages may be gone.
LEMMA RechunkedKeeps ==
  ASSUME AnswerInv, NEW p \in Papers, Rechunked(p)
  PROVE  AnswerInv'
<1>1. /\ StoreTypes /\ StoreFacts /\ ThreadTypes /\ SavedTypes /\ WorkTypes
      /\ PaperFacts /\ RecordedFacts /\ EvidenceFacts /\ FinalFacts
  BY DEF AnswerInv
<1>2. /\ store[p].ready /\ pc' = pc /\ pc \in {"evidence", "written"}
      /\ store' = [store EXCEPT ![p].chunks = ChunksOf[p][2]]
      /\ thread' = thread /\ saved' = saved /\ hits' = hits /\ scored' = scored /\ passages' = passages
      /\ notes' = notes /\ drafts' = drafts /\ judged' = judged /\ finals' = finals /\ restarts' = restarts
  BY DEF Rechunked, workVars
<1>3. /\ \A q \in Papers : store'[q].ready = store[q].ready /\ (q # p => store'[q] = store[q])
      /\ store'[p].chunks = ChunksOf[p][2] /\ store'[p].ready
  BY <1>1, <1>2 DEF StoreTypes
<1>4. StoreTypes'
  <2>1. ChunksOf[p][2] \in SUBSET ChunkIds
    BY ChunksFinite
  <2> QED
    BY <1>1, <1>2, <2>1 DEF StoreTypes
<1>5. StoreFacts'
  BY <1>1, <1>3 DEF StoreFacts
<1>6. ThreadTypes' /\ SavedTypes'
  BY <1>1, <1>2, ThreadSame, SavedSame
<1>7. WorkTypes'
  BY <1>1, <1>2 DEF WorkTypes
<1>8. PaperFacts'
  BY <1>1, <1>2 DEF PaperFacts
<1>9. RecordedFacts'
  BY <1>1, <1>2, <1>3 DEF RecordedFacts, Answering, SourcesOf, Source
<1>10. EvidenceFacts'
  <2>1. ~NoneRechunked'
    BY <1>3 DEF NoneRechunked
  <2> QED
    BY <1>1, <1>2, <2>1 DEF EvidenceFacts, Answering, Noted, Drafted, SourcesOf, Source
<1>11. FinalFacts'
  BY <1>1, <1>2 DEF FinalFacts
<1> QED
  BY <1>4, <1>5, <1>6, <1>7, <1>8, <1>9, <1>10, <1>11 DEF AnswerInv

\* PinPaper and UnpinPaper: each paper is pinned once.
LEMMA PinsKeep ==
  ASSUME AnswerInv, NEW p \in Pinnable, PinPaper(p) \/ UnpinPaper(p)
  PROVE  AnswerInv'
<1>1. /\ StoreTypes /\ StoreFacts /\ ThreadTypes /\ SavedTypes /\ WorkTypes
      /\ PaperFacts /\ RecordedFacts /\ EvidenceFacts /\ FinalFacts
  BY DEF AnswerInv
<1>2. /\ pc' = pc /\ pc = "asked" /\ store' = store
      /\ saved' = saved /\ hits' = hits /\ scored' = scored /\ passages' = passages
      /\ notes' = notes /\ drafts' = drafts /\ judged' = judged /\ finals' = finals /\ restarts' = restarts
  BY DEF PinPaper, UnpinPaper, workVars
<1>3. thread.pinned \in Seq(Papers) /\ Distinct(thread.pinned) /\ p \in Papers
  BY <1>1, AnswerAssumption DEF ThreadTypes, PaperLists
<1>4. ThreadTypes'
  <2>1. ASSUME NEW s \in PaperLists, thread' = [thread EXCEPT !.pinned = s] PROVE ThreadTypes'
    BY <1>1, <2>1 DEF ThreadTypes
  <2>2. CASE PinPaper(p)
    <3> DEFINE s == thread.pinned
               t == Append(s, p)
    <3>1. thread' = [thread EXCEPT !.pinned = t] /\ ~Contains(s, p)
      BY <2>2 DEF PinPaper
    <3>2. Len(s) \in Nat /\ DOMAIN s = 1..Len(s) /\ s \in Seq(Papers)
      BY <1>3
    <3>3. \A i \in 1..Len(s) : s[i] # p
      BY <3>1 DEF Contains
    <3>4. t \in Seq(Papers) /\ DOMAIN t = 1..(Len(s) + 1)
            /\ \A i \in 1..(Len(s) + 1) : t[i] = IF i = Len(s) + 1 THEN p ELSE s[i]
      BY <1>3, <3>2
    <3> HIDE DEF s, t
    <3>5. \A i \in 1..(Len(s) + 1) : i = Len(s) + 1 \/ i \in 1..Len(s)
      BY <3>2
    <3>6. Distinct(t)
      BY <1>3, <3>2, <3>3, <3>4, <3>5 DEF Distinct, s
    <3> QED
      BY <2>1, <3>1, <3>4, <3>6 DEF PaperLists
  <2>3. CASE UnpinPaper(p)
    <3>1. thread' = [thread EXCEPT !.pinned = NotIn(thread.pinned, {p})]
      BY <2>3 DEF UnpinPaper
    <3>2. NotIn(thread.pinned, {p}) \in Seq(Papers) /\ Distinct(NotIn(thread.pinned, {p}))
      BY <1>3, NotInIs
    <3> QED
      BY <2>1, <3>1, <3>2 DEF PaperLists
  <2> QED
    BY <2>2, <2>3
<1>5. StoreTypes' /\ StoreFacts' /\ SavedTypes'
  BY <1>1, <1>2, StoreSame, SavedSame
<1>6. WorkTypes'
  BY <1>1, <1>2 DEF WorkTypes
<1>7. PaperFacts'
  BY <1>1, <1>2 DEF PaperFacts
<1>8. RecordedFacts'
  BY <1>1, <1>2, RecordedSame DEF Answering
<1>9. EvidenceFacts'
  BY <1>1, <1>2 DEF EvidenceFacts, Answering, Noted, Drafted, SourcesOf, Source
<1>10. FinalFacts'
  BY <1>2 DEF FinalFacts
<1> QED
  BY <1>4, <1>5, <1>6, <1>7, <1>8, <1>9, <1>10 DEF AnswerInv

LEMMA RewriteKeeps ==
  ASSUME AnswerInv, Rewrite
  PROVE  AnswerInv'
<1>1. /\ StoreTypes /\ StoreFacts /\ ThreadTypes /\ SavedTypes /\ WorkTypes
      /\ PaperFacts /\ RecordedFacts /\ EvidenceFacts /\ FinalFacts
  BY DEF AnswerInv
<1>2. /\ pc = "asked" /\ pc' = "rewritten" /\ store' = store /\ thread' = thread
      /\ hits' = hits /\ scored' = scored /\ passages' = passages
      /\ notes' = notes /\ drafts' = drafts /\ judged' = judged /\ finals' = finals /\ restarts' = restarts
  BY DEF Rewrite, Goes, ctxVars, workVars
<1>3. /\ SavedTypes' /\ Recorded(saved'.queries)
      /\ saved'.papers = saved.papers /\ saved'.chain = saved.chain
      /\ saved'.passages = saved.passages /\ saved'.read = saved.read
  <2>1. CASE Recorded(saved.queries)
    <3>1. saved' = saved
      BY <2>1 DEF Rewrite
    <3> QED
      BY <1>1, <2>1, <3>1, SavedSame
  <2>2. CASE ~Recorded(saved.queries)
    <3>1. PICK n \in 0..(MaxQueries + 1) : saved' = [saved EXCEPT !.queries = <<IF n = 0 THEN 1 ELSE Min({n, MaxQueries})>>]
      BY <2>2 DEF Rewrite
    <3> DEFINE k == IF n = 0 THEN 1 ELSE Min({n, MaxQueries})
               row == <<k>>
    <3>2. n \in Int /\ MaxQueries \in Int /\ n \in Nat /\ MaxQueries \in Nat
      BY AnswerAssumption
    <3>3. Min({n, MaxQueries}) = IF n <= MaxQueries THEN n ELSE MaxQueries
      BY <3>2, LesserOfTwo
    <3>4. k \in Nat
      BY <3>2, <3>3
    <3> HIDE DEF k
    <3>5. row \in Slot(Nat) /\ Recorded(row)
      BY <3>4, <1>1 DEF Slot, Recorded
    <3>6. saved' = [saved EXCEPT !.queries = row]
      BY <3>1 DEF k
    <3> HIDE DEF row
    <3> QED
      BY <1>1, <3>5, <3>6 DEF SavedTypes
  <2> QED
    BY <2>1, <2>2
<1>4. StoreTypes' /\ StoreFacts' /\ ThreadTypes' /\ AllChunks' = AllChunks
  BY <1>1, <1>2, StoreSame, ThreadSame
<1>5. WorkTypes'
  BY <1>1, <1>2 DEF WorkTypes
<1>6. PaperFacts'
  BY <1>1, <1>2, <1>3 DEF PaperFacts
<1>7. RecordedFacts'
  BY <1>1, <1>2, <1>3, <1>4 DEF RecordedFacts, Answering, SourcesOf, Source
<1>8. EvidenceFacts'
  BY <1>1, <1>2 DEF EvidenceFacts, Answering, Noted, Drafted, SourcesOf, Source
<1>9. FinalFacts'
  BY <1>2 DEF FinalFacts
<1> QED
  BY <1>3, <1>4, <1>5, <1>6, <1>7, <1>8, <1>9 DEF AnswerInv

\* The steps that only change the hits and their rows, before the passages are chosen.
LEMMA PapersKeep ==
  ASSUME AnswerInv, store' = store, ThreadTypes',
         pc \notin Answering \cup {"chosen"}, pc' \in {"selected", "found", "fetched", "chained"},
         scored' = scored, passages' = passages, notes' = notes, drafts' = drafts, finals' = finals,
         restarts' = restarts, hits' \in HitLists, SavedTypes',
         saved'.passages = saved.passages, saved'.read = saved.read, PaperFacts'
  PROVE  AnswerInv'
<1>1. /\ StoreTypes /\ StoreFacts /\ WorkTypes /\ RecordedFacts /\ EvidenceFacts
  BY DEF AnswerInv
<1>2. StoreTypes' /\ StoreFacts' /\ AllChunks' = AllChunks
  BY <1>1, StoreSame
<1>3. WorkTypes'
  BY <1>1 DEF WorkTypes
<1>4. RecordedFacts'
  BY <1>1, <1>2 DEF RecordedFacts, Answering, SourcesOf, Source
<1>5. EvidenceFacts'
  BY <1>1 DEF EvidenceFacts, Answering, Noted, Drafted, SourcesOf, Source
<1>6. FinalFacts'
  BY DEF FinalFacts
<1> QED
  BY <1>2, <1>3, <1>4, <1>5, <1>6 DEF AnswerInv

\* What brings the thread's papers to the passages: only the chunks.
LEMMA OnlyChunksIs ==
  ASSUME ThreadTypes
  PROVE  /\ thread' = OnlyChunks => ThreadTypes'
         /\ thread' = [OnlyChunks EXCEPT !.chunks = {}] => ThreadTypes'
<1>1. <<>> \in PaperLists
  <2>1. <<>> \in Seq(Papers) /\ DOMAIN <<>> = {}
    OBVIOUS
  <2> QED
    BY <2>1 DEF PaperLists, Distinct
<1>2. OnlyChunks \in [papers: PaperLists, chunks: SUBSET ChunkIds, pinned: PaperLists, filters: Filters \cup {NoFilters}]
  BY <1>1 DEF ThreadTypes, OnlyChunks
<1> HIDE DEF OnlyChunks
<1> QED
  BY <1>2 DEF ThreadTypes

LEMMA FindPapersKeeps ==
  ASSUME AnswerInv, FindPapers
  PROVE  AnswerInv' /\ SelectionInv'
<1>1. ThreadTypes /\ SavedTypes /\ StoreTypes /\ PaperFacts
  BY DEF AnswerInv
<1>2. /\ pc = "rewritten" /\ pc' = "selected" /\ ~Recorded(saved.papers) /\ store' = store /\ thread' = thread
      /\ scored' = scored /\ passages' = passages /\ notes' = notes /\ drafts' = drafts
      /\ finals' = finals /\ restarts' = restarts
  BY DEF FindPapers, Goes, ctxVars
<1>3. PICK rankings \in [1..saved.queries[1] -> Rankings], rerank \in Rerankings :
        LET channels == [q \in DOMAIN rankings |-> Filtered(rankings[q], thread.filters)]
        IN  /\ \E candidates \in {Candidates(channels, thread.papers, thread.pinned)} :
                  hits' = Search(candidates, rerank)
            /\ search' = <<[channels |-> channels, rerank |-> rerank]>>
            /\ saved' = [saved EXCEPT !.papers = <<hits'>>]
  BY DEF FindPapers
<1> DEFINE channels == [q \in DOMAIN rankings |-> Filtered(rankings[q], thread.filters)]
           n == saved.queries[1]
           passing == {p \in Papers : Passes(thread.filters, p)}
           candidates == Candidates(channels, thread.papers, thread.pinned)
<1>4. hits' = Search(candidates, rerank) /\ search' = <<[channels |-> channels, rerank |-> rerank]>>
      /\ saved' = [saved EXCEPT !.papers = <<hits'>>]
  BY <1>3
<1>5. n \in Nat
  BY <1>1, <1>2, SavedIs DEF PaperFacts
<1> HIDE DEF n
<1>6. rankings \in [1..n -> Rankings]
  BY <1>3 DEF n
<1>7. DOMAIN channels = 1..n /\ \A q \in 1..n : channels[q] = Filtered(rankings[q], thread.filters)
        /\ rankings[q] \in Rankings
  BY <1>6
<1>8. \A q \in 1..n : ChannelsOf(channels[q], Papers) /\ Reach(channels[q]) \subseteq passing
  BY <1>7, FilteredIs
<1> HIDE DEF channels
<1>9. IsFiniteSet(1..n)
  <2> DEFINE from == 1
  <2>1. from \in Int /\ n \in Int
    BY <1>5
  <2> HIDE DEF from
  <2>2. IsFiniteSet(from..n)
    BY <2>1, FS_Interval
  <2> QED
    BY <2>2 DEF from
<1>10. AllChannels(channels, Papers)
  BY <1>7, <1>8, <1>9 DEF AllChannels
<1>11. Reached(channels) \subseteq passing
  BY <1>7, <1>8 DEF Reached
<1>12. thread.papers \in PaperLists /\ thread.pinned \in PaperLists
  BY <1>1 DEF ThreadTypes
<1>13. StateOf \in [Papers -> BOOLEAN]
  BY <1>1 DEF StoreTypes, StateOf
<1>14. rerank \in [Papers -> Int]
  BY AnswerAssumption
<1>15. hits' = SelectPapers(candidates, thread.papers, thread.pinned, StateOf, rerank)
  BY <1>4 DEF Search
<1> HIDE DEF StateOf
<1>16. hits' \in HitLists /\ Selects(hits', channels, thread.papers, thread.pinned, rerank)
  BY <1>10, <1>12, <1>13, <1>14, <1>15, SelectPapersIs
<1>17. SavedTypes' /\ saved'.papers = <<hits'>> /\ saved'.chain = saved.chain
         /\ saved'.queries = saved.queries
       /\ saved'.passages = saved.passages /\ saved'.read = saved.read
  <2> DEFINE row == <<hits'>>
  <2>1. row \in Slot(HitLists)
    BY <1>16 DEF Slot
  <2>2. saved' = [saved EXCEPT !.papers = row]
    BY <1>4
  <2> HIDE DEF row
  <2>3. SavedTypes' /\ saved'.papers = row /\ saved'.chain = saved.chain /\ saved'.queries = saved.queries
        /\ saved'.passages = saved.passages /\ saved'.read = saved.read
    BY <1>1, <2>1, <2>2 DEF SavedTypes
  <2> QED
    BY <2>3 DEF row
<1>18. PaperFacts'
  <2>1. ~Recorded(saved'.chain)
    BY <1>1, <1>2, <1>17 DEF PaperFacts
  <2>2. Recorded(saved'.papers) /\ saved'.papers[1] = hits'
    BY <1>17 DEF Recorded
  <2>3. Recorded(saved'.queries)
    BY <1>1, <1>2, <1>17 DEF PaperFacts
  <2> QED
    BY <1>2, <2>1, <2>2, <2>3 DEF PaperFacts
<1>19. AnswerInv'
  <2>1. ThreadTypes'
    BY <1>1, <1>2, ThreadSame
  <2>2. pc \notin Answering \cup {"chosen"} /\ pc' \in {"selected", "found", "fetched", "chained"}
    BY <1>2 DEF Answering
  <2> QED
    BY <1>2, <1>16, <1>17, <1>18, <2>1, <2>2, PapersKeep
<1>20. SelectionInv'
  <2>1. search'[1].channels = channels /\ search'[1].rerank = rerank
    BY <1>4
  <2> DEFINE score(p) == FinalScore(p, rerank[p], thread.papers)
             ids      == ToSet(Ids(hits'))
             others   == {i \in DOMAIN hits' : hits'[i].id \notin ToSet(thread.pinned)}
  <2>2. /\ Cardinality(ids) = Len(hits')
        /\ ToSet(thread.pinned) \subseteq ids
        /\ Cardinality(others) <= Max({0, PapersForAnswer - Len(thread.pinned)})
        /\ ids \subseteq ToSet(thread.papers) \cup ToSet(thread.pinned) \cup Reached(channels)
        /\ \A i, j \in DOMAIN hits' : i < j => hits'[i].final >= hits'[j].final
        /\ \A i \in others : hits'[i].rerank >= MinScore
                               \/ Cardinality({j \in ids : score(j) > hits'[i].final}) < MinPapersKept
        /\ \A p \in ToSet(thread.papers) \ ids : rerank[p] >= MinScore =>
               /\ Cardinality(others) = Max({0, PapersForAnswer - Len(thread.pinned)})
               /\ \A i \in others : hits'[i].final >= score(p)
    BY <1>16 DEF Selects
  <2>3. ids \subseteq (ToSet(thread.papers) \cup ToSet(thread.pinned)) \cup (Reached(channels) \cap passing)
    <3> HIDE DEF ids, passing
    <3> QED
      BY <1>11, <2>2
  <2>4. others = {i \in DOMAIN hits' : Beside(hits[i])'}
    BY <1>2 DEF Beside
  <2> QED
    BY <1>2, <2>1, <2>2, <2>3, <2>4 DEF SelectionInv, Beside
<1> QED
  BY <1>19, <1>20

LEMMA SelectedKeeps ==
  ASSUME AnswerInv, Selected
  PROVE  AnswerInv'
<1>1. ThreadTypes /\ SavedTypes /\ PaperFacts /\ WorkTypes
  BY DEF AnswerInv
<1>2. /\ pc = "selected" /\ pc' = "found" /\ store' = store /\ thread' = OnlyChunks /\ saved' = saved
         /\ hits' = hits
      /\ scored' = scored /\ passages' = passages /\ notes' = notes /\ drafts' = drafts
      /\ finals' = finals /\ restarts' = restarts
  BY DEF Selected, Goes
<1>3. ThreadTypes' /\ SavedTypes' /\ hits' \in HitLists
  BY <1>1, <1>2, OnlyChunksIs, SavedSame DEF WorkTypes
<1>4. PaperFacts'
  BY <1>1, <1>2 DEF PaperFacts
<1>5. pc \notin Answering \cup {"chosen"} /\ pc' \in {"selected", "found", "fetched", "chained"}
  BY <1>2 DEF Answering
<1> QED
  BY <1>2, <1>3, <1>4, <1>5, PapersKeep

LEMMA LoadSelectedKeeps ==
  ASSUME AnswerInv, LoadSelected
  PROVE  AnswerInv'
<1>1. ThreadTypes /\ SavedTypes /\ StoreTypes /\ PaperFacts
  BY DEF AnswerInv
<1>2. /\ pc = "rewritten" /\ pc' = "found" /\ store' = store /\ thread' = OnlyChunks /\ saved' = saved
      /\ Recorded(saved.papers) /\ hits' = Loaded(saved.papers[1])
      /\ scored' = scored /\ passages' = passages /\ notes' = notes /\ drafts' = drafts
      /\ finals' = finals /\ restarts' = restarts
  BY DEF LoadSelected, Goes
<1>3. saved.papers[1] \in HitLists
  BY <1>1, <1>2, SavedIs
<1>4. hits' \in HitLists /\ Ids(hits') = Ids(saved.papers[1])
  BY <1>1, <1>2, <1>3, LoadedIs
<1>5. ThreadTypes' /\ SavedTypes'
  BY <1>1, <1>2, OnlyChunksIs, SavedSame
<1>6. PaperFacts'
  BY <1>1, <1>2, <1>4 DEF PaperFacts
<1>7. pc \notin Answering \cup {"chosen"} /\ pc' \in {"selected", "found", "fetched", "chained"}
  BY <1>2 DEF Answering
<1> QED
  BY <1>2, <1>4, <1>5, <1>6, <1>7, PapersKeep

LEMMA FetchedKeeps ==
  ASSUME AnswerInv, Fetched
  PROVE  AnswerInv'
<1>1. ThreadTypes /\ SavedTypes /\ StoreTypes /\ PaperFacts /\ WorkTypes
  BY DEF AnswerInv
<1>2. /\ pc = "found" /\ pc' = "fetched" /\ store' = store /\ thread' = thread /\ saved' = saved
         /\ hits' = Loaded(hits)
      /\ scored' = scored /\ passages' = passages /\ notes' = notes /\ drafts' = drafts
      /\ finals' = finals /\ restarts' = restarts
  BY DEF Fetched, Goes, ctxVars
<1>3. hits \in HitLists
  BY <1>1 DEF WorkTypes
<1>4. hits' \in HitLists /\ Ids(hits') = Ids(hits)
  BY <1>1, <1>2, <1>3, LoadedIs
<1>5. ThreadTypes' /\ SavedTypes'
  BY <1>1, <1>2, ThreadSame, SavedSame
<1>6. PaperFacts'
  BY <1>1, <1>2, <1>4 DEF PaperFacts
<1>7. pc \notin Answering \cup {"chosen"} /\ pc' \in {"selected", "found", "fetched", "chained"}
  BY <1>2 DEF Answering
<1> QED
  BY <1>2, <1>4, <1>5, <1>6, <1>7, PapersKeep

LEMMA ChainKeeps ==
  ASSUME AnswerInv, Chain
  PROVE  AnswerInv'
<1>1. ThreadTypes /\ SavedTypes /\ StoreTypes /\ PaperFacts /\ WorkTypes
  BY DEF AnswerInv
<1>2. /\ pc = "fetched" /\ pc' = "chained" /\ store' = store /\ thread' = thread
         /\ hits' = hits \o saved'.chain[1]
      /\ scored' = scored /\ passages' = passages /\ notes' = notes /\ drafts' = drafts
      /\ finals' = finals /\ restarts' = restarts
  BY DEF Chain, Goes, ctxVars
<1>3. PICK rerank \in Rerankings : saved' = [saved EXCEPT !.chain = <<ChainAdded(hits, StateOf, rerank)>>]
  BY DEF Chain
<1> DEFINE added == ChainAdded(hits, StateOf, rerank)
           row == <<added>>
<1>4. hits \in HitLists /\ rerank \in [Papers -> Int] /\ StateOf \in [Papers -> BOOLEAN]
  BY <1>1, AnswerAssumption DEF WorkTypes, StoreTypes, StateOf
<1> HIDE DEF StateOf
<1>5. added \in HitLists /\ ToSet(Ids(hits)) \cap ToSet(Ids(added)) = {}
  BY <1>4, ChainAddedIs
<1>6. saved' = [saved EXCEPT !.chain = row]
  BY <1>3
<1> HIDE DEF added
<1>7. row \in Slot(HitLists) /\ Recorded(row) /\ row[1] = added
  BY <1>5 DEF Slot, Recorded
<1> HIDE DEF row
<1>8. /\ SavedTypes' /\ saved'.chain = row /\ saved'.queries = saved.queries /\ saved'.papers = saved.papers
      /\ saved'.passages = saved.passages /\ saved'.read = saved.read
  BY <1>1, <1>6, <1>7 DEF SavedTypes
<1>9. hits' \in HitLists
  BY <1>2, <1>4, <1>5, <1>7, <1>8, HitsConcat
<1>10. PaperFacts'
  <2>1. Recorded(saved.papers) /\ ToSet(Ids(hits)) = ToSet(Ids(saved.papers[1])) /\ Recorded(saved.queries)
    BY <1>1, <1>2 DEF PaperFacts
  <2>2. ToSet(Ids(saved'.chain[1])) \cap ToSet(Ids(saved'.papers[1])) = {}
    BY <1>5, <1>7, <1>8, <2>1
  <2> QED
    BY <1>2, <1>8, <2>1, <2>2 DEF PaperFacts
<1>11. ThreadTypes'
  BY <1>1, <1>2, ThreadSame
<1>12. pc \notin Answering \cup {"chosen"} /\ pc' \in {"selected", "found", "fetched", "chained"}
  BY <1>2 DEF Answering
<1> QED
  BY <1>2, <1>8, <1>9, <1>10, <1>11, <1>12, PapersKeep

LEMMA LoadChainKeeps ==
  ASSUME AnswerInv, LoadChain
  PROVE  AnswerInv'
<1>1. ThreadTypes /\ SavedTypes /\ StoreTypes /\ PaperFacts /\ WorkTypes
  BY DEF AnswerInv
<1>2. /\ pc = "fetched" /\ pc' = "chained" /\ store' = store /\ thread' = thread /\ saved' = saved
      /\ Recorded(saved.chain) /\ hits' = hits \o Loaded(saved.chain[1])
      /\ scored' = scored /\ passages' = passages /\ notes' = notes /\ drafts' = drafts
      /\ finals' = finals /\ restarts' = restarts
  BY DEF LoadChain, Goes, ctxVars
<1>3. saved.chain[1] \in HitLists /\ hits \in HitLists
  BY <1>1, <1>2, SavedIs DEF WorkTypes
<1>4. Loaded(saved.chain[1]) \in HitLists /\ Ids(Loaded(saved.chain[1])) = Ids(saved.chain[1])
  BY <1>1, <1>3, LoadedIs
<1>5. ToSet(Ids(hits)) \cap ToSet(Ids(Loaded(saved.chain[1]))) = {}
  <2>1. ToSet(Ids(hits)) = ToSet(Ids(saved.papers[1]))
    BY <1>1, <1>2 DEF PaperFacts
  <2>2. ToSet(Ids(saved.chain[1])) \cap ToSet(Ids(saved.papers[1])) = {}
    BY <1>1, <1>2 DEF PaperFacts
  <2> QED
    BY <1>4, <2>1, <2>2
<1>6. hits' \in HitLists
  BY <1>2, <1>3, <1>4, <1>5, HitsConcat
<1>7. ThreadTypes' /\ SavedTypes'
  BY <1>1, <1>2, ThreadSame, SavedSame
<1>8. PaperFacts'
  BY <1>1, <1>2 DEF PaperFacts
<1>9. pc \notin Answering \cup {"chosen"} /\ pc' \in {"selected", "found", "fetched", "chained"}
  BY <1>2 DEF Answering
<1> QED
  BY <1>2, <1>6, <1>7, <1>8, <1>9, PapersKeep

LEMMA SelectPassagesKeeps ==
  ASSUME AnswerInv, SelectPassages
  PROVE  AnswerInv' /\ EvidenceInv'
<1>1. /\ StoreTypes /\ StoreFacts /\ ThreadTypes /\ SavedTypes /\ WorkTypes
      /\ PaperFacts /\ RecordedFacts /\ EvidenceFacts
  BY DEF AnswerInv
<1>2. /\ pc \in {"fetched", "chained"} /\ pc' = "chosen" /\ store' = store /\ thread' = thread /\ hits' = hits
      /\ ~Recorded(saved.passages) /\ passages' = SelectEvidence(scored')
      /\ saved' = [saved EXCEPT !.passages = <<Bare(passages')>>]
      /\ notes' = notes /\ drafts' = drafts /\ finals' = finals /\ restarts' = restarts
  BY DEF SelectPassages, ctxVars
<1>3. PICK found \in FoundChunks : \E score \in [found -> PassageScores] : scored' = ChunkPassages(score) \o Abstracts
  BY DEF SelectPassages
<1>4. PICK score \in [found -> PassageScores] : scored' = ChunkPassages(score) \o Abstracts
  BY <1>3
<1>5. hits \in HitLists
  BY <1>1 DEF WorkTypes
<1>6. /\ scored' \in Seq(ScoredPassage) /\ Distinct(scored')
      /\ \A p \in ToSet(scored') : p.chunk \in {0} \cup AllChunks
  BY <1>1, <1>3, <1>4, <1>5, ScoredIs
<1> DEFINE s == scored'
           T == ToSet(s)
           ps == SelectEvidence(s)
           bare == Bare(ps)
           row == <<bare>>
<1>7. Len(s) \in Nat /\ DOMAIN s = 1..Len(s) /\ T \subseteq ScoredPassage /\ \A i \in DOMAIN s : s[i] \in T
  BY <1>6, ToSetIs
<1>8. s \in Seq(T) /\ \A i \in DOMAIN s : s[i].score \in Int
  <2>1. \A p \in ScoredPassage : p.score \in Int
    BY DEF ScoredPassage
  <2>2. \A i \in DOMAIN s : s[i].score \in Int
    BY <1>7, <2>1
  <2>3. s \in Seq(ScoredPassage)
    BY <1>6
  <2> HIDE DEF s, T
  <2> QED
    BY <1>7, <2>2, <2>3
<1>9. ps \in Seq(T) /\ ChosenWell(ps, s)
  <2>1. \A i, j \in DOMAIN s : s[i] = s[j] => i = j
    BY <1>6 DEF Distinct
  <2> HIDE DEF s, T
  <2> QED
    BY <1>8, <2>1, EvidenceIs
<1>10. passages' = ps
  BY <1>2
<1> HIDE DEF ps
<1>11. ps \in Seq(ScoredPassage) /\ ToSet(ps) \subseteq T /\ DOMAIN ps = 1..Len(ps) /\ Len(ps) \in Nat
       /\ \A i \in DOMAIN ps : ps[i] \in T
  <2> HIDE DEF T, s
  <2>1. ToSet(ps) \subseteq T /\ DOMAIN ps = 1..Len(ps) /\ Len(ps) \in Nat /\ \A i \in DOMAIN ps : ps[i] \in T
    BY <1>9, ToSetIs
  <2> QED
    BY <1>7, <1>9, <2>1
<1>12. bare \in Seq(Passage) /\ DOMAIN bare = DOMAIN ps /\ \A i \in DOMAIN ps : bare[i].chunk = ps[i].chunk
  BY <1>11, BareIs DEF Bare
<1>13. saved' = [saved EXCEPT !.passages = row]
  BY <1>2, <1>10
<1> HIDE DEF bare
<1>14. row \in Slot(Seq(Passage)) /\ Recorded(row) /\ row[1] = bare
  BY <1>12 DEF Slot, Recorded
<1> HIDE DEF row
<1>15. /\ SavedTypes' /\ saved'.passages = row /\ saved'.queries = saved.queries
          /\ saved'.papers = saved.papers
       /\ saved'.chain = saved.chain /\ saved'.read = saved.read
  BY <1>1, <1>13, <1>14 DEF SavedTypes
<1>16. StoreTypes' /\ StoreFacts' /\ ThreadTypes' /\ AllChunks' = AllChunks
  BY <1>1, <1>2, StoreSame, ThreadSame
<1>17. WorkTypes'
  BY <1>1, <1>2, <1>6, <1>10, <1>11 DEF WorkTypes
<1>18. PaperFacts'
  BY <1>1, <1>2, <1>15 DEF PaperFacts
<1>19. RecordedFacts'
  <2>1. ~Recorded(saved'.read)
    BY <1>1, <1>2, <1>15 DEF RecordedFacts
  <2>2. \A i \in DOMAIN bare : bare[i].chunk \in {0} \cup AllChunks
    BY <1>6, <1>11, <1>12
  <2>3. Recorded(saved'.passages) /\ saved'.passages[1] = bare
    BY <1>14, <1>15
  <2> QED
    BY <1>16, <2>1, <2>2, <2>3 DEF RecordedFacts
<1>20. EvidenceFacts'
  <2>1. saved'.passages[1] = Bare(passages')
    BY <1>10, <1>14, <1>15 DEF bare
  <2>2. notes' = <<>> /\ drafts' = <<>>
    BY <1>1, <1>2 DEF EvidenceFacts, Noted, Drafted
  <2>3. DOMAIN drafts' = {}
    BY <2>2
  <2> QED
    BY <1>2, <2>1, <2>2, <2>3 DEF EvidenceFacts, Answering, Noted, Drafted
<1>21. FinalFacts'
  BY <1>2 DEF FinalFacts
<1>22. AnswerInv'
  BY <1>15, <1>16, <1>17, <1>18, <1>19, <1>20, <1>21 DEF AnswerInv
<1>23. EvidenceInv'
  <2>1. ChosenWell(passages', scored') /\ ToSet(passages') \subseteq ToSet(scored')
    BY <1>9, <1>10, <1>11
  <2> QED
    BY <2>1 DEF EvidenceInv, ChosenWell
<1> QED
  BY <1>22, <1>23

LEMMA ChosenKeeps ==
  ASSUME AnswerInv, Chosen
  PROVE  AnswerInv'
<1>1. /\ StoreTypes /\ StoreFacts /\ ThreadTypes /\ SavedTypes /\ WorkTypes
      /\ PaperFacts /\ RecordedFacts /\ EvidenceFacts
  BY DEF AnswerInv
<1>2. /\ pc = "chosen" /\ pc' \in {"nothing", "evidence"} /\ store' = store /\ hits' = <<>> /\ scored' = <<>>
      /\ thread' = [OnlyChunks EXCEPT !.chunks = {}] /\ passages' = Bare(passages)
      /\ notes' = notes /\ drafts' = drafts /\ finals' = finals /\ restarts' = restarts
  BY DEF Chosen, Goes
<1>3. saved' = [saved EXCEPT !.queries = <<1>>, !.papers = <<<<>>>>, !.chain = IF Recorded(@) THEN <<<<>>>> ELSE @]
  BY DEF Chosen
<1> DEFINE none == <<>>
           qs == <<1>>
           hs == <<none>>
           cs == IF Recorded(saved.chain) THEN hs ELSE saved.chain
<1>4. none \in HitLists /\ ToSet(Ids(none)) = {}
  BY NoHits
<1>5. qs \in Slot(Nat) /\ Recorded(qs)
  BY DEF Slot, Recorded
<1>6. saved' = [saved EXCEPT !.queries = qs, !.papers = hs, !.chain = cs]
  BY <1>1, <1>3 DEF SavedTypes
<1> HIDE DEF none, qs
<1>7. hs \in Slot(HitLists) /\ Recorded(hs) /\ hs[1] = none
  BY <1>4 DEF Slot, Recorded
<1> HIDE DEF hs
<1>8. cs \in Slot(HitLists) /\ (Recorded(cs) => cs = hs)
  BY <1>1, <1>7 DEF SavedTypes
<1> HIDE DEF cs
<1>9. /\ SavedTypes' /\ saved'.passages = saved.passages /\ saved'.queries = qs /\ saved'.papers = hs
      /\ saved'.chain = cs /\ saved'.read = saved.read
  BY <1>1, <1>5, <1>6, <1>7, <1>8 DEF SavedTypes
<1>10. StoreTypes' /\ StoreFacts' /\ ThreadTypes' /\ AllChunks' = AllChunks
  BY <1>1, <1>2, StoreSame, OnlyChunksIs
<1>11. passages' \in Seq(Passage)
  BY <1>1, <1>2, BareIs DEF WorkTypes
<1>12. WorkTypes'
  <2>1. hits' \in HitLists /\ scored' \in Seq(ScoredPassage)
    BY <1>2, NoHits
  <2> QED
    BY <1>1, <1>2, <1>11, <2>1 DEF WorkTypes
<1>13. PaperFacts'
  <2>1. Recorded(saved'.queries) /\ Recorded(saved'.papers)
    BY <1>5, <1>7, <1>9
  <2>2. Recorded(saved'.chain) => ToSet(Ids(saved'.chain[1])) \cap ToSet(Ids(saved'.papers[1])) = {}
    BY <1>4, <1>7, <1>8, <1>9
  <2> QED
    BY <1>2, <2>1, <2>2 DEF PaperFacts
<1>14. RecordedFacts'
  <2>1. Recorded(saved.passages)
    BY <1>1, <1>2 DEF RecordedFacts
  <2> QED
    BY <1>1, <1>2, <1>9, <1>10, <2>1 DEF RecordedFacts, SourcesOf, Source
<1>15. EvidenceFacts'
  <2>1. saved'.passages[1] = passages'
    BY <1>1, <1>2, <1>9 DEF EvidenceFacts
  <2>2. notes' = <<>> /\ drafts' = <<>>
    BY <1>1, <1>2 DEF EvidenceFacts, Noted, Drafted
  <2>3. DOMAIN drafts' = {} /\ ToSet(notes') = {}
    BY <2>2 DEF ToSet
  <2> QED
    BY <1>2, <2>1, <2>2, <2>3 DEF EvidenceFacts, Answering, Noted, Drafted, SourcesOf, Source
<1>16. FinalFacts'
  BY <1>2 DEF FinalFacts
<1> QED
  BY <1>9, <1>10, <1>12, <1>13, <1>14, <1>15, <1>16 DEF AnswerInv

LEMMA LoadPassagesKeeps ==
  ASSUME AnswerInv, LoadPassages
  PROVE  AnswerInv'
<1>1. /\ StoreTypes /\ StoreFacts /\ ThreadTypes /\ SavedTypes /\ WorkTypes
      /\ PaperFacts /\ RecordedFacts /\ EvidenceFacts
  BY DEF AnswerInv
<1>2. /\ pc \in {"fetched", "chained"} /\ pc' \in {"nothing", "evidence"} /\ store' = store
         /\ thread' = thread
      /\ saved' = saved /\ hits' = <<>> /\ scored' = scored
      /\ Recorded(saved.passages) /\ passages' = Reloaded(saved.passages[1])
      /\ notes' = notes /\ drafts' = drafts /\ finals' = finals /\ restarts' = restarts
  BY DEF LoadPassages, ctxVars
<1> DEFINE ps == saved.passages[1]
<1>3. ps \in Seq(Passage)
  BY <1>1, <1>2, SavedIs
<1>4. /\ passages' \in Seq(Passage) /\ SourcesOf(passages') \subseteq SourcesOf(ps)
      /\ (\A i \in DOMAIN ps : ps[i].chunk \in {0} \cup AllChunks) => passages' = ps
  BY <1>2, <1>3, ReloadedIs
<1>5. StoreTypes' /\ StoreFacts' /\ ThreadTypes' /\ SavedTypes' /\ NoneRechunked' = NoneRechunked
  BY <1>1, <1>2, StoreSame, ThreadSame, SavedSame
<1>6. WorkTypes'
  <2>1. hits' \in HitLists
    BY <1>2, NoHits
  <2> QED
    BY <1>1, <1>2, <1>4, <2>1 DEF WorkTypes
<1>7. PaperFacts'
  BY <1>1, <1>2 DEF PaperFacts
<1>8. RecordedFacts'
  BY <1>1, <1>2, RecordedSame
<1>9. EvidenceFacts'
  <2>1. NoneRechunked => passages' = ps
    <3> SUFFICES ASSUME NoneRechunked PROVE \A i \in DOMAIN ps : ps[i].chunk \in {0} \cup AllChunks
      BY <1>4
    <3> QED
      BY <1>1, <1>2 DEF RecordedFacts, NoneRechunked
  <2>2. notes' = <<>> /\ drafts' = <<>>
    BY <1>1, <1>2 DEF EvidenceFacts, Noted, Drafted
  <2>3. DOMAIN drafts' = {} /\ ToSet(notes') = {}
    BY <2>2 DEF ToSet
  <2>4. SourcesOf(passages)' = SourcesOf(passages') /\ saved'.passages[1] = ps
        /\ SourcesOf(saved.passages[1])' = SourcesOf(ps)
    BY <1>2 DEF SourcesOf, Source
  <2> HIDE DEF ps
  <2> QED
    BY <1>2, <1>4, <1>5, <2>1, <2>2, <2>3, <2>4 DEF EvidenceFacts, Answering, Noted, Drafted
<1>10. FinalFacts'
  BY <1>2 DEF FinalFacts
<1> QED
  BY <1>5, <1>6, <1>7, <1>8, <1>9, <1>10 DEF AnswerInv

LEMMA PassageSources ==
  ASSUME WorkTypes, pc # "chosen"
  PROVE  passages \in Seq(Passage) /\ SourcesOf(passages) \in SUBSET Sources
<1>1. passages \in Seq(Passage)
  BY DEF WorkTypes
<1>2. \A i \in DOMAIN passages : passages[i].paper \in Papers /\ passages[i].chunk \in ChunkIds \cup {0}
  <2>1. \A p \in Passage : p.paper \in Papers /\ p.chunk \in ChunkIds \cup {0}
    BY DEF Passage
  <2> QED
    BY <1>1, <2>1
<1> QED
  BY <1>1, <1>2, SourcesOfIs

\* The steps that write the answer: they look at the passages, and may record their result.
LEMMA AnswerKeeps ==
  ASSUME AnswerInv, store' = store, thread' = thread, hits' = hits, scored' = scored, passages' = passages,
         restarts' = restarts, pc \in Answering, pc' \in Answering,
         SavedTypes', saved'.queries = saved.queries, saved'.papers = saved.papers, saved'.chain = saved.chain,
         saved'.passages = saved.passages,
         saved'.read = saved.read \/ (saved'.read = <<notes'>> /\ ToSet(notes') \subseteq SourcesOf(passages)),
         notes' \in Seq(Sources), ToSet(notes') \subseteq SourcesOf(saved.passages[1]),
         pc' \notin Noted => notes' = <<>>,
         drafts' \in Seq(Written), pc' \notin Drafted => drafts' = <<>>,
         \A i \in DOMAIN drafts' : drafts'[i].tags \subseteq SourcesOf(passages),
         \A i \in DOMAIN finals' : finals'[i] \in Checked,
         FinalFacts'
  PROVE  AnswerInv'
<1>1. /\ StoreTypes /\ StoreFacts /\ ThreadTypes /\ WorkTypes /\ PaperFacts /\ RecordedFacts /\ EvidenceFacts
  BY DEF AnswerInv
<1>2. /\ pc # "chosen" /\ pc' # "chosen" /\ pc # "asked"
         /\ pc' \notin {"selected", "found", "fetched", "asked"}
      /\ pc' \in {"evidence", "read", "again", "written", "checked", "verified", "stored", "failed"}
  BY DEF Answering
<1>3. StoreTypes' /\ StoreFacts' /\ ThreadTypes' /\ AllChunks' = AllChunks /\ NoneRechunked' = NoneRechunked
  BY <1>1, StoreSame, ThreadSame
<1>4. WorkTypes'
  BY <1>1, <1>2 DEF WorkTypes
<1>5. PaperFacts'
  BY <1>1, <1>2 DEF PaperFacts
<1>6. Recorded(saved.passages) /\ SourcesOf(passages) \subseteq SourcesOf(saved.passages[1])
      /\ (NoneRechunked => passages = saved.passages[1])
  BY <1>1 DEF RecordedFacts, EvidenceFacts
<1>7. SourcesOf(passages)' = SourcesOf(passages)
        /\ SourcesOf(saved.passages[1])' = SourcesOf(saved.passages[1])
  BY DEF SourcesOf, Source
<1>8. RecordedFacts'
  <2>1. Recorded(saved'.read) => ToSet(saved'.read[1]) \subseteq SourcesOf(saved.passages[1])
    <3>1. CASE saved'.read = saved.read
      BY <1>1, <3>1 DEF RecordedFacts
    <3>2. CASE saved'.read = <<notes'>>
      BY <3>2
    <3> QED
      BY <3>1, <3>2
  <2> QED
    BY <1>1, <1>3, <1>6, <1>7, <2>1 DEF RecordedFacts
<1>9. EvidenceFacts'
  BY <1>2, <1>3, <1>6, <1>7 DEF EvidenceFacts
<1> QED
  BY <1>3, <1>4, <1>5, <1>8, <1>9 DEF AnswerInv

LEMMA ReadKeeps ==
  ASSUME AnswerInv, Read
  PROVE  AnswerInv'
<1>1. /\ SavedTypes /\ WorkTypes /\ RecordedFacts /\ EvidenceFacts
  BY DEF AnswerInv
<1>2. /\ pc = "evidence" /\ pc' = "read" /\ store' = store /\ thread' = thread /\ hits' = hits
      /\ scored' = scored /\ passages' = passages /\ drafts' = drafts /\ finals' = finals
        /\ restarts' = restarts
  BY DEF Read, Goes, ctxVars
<1>3. pc \in Answering /\ pc' \in Answering /\ pc' \in Noted /\ pc \notin Drafted
  BY <1>2 DEF Answering, Noted, Drafted
<1>4. passages \in Seq(Passage) /\ SourcesOf(passages) \in SUBSET Sources
  BY <1>1, <1>2, PassageSources
<1>5. SourcesOf(passages) \subseteq SourcesOf(saved.passages[1]) /\ drafts = <<>>
  BY <1>1, <1>3 DEF EvidenceFacts
<1>6. /\ notes' \in Seq(Sources) /\ ToSet(notes') \subseteq SourcesOf(saved.passages[1])
      /\ SavedTypes' /\ saved'.queries = saved.queries /\ saved'.papers = saved.papers
        /\ saved'.chain = saved.chain
      /\ saved'.passages = saved.passages
      /\ saved'.read = saved.read \/ (saved'.read = <<notes'>> /\ ToSet(notes') \subseteq SourcesOf(passages))
  <2>1. CASE Recorded(saved.read)
    <3>1. notes' = saved.read[1] /\ saved' = saved
      BY <2>1 DEF Read
    <3>2. saved.read[1] \in Seq(Sources) /\ ToSet(saved.read[1]) \subseteq SourcesOf(saved.passages[1])
      BY <1>1, <2>1, SavedIs DEF RecordedFacts
    <3> QED
      BY <1>1, <3>1, <3>2, SavedSame
  <2>2. CASE ~Recorded(saved.read)
    <3>1. notes' \in ReadNotes \cup {Skimmed} /\ saved' = [saved EXCEPT !.read = <<notes'>>]
      BY <2>2 DEF Read
    <3>2. notes' \in Seq(Sources) /\ ToSet(notes') \subseteq SourcesOf(passages)
      <4>1. CASE notes' \in ReadNotes
        BY <1>4, <4>1, ReadNotesIs
      <4>2. CASE notes' = Skimmed
        BY <1>4, <4>2, SkimmedIs
      <4> QED
        BY <3>1, <4>1, <4>2
    <3> DEFINE row == <<notes'>>
    <3>3. row \in Slot(Seq(Sources))
      BY <3>2 DEF Slot
    <3>4. saved' = [saved EXCEPT !.read = row]
      BY <3>1
    <3> HIDE DEF row
    <3>5. /\ SavedTypes' /\ saved'.queries = saved.queries /\ saved'.papers = saved.papers
             /\ saved'.chain = saved.chain
          /\ saved'.passages = saved.passages /\ saved'.read = row
      BY <1>1, <3>3, <3>4 DEF SavedTypes
    <3>6. saved'.read = <<notes'>>
      BY <3>5 DEF row
    <3>7. ToSet(notes') \subseteq SourcesOf(saved.passages[1])
      BY <1>5, <3>2
    <3> QED
      BY <3>2, <3>5, <3>6, <3>7
  <2> QED
    BY <2>1, <2>2
<1>7. drafts' \in Seq(Written) /\ DOMAIN drafts' = {} /\ drafts' = <<>>
  BY <1>2, <1>5
<1>8. \A i \in DOMAIN finals' : finals'[i] \in Checked
  BY <1>1, <1>2 DEF WorkTypes
<1>9. FinalFacts'
  BY <1>2 DEF FinalFacts
<1> QED
  BY <1>2, <1>3, <1>6, <1>7, <1>8, <1>9, AnswerKeeps

LEMMA WriteAgainKeeps ==
  ASSUME AnswerInv, WriteAgain
  PROVE  AnswerInv'
<1>1. /\ SavedTypes /\ WorkTypes /\ RecordedFacts /\ EvidenceFacts
  BY DEF AnswerInv
<1>2. /\ pc = "read" /\ pc' = "again" /\ store' = store /\ thread' = thread /\ hits' = hits /\ saved' = saved
         /\ notes' = notes
      /\ scored' = scored /\ passages' = passages /\ drafts' = drafts /\ finals' = finals
        /\ restarts' = restarts
  BY DEF WriteAgain, Goes, ctxVars, workVars
<1>3. pc \in Answering /\ pc' \in Answering /\ pc' \in Noted /\ pc \notin Drafted
  BY <1>2 DEF Answering, Noted, Drafted
<1>4. drafts = <<>> /\ ToSet(notes) \subseteq SourcesOf(saved.passages[1]) /\ notes \in Seq(Sources)
  BY <1>1, <1>3 DEF EvidenceFacts, WorkTypes
<1>5. drafts' \in Seq(Written) /\ DOMAIN drafts' = {} /\ drafts' = <<>>
  BY <1>2, <1>4
<1>6. \A i \in DOMAIN finals' : finals'[i] \in Checked
  BY <1>1, <1>2 DEF WorkTypes
<1>7. FinalFacts'
  BY <1>2 DEF FinalFacts
<1>8. SavedTypes'
  BY <1>1, <1>2, SavedSame
<1>9. ToSet(notes') \subseteq SourcesOf(saved.passages[1]) /\ notes' \in Seq(Sources)
  BY <1>2, <1>4
<1> QED
  BY <1>2, <1>3, <1>5, <1>6, <1>7, <1>8, <1>9, AnswerKeeps

LEMMA WriteKeeps ==
  ASSUME AnswerInv, Write
  PROVE  AnswerInv'
<1>1. /\ SavedTypes /\ WorkTypes /\ RecordedFacts /\ EvidenceFacts
  BY DEF AnswerInv
<1>2. /\ pc \in {"read", "again"} /\ pc' = "written" /\ store' = store /\ thread' = thread /\ hits' = hits
         /\ notes' = notes
      /\ scored' = scored /\ passages' = passages /\ finals' = finals /\ restarts' = restarts
      /\ drafts' = ParseAnswer(saved'.draft[1], SourcesOf(passages))
  BY DEF Write, ctxVars
<1>3. pc \in Answering /\ pc' \in Answering /\ pc' \in Noted /\ pc' \in Drafted /\ pc # "chosen"
  BY <1>2 DEF Answering, Noted, Drafted
<1>4. SourcesOf(passages) \in SUBSET Sources
  BY <1>1, <1>3, PassageSources
<1>5. ToSet(notes) \subseteq SourcesOf(saved.passages[1]) /\ notes \in Seq(Sources)
  BY <1>1, <1>3 DEF EvidenceFacts, WorkTypes
<1>6. /\ SavedTypes' /\ saved'.draft[1] \in Seq(Draft)
      /\ saved'.queries = saved.queries /\ saved'.papers = saved.papers /\ saved'.chain = saved.chain
      /\ saved'.passages = saved.passages /\ saved'.read = saved.read
  <2>1. CASE Recorded(saved.draft)
    <3>1. saved' = saved
      BY <2>1 DEF Write
    <3> QED
      BY <1>1, <2>1, <3>1, SavedSame, SavedIs
  <2>2. CASE ~Recorded(saved.draft)
    <3>1. PICK raw \in Drafts(ToSet(notes)) : saved' = [saved EXCEPT !.draft = <<raw>>]
      BY <2>2 DEF Write
    <3>2. ToSet(notes) \in SUBSET Sources
      BY <1>5, ToSetIs
    <3>3. raw \in Seq(Draft)
      BY <3>2, AnswerAssumption DEF Draft
    <3> DEFINE row == <<raw>>
    <3>4. row \in Slot(Seq(Draft)) /\ row[1] = raw
      BY <3>3 DEF Slot
    <3>5. saved' = [saved EXCEPT !.draft = row]
      BY <3>1
    <3> HIDE DEF row
    <3> QED
      BY <1>1, <3>3, <3>4, <3>5 DEF SavedTypes
  <2> QED
    BY <2>1, <2>2
<1>7. drafts' \in Seq(Written) /\ \A i \in DOMAIN drafts' : drafts'[i].tags \subseteq SourcesOf(passages)
  BY <1>2, <1>4, <1>6, ParseAnswerIs
<1>8. \A i \in DOMAIN finals' : finals'[i] \in Checked
  BY <1>1, <1>2 DEF WorkTypes
<1>9. FinalFacts'
  BY <1>2 DEF FinalFacts
<1>10. ToSet(notes') \subseteq SourcesOf(saved.passages[1]) /\ notes' \in Seq(Sources)
  BY <1>2, <1>5
<1> QED
  BY <1>2, <1>3, <1>6, <1>7, <1>8, <1>9, <1>10, AnswerKeeps

\* _store
LEMMA StoreKeeps ==
  ASSUME AnswerInv, Store
  PROVE  AnswerInv'
<1>1. /\ SavedTypes /\ WorkTypes /\ RecordedFacts /\ EvidenceFacts /\ FinalFacts
  BY DEF AnswerInv
<1>2. /\ pc = "verified" /\ pc' \in {"stored", "failed"} /\ store' = store /\ thread' = thread
         /\ hits' = hits /\ saved' = saved
      /\ notes' = notes /\ scored' = scored /\ passages' = passages /\ drafts' = drafts /\ judged' = judged
      /\ finals' = finals /\ restarts' = restarts
  BY DEF Store, ctxVars, workVars
<1>3. pc \in Answering /\ pc' \in Answering /\ pc' \in Noted /\ pc' \in Drafted
  BY <1>2 DEF Answering, Noted, Drafted
<1>4. ToSet(notes) \subseteq SourcesOf(saved.passages[1]) /\ notes \in Seq(Sources) /\ drafts \in Seq(Written)
      /\ \A i \in DOMAIN drafts : drafts[i].tags \subseteq SourcesOf(passages)
  BY <1>1, <1>3 DEF EvidenceFacts, WorkTypes
<1>5. \A i \in DOMAIN finals' : finals'[i] \in Checked
  BY <1>1, <1>2 DEF WorkTypes
<1>6. FinalFacts'
  BY <1>1, <1>2 DEF FinalFacts, Supported, Mentions, PaperOf
<1>7. SavedTypes'
  BY <1>1, <1>2, SavedSame
<1>8. /\ ToSet(notes') \subseteq SourcesOf(saved.passages[1]) /\ notes' \in Seq(Sources)
         /\ drafts' \in Seq(Written)
      /\ \A i \in DOMAIN drafts' : drafts'[i].tags \subseteq SourcesOf(passages)
  BY <1>2, <1>4
<1> QED
  BY <1>2, <1>3, <1>5, <1>6, <1>7, <1>8, AnswerKeeps

LEMMA RestartKeeps ==
  ASSUME AnswerInv, Restart
  PROVE  AnswerInv'
<1>1. /\ StoreTypes /\ StoreFacts /\ ThreadTypes /\ SavedTypes /\ PaperFacts /\ RecordedFacts /\ WorkTypes
  BY DEF AnswerInv
<1>2. /\ pc' = "asked" /\ store' = store /\ thread' = thread /\ saved' = saved
      /\ hits' = <<>> /\ scored' = <<>> /\ passages' = <<>> /\ notes' = <<>> /\ drafts' = <<>> /\ finals' = <<>>
      /\ restarts' = restarts + 1 /\ restarts < MaxRestarts
  BY DEF Restart, ctxVars
<1>3. restarts' \in 0..MaxRestarts
  BY <1>1, <1>2, AnswerAssumption DEF WorkTypes
<1>4. WorkTypes' /\ EvidenceFacts' /\ FinalFacts'
  BY <1>2, <1>3, EmptyWork
<1>5. StoreTypes' /\ StoreFacts' /\ ThreadTypes' /\ SavedTypes'
  BY <1>1, <1>2, StoreSame, ThreadSame, SavedSame
<1>6. PaperFacts'
  BY <1>1, <1>2 DEF PaperFacts
<1>7. RecordedFacts'
  BY <1>1, <1>2, RecordedSame DEF Answering
<1> QED
  BY <1>4, <1>5, <1>6, <1>7 DEF AnswerInv

-----------------------------------------------------------------------------
\* verify_sentences

\* A reply for each sentence of a batch.
LEMMA HeardIs ==
  ASSUME NEW items, IsFiniteSet(DOMAIN items), DOMAIN items \subseteq Int, NEW said \in Said(items),
         NEW i \in DOMAIN items
  PROVE  Heard(items, said, i) \in Replies
<1> DEFINE D == DOMAIN items
           before == {j \in D : j < i}
           n == Cardinality(D)
           m == Cardinality(before)
<1>1. before \subseteq D /\ before # D
  <2>1. i \in D /\ i \notin before
    OBVIOUS
  <2> QED
    BY <2>1
<1>2. said \in [0..(n - 1) -> Replies]
  BY DEF Said
<1>3. Heard(items, said, i) = said[m]
  BY DEF Heard, Position
<1> HIDE DEF D, before
<1>4. m \in Nat /\ n \in Nat /\ m < n
  BY <1>1, Parts DEF D
<1> HIDE DEF m, n
<1>5. m \in 0..(n - 1)
  BY <1>4
<1> QED
  BY <1>2, <1>3, <1>5

LEMMA ReplyIs ==
  ASSUME NEW v \in Replies
  PROVE  /\ v = NoReply \/ v.verdict \in {"unsupported", "partial", "supported"}
         /\ v.verdict = "partial" /\ v.rewrite # "" => v.rewrite \in Texts
<1> DEFINE spans == SourcesOf(passages) \cup {<<>>}
           none == [verdict: {"unsupported", "partial"}, rewrite: {""}, span: {<<>>}]
           yes == [verdict: {"supported"}, rewrite: {""}, span: spans]
           partly == [verdict: {"partial"}, rewrite: Texts, span: spans]
<1>1. v = NoReply \/ v \in none \/ v \in yes \/ v \in partly
  BY DEF Replies
<1>2. NoReply.verdict = "none"
  BY DEF NoReply
<1>3. v \in none => v.verdict \in {"unsupported", "partial"} /\ v.rewrite = ""
  OBVIOUS
<1>4. v \in yes => v.verdict = "supported"
  OBVIOUS
<1>5. v \in partly => v.verdict = "partial" /\ v.rewrite \in Texts
  OBVIOUS
<1> HIDE DEF none, yes, partly
<1> QED
  BY <1>1, <1>2, <1>3, <1>4, <1>5

\* _apply_verdict: what a sentence is kept for.
LEMMA ApplyVerdictIs ==
  ASSUME NEW i \in Int, NEW d, d.text \in Texts, d.tags \in SUBSET Sources, NEW v \in Replies
  PROVE  LET f == ApplyVerdict(i, d, v)
         IN  /\ f \in Checked /\ f.seq = i /\ f.tags = d.tags
             /\ f.verdict # "unsupported_removed" =>
                  /\ v.span \in d.tags
                  /\ NamesIn[f.text] \subseteq UNION {Mentions(t) : t \in f.tags}
             /\ f.verdict = "supported" => v.verdict = "supported" /\ f.text = d.text
             /\ f.verdict = "partial_rewritten" /\ f.spurious => f.text = d.text
<1> DEFINE rewritten == v.verdict = "partial"
           spurious == rewritten /\ Spurious(v.rewrite, d)
           text == IF rewritten /\ ~spurious THEN v.rewrite ELSE d.text
           bad == \/ v = NoReply
                  \/ v.verdict = "unsupported" \/ (rewritten /\ v.rewrite = "")
                  \/ v.span \notin d.tags
                  \/ rewritten /\ text # d.text /\ text \in AltersMath
                  \/ MissingNames(text, d.tags) # {}
           verdict == IF rewritten THEN "partial_rewritten" ELSE "supported"
           f == ApplyVerdict(i, d, v)
<1>1. f = IF bad THEN Removed(i, d) ELSE Final(i, d, text, verdict, spurious)
  BY DEF ApplyVerdict
<1> HIDE DEF f
<1>2. CASE bad
  <2>1. f = [seq |-> i, text |-> d.text, verdict |-> "unsupported_removed", tags |-> d.tags, spurious |-> FALSE]
    BY <1>1, <1>2 DEF Removed, Final
  <2> QED
    BY <2>1 DEF Checked, Verdicts, f
<1>3. CASE ~bad
  <2>1. /\ v # NoReply /\ v.verdict # "unsupported" /\ (rewritten => v.rewrite # "") /\ v.span \in d.tags
        /\ MissingNames(text, d.tags) = {}
    BY <1>3
  <2>2. f = [seq |-> i, text |-> text, verdict |-> verdict, tags |-> d.tags, spurious |-> spurious]
    BY <1>1, <1>3 DEF Final
  <2>3. text \in Texts
    BY <2>1, ReplyIs
  <2>4. spurious \in BOOLEAN /\ verdict \in Verdicts
    BY DEF Verdicts
  <2>5. f \in Checked /\ f.seq = i /\ f.tags = d.tags /\ f.text = text /\ f.verdict = verdict
          /\ f.spurious = spurious
    <3> HIDE DEF text, verdict, spurious
    <3> QED
      BY <2>2, <2>3, <2>4 DEF Checked
  <2>6. NamesIn[text] \subseteq UNION {Mentions(t) : t \in d.tags}
    <3> HIDE DEF text
    <3> QED
      BY <2>1 DEF MissingNames
  <2>7. f.verdict = "supported" => v.verdict = "supported" /\ f.text = d.text
    BY <2>1, <2>5, ReplyIs
  <2>8. f.verdict = "partial_rewritten" /\ f.spurious => f.text = d.text
    BY <2>5
  <2> HIDE DEF text, verdict, spurious, bad
  <2> QED
    BY <2>1, <2>5, <2>6, <2>7, <2>8 DEF f
<1> QED
  BY <1>2, <1>3

\* One round over some sentences.
LEMMA CheckIs ==
  ASSUME NEW items, IsFiniteSet(DOMAIN items), DOMAIN items \subseteq Int, NEW said \in Said(items),
         NEW i \in DOMAIN items,
         items[i].text \in Texts, items[i].tags \in SUBSET Sources, Judge(items, said)
  PROVE  LET f == Check(items, said, i)
         IN  /\ f \in Checked /\ f.seq = i /\ f.tags = items[i].tags
             /\ f.verdict # "unsupported_removed" =>
                  /\ f.tags # {}
                  /\ NamesIn[f.text] \subseteq UNION {Mentions(t) : t \in f.tags}
             /\ f.verdict = "supported" =>
                  /\ f.text = items[i].text
                  /\ \E j \in judged' : j.seq = i /\ j.text = items[i].text /\ j.span \in items[i].tags
             /\ f.verdict = "partial_rewritten" /\ f.spurious => f.text = items[i].text
<1> DEFINE v == Heard(items, said, i)
           d == items[i]
           f == ApplyVerdict(i, d, v)
           j == [seq |-> i, text |-> d.text, span |-> v.span]
<1>1. v \in Replies
  BY HeardIs
<1>2. f = Check(items, said, i)
  BY DEF Check
<1>3. v.verdict = "supported" => j \in judged'
  BY DEF Judge
<1>4. j.seq = i /\ j.text = d.text /\ j.span = v.span
  OBVIOUS
<1> HIDE DEF v, j
<1>5. i \in Int /\ d.text \in Texts /\ d.tags \in SUBSET Sources
  OBVIOUS
<1> HIDE DEF d
<1>6. /\ f \in Checked /\ f.seq = i /\ f.tags = d.tags
      /\ f.verdict # "unsupported_removed" =>
           v.span \in d.tags /\ NamesIn[f.text] \subseteq UNION {Mentions(t) : t \in f.tags}
      /\ f.verdict = "supported" => v.verdict = "supported" /\ f.text = d.text
      /\ f.verdict = "partial_rewritten" /\ f.spurious => f.text = d.text
  BY <1>1, <1>5, ApplyVerdictIs
<1> HIDE DEF f
<1>7. f.verdict = "supported" => \E x \in judged' : x.seq = i /\ x.text = d.text /\ x.span \in d.tags
  <2> SUFFICES ASSUME f.verdict = "supported"
               PROVE  j \in judged' /\ j.seq = i /\ j.text = d.text /\ j.span \in d.tags
    OBVIOUS
  <2> QED
    BY <1>3, <1>4, <1>6
<1> QED
  BY <1>2, <1>6, <1>7 DEF d

LEMMA DraftsAre ==
  ASSUME drafts \in Seq(Written)
  PROVE  /\ IsFiniteSet(DOMAIN drafts) /\ DOMAIN drafts \subseteq Int
         /\ \A i \in DOMAIN drafts : drafts[i].text \in Texts /\ drafts[i].tags \in SUBSET Sources
<1>1. Len(drafts) \in Nat /\ DOMAIN drafts = 1..Len(drafts) /\ \A i \in DOMAIN drafts : drafts[i] \in Written
  OBVIOUS
<1>2. \A d \in Written : d.text \in Texts /\ d.tags \in SUBSET Sources
  BY DEF Written
<1>3. IsFiniteSet(1..Len(drafts))
  <2> DEFINE from == 1
  <2>1. from \in Int /\ Len(drafts) \in Int
    BY <1>1
  <2> HIDE DEF from
  <2>2. IsFiniteSet(from..Len(drafts))
    BY <2>1, FS_Interval
  <2> QED
    BY <2>2 DEF from
<1> QED
  BY <1>1, <1>2, <1>3

LEMMA VerifyKeeps ==
  ASSUME AnswerInv, Verify
  PROVE  AnswerInv'
<1>1. /\ SavedTypes /\ WorkTypes /\ EvidenceFacts
  BY DEF AnswerInv
<1>2. /\ pc = "written" /\ pc' = "checked" /\ store' = store /\ thread' = thread /\ hits' = hits
         /\ saved' = saved
      /\ notes' = notes /\ scored' = scored /\ passages' = passages /\ drafts' = drafts
        /\ restarts' = restarts
  BY DEF Verify, Goes, ctxVars
<1> DEFINE valid == {i \in DOMAIN drafts : drafts[i].tags # {}}
           items == [i \in valid |-> drafts[i]]
<1>3. PICK said \in Said(items) :
        /\ Judge(items, said)
        /\ finals' = [i \in DOMAIN drafts |-> IF i \in valid THEN Check(items, said, i) ELSE Removed(i, drafts[i])]
  BY DEF Verify
<1>4. pc \in Answering /\ pc' \in Answering /\ pc' \in Noted /\ pc' \in Drafted
  BY <1>2 DEF Answering, Noted, Drafted
<1>5. ToSet(notes) \subseteq SourcesOf(saved.passages[1]) /\ notes \in Seq(Sources) /\ drafts \in Seq(Written)
      /\ \A i \in DOMAIN drafts : drafts[i].tags \subseteq SourcesOf(passages)
  BY <1>1, <1>4 DEF EvidenceFacts, WorkTypes
<1>6. /\ IsFiniteSet(DOMAIN drafts) /\ DOMAIN drafts \subseteq Int
      /\ \A i \in DOMAIN drafts : drafts[i].text \in Texts /\ drafts[i].tags \in SUBSET Sources
  BY <1>5, DraftsAre
<1>7. DOMAIN items = valid /\ valid \subseteq DOMAIN drafts /\ \A i \in valid : items[i] = drafts[i]
  OBVIOUS
<1> HIDE DEF items, valid
<1>8. IsFiniteSet(DOMAIN items) /\ DOMAIN items \subseteq Int
  BY <1>6, <1>7, FS_Subset
<1>9. DOMAIN finals' = DOMAIN drafts
  BY <1>3
<1>10. ASSUME NEW i \in DOMAIN drafts
       PROVE  /\ finals'[i] \in Checked /\ finals'[i].seq = i /\ finals'[i].tags = drafts[i].tags
              /\ finals'[i].verdict # "unsupported_removed" =>
                   /\ finals'[i].tags # {}
                   /\ NamesIn[finals'[i].text] \subseteq UNION {Mentions(t) : t \in finals'[i].tags}
              /\ finals'[i].verdict = "supported" =>
                   /\ finals'[i].text = drafts[i].text
                   /\ \E j \in judged' : j.seq = i /\ j.text = finals'[i].text /\ j.span \in finals'[i].tags
              /\ finals'[i].verdict = "partial_rewritten"
                /\ finals'[i].spurious => finals'[i].text = drafts[i].text
  <2>1. CASE i \in valid
    <3> DEFINE f == Check(items, said, i)
    <3>1. finals'[i] = f
      BY <1>3, <2>1
    <3>2. i \in DOMAIN items /\ items[i] = drafts[i]
      BY <1>7, <2>1
    <3>3. items[i].text \in Texts /\ items[i].tags \in SUBSET Sources
      BY <1>6, <3>2
    <3>4. /\ f \in Checked /\ f.seq = i /\ f.tags = items[i].tags
          /\ f.verdict # "unsupported_removed" =>
               f.tags # {} /\ NamesIn[f.text] \subseteq UNION {Mentions(t) : t \in f.tags}
          /\ f.verdict = "supported" =>
               /\ f.text = items[i].text
               /\ \E j \in judged' : j.seq = i /\ j.text = items[i].text /\ j.span \in items[i].tags
          /\ f.verdict = "partial_rewritten" /\ f.spurious => f.text = items[i].text
      BY <1>3, <1>8, <3>2, <3>3, CheckIs
    <3> HIDE DEF f
    <3> QED
      BY <3>1, <3>2, <3>4
  <2>2. CASE i \notin valid
    <3>1. finals'[i] = [seq |-> i, text |-> drafts[i].text, verdict |-> "unsupported_removed", tags |-> drafts[i].tags,
                        spurious |-> FALSE]
      BY <1>3, <2>2 DEF Removed, Final
    <3>2. i \in Int
      BY <1>6
    <3> QED
      BY <1>6, <3>1, <3>2 DEF Checked, Verdicts
  <2> QED
    BY <2>1, <2>2
<1>11. FinalFacts'
  <2>1. \A t : Mentions(t)' = Mentions(t)
    BY DEF Mentions, PaperOf
  <2>2. \A i : Supported(i)' <=> \E j \in judged' : j.seq = i /\ j.text = finals'[i].text
          /\ j.span \in finals'[i].tags
    BY DEF Supported
  <2>3. DOMAIN finals' = DOMAIN drafts'
    BY <1>2, <1>9
  <2> QED
    BY <1>2, <1>9, <1>10, <2>2, <2>3 DEF FinalFacts, Mentions, PaperOf
<1>12. SavedTypes'
  BY <1>1, <1>2, SavedSame
<1>13. \A i \in DOMAIN finals' : finals'[i] \in Checked
  BY <1>9, <1>10
<1>14. /\ ToSet(notes') \subseteq SourcesOf(saved.passages[1]) /\ notes' \in Seq(Sources)
          /\ drafts' \in Seq(Written)
       /\ \A i \in DOMAIN drafts' : drafts'[i].tags \subseteq SourcesOf(passages)
  BY <1>2, <1>5
<1> QED
  BY <1>2, <1>4, <1>11, <1>12, <1>13, <1>14, AnswerKeeps

LEMMA RecheckKeeps ==
  ASSUME AnswerInv, Recheck
  PROVE  AnswerInv'
<1>1. /\ SavedTypes /\ WorkTypes /\ EvidenceFacts /\ FinalFacts
  BY DEF AnswerInv
<1>2. /\ pc = "checked" /\ pc' = "verified" /\ store' = store /\ thread' = thread /\ hits' = hits
         /\ saved' = saved
      /\ notes' = notes /\ scored' = scored /\ passages' = passages /\ drafts' = drafts
        /\ restarts' = restarts
  BY DEF Recheck, Goes, ctxVars
<1> DEFINE again == {i \in DOMAIN finals : finals[i].verdict = "partial_rewritten"}
           items == [i \in again |-> [text |-> finals[i].text, tags |-> finals[i].tags]]
<1>3. PICK said \in Said(items) :
        /\ Judge(items, said)
        /\ finals' = [i \in DOMAIN finals |-> IF i \in again THEN Rechecked(finals[i], Check(items, said, i)) ELSE finals[i]]
  BY DEF Recheck
<1>4. pc \in Answering /\ pc' \in Answering /\ pc' \in Noted /\ pc' \in Drafted
  BY <1>2 DEF Answering, Noted, Drafted
<1>5. ToSet(notes) \subseteq SourcesOf(saved.passages[1]) /\ notes \in Seq(Sources) /\ drafts \in Seq(Written)
      /\ \A i \in DOMAIN drafts : drafts[i].tags \subseteq SourcesOf(passages)
  BY <1>1, <1>4 DEF EvidenceFacts, WorkTypes
<1>6. IsFiniteSet(DOMAIN drafts) /\ DOMAIN drafts \subseteq Int
  BY <1>5, DraftsAre
<1>7. /\ DOMAIN finals = DOMAIN drafts
      /\ \A i \in DOMAIN finals :
           /\ finals[i] \in Checked /\ finals[i].seq = i /\ finals[i].tags = drafts[i].tags
           /\ finals[i].verdict # "unsupported_removed" =>
                finals[i].tags # {} /\ NamesIn[finals[i].text] \subseteq UNION {Mentions(t) : t \in finals[i].tags}
           /\ finals[i].verdict = "supported" => finals[i].text = drafts[i].text /\ Supported(i)
           /\ finals[i].verdict = "partial_rewritten" /\ finals[i].spurious => finals[i].text = drafts[i].text
  BY <1>1, <1>2 DEF FinalFacts, WorkTypes
<1>8. /\ DOMAIN items = again /\ again \subseteq DOMAIN finals
      /\ \A i \in again : items[i].text = finals[i].text /\ items[i].tags = finals[i].tags
                          /\ finals[i].verdict = "partial_rewritten"
      /\ \A i \in DOMAIN finals \ again : finals[i].verdict # "partial_rewritten"
  OBVIOUS
<1> HIDE DEF items, again
<1>9. IsFiniteSet(DOMAIN items) /\ DOMAIN items \subseteq Int
  BY <1>6, <1>7, <1>8, FS_Subset
<1>10. DOMAIN finals' = DOMAIN finals
  BY <1>3
<1>11. judged \subseteq judged'
  BY <1>3 DEF Judge
<1>12. \A f \in Checked : f.text \in Texts /\ f.tags \in SUBSET Sources /\ f.verdict \in Verdicts
         /\ f.spurious \in BOOLEAN
  BY DEF Checked
<1>13. ASSUME NEW f \in Checked, NEW r
       PROVE  LET g == Rechecked(f, r)
              IN  /\ g \in Checked /\ g.seq = f.seq /\ g.tags = f.tags /\ g.text = f.text
                  /\ r.verdict # "supported" => g.verdict = "unsupported_removed"
                  /\ r.verdict = "supported" => g.verdict = IF f.spurious THEN "supported" ELSE f.verdict
  <2>1. CASE r.verdict # "supported"
    <3>1. Rechecked(f, r) = [f EXCEPT !.verdict = "unsupported_removed", !.spurious = FALSE]
      BY <2>1 DEF Rechecked
    <3> QED
      BY <2>1, <3>1 DEF Checked, Verdicts
  <2>2. CASE r.verdict = "supported" /\ f.spurious
    <3>1. Rechecked(f, r) = [f EXCEPT !.verdict = "supported", !.spurious = FALSE]
      BY <2>2 DEF Rechecked
    <3> QED
      BY <2>2, <3>1 DEF Checked, Verdicts
  <2>3. CASE r.verdict = "supported" /\ ~f.spurious
    <3>1. Rechecked(f, r) = f
      BY <2>3 DEF Rechecked
    <3> QED
      BY <2>3, <3>1
  <2> QED
    BY <2>1, <2>2, <2>3
<1>14. ASSUME NEW i \in DOMAIN finals
       PROVE  /\ finals'[i] \in Checked /\ finals'[i].seq = i /\ finals'[i].tags = drafts[i].tags
              /\ finals'[i].verdict # "unsupported_removed" =>
                   /\ finals'[i].tags # {}
                   /\ NamesIn[finals'[i].text] \subseteq UNION {Mentions(t) : t \in finals'[i].tags}
                   /\ \E j \in judged' : j.seq = i /\ j.text = finals'[i].text /\ j.span \in finals'[i].tags
              /\ finals'[i].verdict = "supported" => finals'[i].text = drafts[i].text
  <2> DEFINE f == finals[i]
             r == Check(items, said, i)
             g == Rechecked(f, r)
  <2>1. CASE i \in again
    <3>1. finals'[i] = g
      BY <1>3, <2>1
    <3>2. i \in DOMAIN items /\ items[i].text = f.text /\ items[i].tags = f.tags
            /\ f.verdict = "partial_rewritten"
      BY <1>8, <2>1
    <3>3. f \in Checked
      BY <1>7
    <3>4. items[i].text \in Texts /\ items[i].tags \in SUBSET Sources
      BY <1>12, <3>2, <3>3
    <3> HIDE DEF f
    <3>5. r.verdict = "supported" =>
             \E j \in judged' : j.seq = i /\ j.text = items[i].text /\ j.span \in items[i].tags
      BY <1>3, <1>9, <3>2, <3>4, CheckIs
    <3> HIDE DEF r
    <3>6. /\ g \in Checked /\ g.seq = f.seq /\ g.tags = f.tags /\ g.text = f.text
          /\ r.verdict # "supported" => g.verdict = "unsupported_removed"
          /\ r.verdict = "supported" => g.verdict = IF f.spurious THEN "supported" ELSE f.verdict
      BY <1>13, <3>3
    <3> HIDE DEF g
    <3>7. /\ f.seq = i /\ f.tags = drafts[i].tags /\ f.tags # {}
          /\ NamesIn[f.text] \subseteq UNION {Mentions(t) : t \in f.tags}
          /\ f.spurious => f.text = drafts[i].text
      BY <1>7, <3>2 DEF f
    <3> QED
      BY <3>1, <3>2, <3>5, <3>6, <3>7
  <2>2. CASE i \notin again
    <3>1. finals'[i] = finals[i] /\ finals[i].verdict # "partial_rewritten" /\ finals[i].verdict \in Verdicts
      BY <1>3, <1>7, <1>8, <1>12, <2>2
    <3>2. finals[i].verdict # "unsupported_removed" => finals[i].verdict = "supported"
      BY <3>1 DEF Verdicts
    <3>3. Supported(i) => \E j \in judged' : j.seq = i /\ j.text = finals[i].text /\ j.span \in finals[i].tags
      BY <1>11 DEF Supported
    <3> QED
      BY <1>7, <3>1, <3>2, <3>3
  <2> QED
    BY <2>1, <2>2
<1>15. FinalFacts'
  <2>1. \A i : Supported(i)' <=> \E j \in judged' : j.seq = i /\ j.text = finals'[i].text
          /\ j.span \in finals'[i].tags
    BY DEF Supported
  <2>2. DOMAIN finals' = DOMAIN drafts' /\ DOMAIN finals' = DOMAIN finals
    BY <1>2, <1>7, <1>10
  <2> QED
    BY <1>2, <1>14, <2>1, <2>2 DEF FinalFacts, Mentions, PaperOf
<1>16. SavedTypes'
  BY <1>1, <1>2, SavedSame
<1>17. \A i \in DOMAIN finals' : finals'[i] \in Checked
  BY <1>10, <1>14
<1>18. /\ ToSet(notes') \subseteq SourcesOf(saved.passages[1]) /\ notes' \in Seq(Sources)
          /\ drafts' \in Seq(Written)
       /\ \A i \in DOMAIN drafts' : drafts'[i].tags \subseteq SourcesOf(passages)
  BY <1>2, <1>5
<1> QED
  BY <1>2, <1>4, <1>15, <1>16, <1>17, <1>18, AnswerKeeps

-----------------------------------------------------------------------------
\* Every step.

LEMMA StutterKeeps ==
  ASSUME UNCHANGED vars
  PROVE  /\ AnswerInv => AnswerInv'
         /\ SelectionInv => SelectionInv'
         /\ EvidenceInv => EvidenceInv'
<1>1. /\ store' = store /\ thread' = thread /\ saved' = saved /\ pc' = pc /\ search' = search /\ hits' = hits
      /\ scored' = scored /\ passages' = passages /\ notes' = notes /\ drafts' = drafts
      /\ judged' = judged /\ finals' = finals /\ restarts' = restarts
  BY DEF vars, ctxVars, workVars
<1>2. AnswerInv => AnswerInv'
  <2>1. StoreTypes => StoreTypes'
    BY <1>1 DEF StoreTypes
  <2>2. ThreadTypes => ThreadTypes'
    BY <1>1 DEF ThreadTypes
  <2>3. SavedTypes => SavedTypes'
    BY <1>1 DEF SavedTypes
  <2>4. WorkTypes => WorkTypes'
    BY <1>1 DEF WorkTypes
  <2>5. StoreFacts => StoreFacts'
    BY <1>1 DEF StoreFacts
  <2>6. PaperFacts => PaperFacts'
    BY <1>1 DEF PaperFacts
  <2>7. RecordedFacts => RecordedFacts'
    BY <1>1 DEF RecordedFacts, AllChunks, SourcesOf, Source
  <2>8. EvidenceFacts => EvidenceFacts'
    BY <1>1 DEF EvidenceFacts, NoneRechunked, SourcesOf, Source
  <2>9. FinalFacts => FinalFacts'
    BY <1>1 DEF FinalFacts, Supported
  <2> QED
    BY <2>1, <2>2, <2>3, <2>4, <2>5, <2>6, <2>7, <2>8, <2>9 DEF AnswerInv
<1>3. SelectionInv => SelectionInv'
  BY <1>1 DEF SelectionInv, Beside
<1>4. EvidenceInv => EvidenceInv'
  BY <1>1 DEF EvidenceInv
<1> QED
  BY <1>2, <1>3, <1>4

LEMMA StepKeeps ==
  ASSUME AnswerInv, [Next]_vars
  PROVE  AnswerInv'
<1>1. CASE \E p \in Papers : BecomesReady(p) \/ Rechunked(p)
  BY <1>1, BecomesReadyKeeps, RechunkedKeeps
<1>2. CASE \E p \in Pinnable : PinPaper(p) \/ UnpinPaper(p)
  BY <1>2, PinsKeep
<1>3. CASE Rewrite
  BY <1>3, RewriteKeeps
<1>4. CASE FindPapers
  BY <1>4, FindPapersKeeps
<1>5. CASE Selected
  BY <1>5, SelectedKeeps
<1>6. CASE LoadSelected
  BY <1>6, LoadSelectedKeeps
<1>7. CASE Fetched
  BY <1>7, FetchedKeeps
<1>8. CASE Chain
  BY <1>8, ChainKeeps
<1>9. CASE LoadChain
  BY <1>9, LoadChainKeeps
<1>10. CASE SelectPassages
  BY <1>10, SelectPassagesKeeps
<1>11. CASE Chosen
  BY <1>11, ChosenKeeps
<1>12. CASE LoadPassages
  BY <1>12, LoadPassagesKeeps
<1>13. CASE Read
  BY <1>13, ReadKeeps
<1>14. CASE WriteAgain
  BY <1>14, WriteAgainKeeps
<1>15. CASE Write
  BY <1>15, WriteKeeps
<1>16. CASE Verify
  BY <1>16, VerifyKeeps
<1>17. CASE Recheck
  BY <1>17, RecheckKeeps
<1>18. CASE Store
  BY <1>18, StoreKeeps
<1>19. CASE Restart
  BY <1>19, RestartKeeps
<1>20. CASE UNCHANGED vars
  BY <1>20, StutterKeeps
<1> QED
  BY <1>1, <1>2, <1>3, <1>4, <1>5, <1>6, <1>7, <1>8, <1>9, <1>10, <1>11, <1>12, <1>13, <1>14, <1>15, <1>16,
     <1>17,
     <1>18, <1>19, <1>20 DEF Next

\* Only FindPapers and SelectPassages end where their results are looked at.
LEMMA OtherSteps ==
  ASSUME Next
  PROVE  FindPapers \/ SelectPassages \/ pc' \notin {"selected", "chosen"}
<1>1. ASSUME NEW p \in Papers, BecomesReady(p) \/ Rechunked(p) PROVE pc' \notin {"selected", "chosen"}
  <2>1. BecomesReady(p) => pc' = "found"
    BY DEF BecomesReady
  <2>2. Rechunked(p) => pc' \in {"evidence", "written"}
    BY DEF Rechunked
  <2> QED
    BY <1>1, <2>1, <2>2
<1>2. ASSUME NEW p \in Pinnable, PinPaper(p) \/ UnpinPaper(p) PROVE pc' \notin {"selected", "chosen"}
  <2>1. PinPaper(p) => pc' = "asked"
    BY DEF PinPaper
  <2>2. UnpinPaper(p) => pc' = "asked"
    BY DEF UnpinPaper
  <2> QED
    BY <1>2, <2>1, <2>2
<1>3. Rewrite => pc' = "rewritten"
  BY DEF Rewrite, Goes
<1>4. Selected \/ LoadSelected => pc' = "found"
  BY DEF Selected, LoadSelected, Goes
<1>5. Fetched => pc' = "fetched"
  BY DEF Fetched, Goes
<1>6. Chain \/ LoadChain => pc' = "chained"
  BY DEF Chain, LoadChain, Goes
<1>7. Chosen \/ LoadPassages => pc' \in {"nothing", "evidence"}
  <2>1. Chosen => pc' \in {"nothing", "evidence"}
    BY DEF Chosen, Goes
  <2>2. LoadPassages => pc' \in {"nothing", "evidence"}
    BY DEF LoadPassages
  <2> QED
    BY <2>1, <2>2
<1>8. Read => pc' = "read"
  BY DEF Read, Goes
<1>9. WriteAgain => pc' = "again"
  BY DEF WriteAgain, Goes
<1>10. Write => pc' = "written"
  BY DEF Write
<1>11. Verify => pc' = "checked"
  BY DEF Verify, Goes
<1>12. Recheck => pc' = "verified"
  BY DEF Recheck, Goes
<1>13. Store => pc' \in {"stored", "failed"}
  BY DEF Store
<1>14. Restart => pc' = "asked"
  BY DEF Restart
<1> QED
  BY <1>1, <1>2, <1>3, <1>4, <1>5, <1>6, <1>7, <1>8, <1>9, <1>10, <1>11, <1>12, <1>13, <1>14 DEF Next

LEMMA StepSelects ==
  ASSUME AnswerInv, SelectionInv, [Next]_vars
  PROVE  SelectionInv'
<1>1. CASE FindPapers
  BY <1>1, FindPapersKeeps
<1>2. CASE pc' # "selected"
  BY <1>2 DEF SelectionInv
<1>3. CASE SelectPassages
  <2>1. pc' # "selected"
    BY <1>3 DEF SelectPassages
  <2> QED
    BY <2>1, <1>2
<1>4. CASE UNCHANGED vars
  BY <1>4, StutterKeeps
<1> QED
  BY <1>1, <1>2, <1>3, <1>4, OtherSteps

LEMMA StepChooses ==
  ASSUME AnswerInv, EvidenceInv, [Next]_vars
  PROVE  EvidenceInv'
<1>1. CASE SelectPassages
  BY <1>1, SelectPassagesKeeps
<1>2. CASE pc' # "chosen"
  BY <1>2 DEF EvidenceInv
<1>3. CASE FindPapers
  <2>1. pc' # "chosen"
    BY <1>3 DEF FindPapers, Goes
  <2> QED
    BY <2>1, <1>2
<1>4. CASE UNCHANGED vars
  BY <1>4, StutterKeeps
<1> QED
  BY <1>1, <1>2, <1>3, <1>4, OtherSteps

LEMMA TypesAre ==
  ASSUME AnswerInv
  PROVE  TypeOK
<1>1. StoreTypes /\ WorkTypes
  BY DEF AnswerInv
<1>2. store \in [Papers -> [ready: BOOLEAN, chunks: SUBSET ChunkIds]]
  BY <1>1 DEF StoreTypes
<1>3. pc \in {"asked", "rewritten", "selected", "read", "again", "found", "fetched", "chained", "chosen", "evidence",
              "nothing", "written", "checked", "verified", "stored", "failed"}
  BY <1>1 DEF WorkTypes
<1>4. ASSUME NEW i \in DOMAIN hits PROVE hits[i].id \in Papers /\ hits[i].state \in BOOLEAN
  <2>1. hits \in HitLists
    BY <1>1 DEF WorkTypes
  <2>2. hits[i] \in Hit
    BY <2>1, HitListIs
  <2> QED
    BY <2>2 DEF Hit
<1>5. ASSUME NEW i \in DOMAIN passages
      PROVE  passages[i].paper \in Papers /\ passages[i].chunk \in ChunkIds \cup {0}
  <2>1. CASE pc = "chosen"
    <3>1. passages \in Seq(ScoredPassage)
      BY <1>1, <2>1 DEF WorkTypes
    <3>2. passages[i] \in ScoredPassage
      BY <3>1
    <3> QED
      BY <3>2 DEF ScoredPassage
  <2>2. CASE pc # "chosen"
    <3>1. passages \in Seq(Passage)
      BY <1>1, <2>2 DEF WorkTypes
    <3>2. passages[i] \in Passage
      BY <3>1
    <3> QED
      BY <3>2 DEF Passage
  <2> QED
    BY <2>1, <2>2
<1>6. ASSUME NEW i \in DOMAIN drafts PROVE drafts[i].text \in Texts
  <2>1. drafts \in Seq(Written)
    BY <1>1 DEF WorkTypes
  <2>2. drafts[i] \in Written
    BY <2>1
  <2> QED
    BY <2>2 DEF Written
<1>7. ASSUME NEW i \in DOMAIN finals PROVE finals[i].verdict \in Verdicts
  <2>1. finals[i] \in Checked
    BY <1>1 DEF WorkTypes
  <2> QED
    BY <2>1 DEF Checked
<1>8. restarts \in 0..MaxRestarts
  BY <1>1 DEF WorkTypes
<1> QED
  BY <1>2, <1>3, <1>4, <1>5, <1>6, <1>7, <1>8 DEF TypeOK

LEMMA EvidenceStays ==
  ASSUME AnswerInv
  PROVE  EvidenceIsKept
<1>1. EvidenceFacts
  BY DEF AnswerInv
<1>2. ASSUME pc \in {"evidence", "read", "again", "written", "checked", "verified", "stored"}
      PROVE  /\ SourcesOf(passages) \cup ToSet(notes) \subseteq SourcesOf(saved.passages[1])
             /\ (\A p \in Papers : store[p].chunks # ChunksOf[p][2]) => passages = saved.passages[1]
             /\ \A i \in DOMAIN drafts : drafts[i].tags \subseteq SourcesOf(passages)
  <2>1. pc \in Answering
    BY <1>2 DEF Answering
  <2> QED
    BY <2>1, <1>1 DEF EvidenceFacts, NoneRechunked
<1> QED
  BY <1>2, TypesAre DEF EvidenceIsKept

LEMMA KeptIs ==
  ASSUME AnswerInv
  PROVE  KeptIsSupported
<1> SUFFICES ASSUME pc \in {"verified", "stored"}
             PROVE  /\ DOMAIN finals = DOMAIN drafts
                    /\ \A i \in DOMAIN finals :
                         LET f == finals[i]
                         IN  /\ f.seq = i
                             /\ f.verdict # "unsupported_removed" =>
                                  /\ f.tags # {} /\ f.tags \subseteq SourcesOf(passages)
                                  /\ \E j \in judged : /\ j.seq = i /\ j.text = f.text /\ j.span \in f.tags
                                  /\ NamesIn[f.text] \subseteq UNION {Mentions(t) : t \in f.tags}
                                  /\ f.verdict = "supported" => f.text = drafts[i].text
  BY DEF KeptIsSupported
<1>1. FinalFacts /\ EvidenceFacts
  BY DEF AnswerInv
<1>2. DOMAIN finals = DOMAIN drafts
  BY <1>1 DEF FinalFacts
<1>3. ASSUME NEW i \in DOMAIN finals
      PROVE  /\ finals[i].seq = i /\ finals[i].tags = drafts[i].tags
             /\ finals[i].verdict # "unsupported_removed" =>
                  /\ finals[i].tags # {}
                  /\ NamesIn[finals[i].text] \subseteq UNION {Mentions(t) : t \in finals[i].tags}
                  /\ Supported(i)
             /\ finals[i].verdict = "supported" => finals[i].text = drafts[i].text
  BY <1>1 DEF FinalFacts
<1>4. \A i \in DOMAIN drafts : drafts[i].tags \subseteq SourcesOf(passages)
  BY <1>1 DEF EvidenceFacts
<1>5. ASSUME NEW i \in DOMAIN finals, finals[i].verdict # "unsupported_removed"
      PROVE  /\ finals[i].tags # {} /\ finals[i].tags \subseteq SourcesOf(passages)
             /\ \E j \in judged : j.seq = i /\ j.text = finals[i].text /\ j.span \in finals[i].tags
             /\ NamesIn[finals[i].text] \subseteq UNION {Mentions(t) : t \in finals[i].tags}
             /\ finals[i].verdict = "supported" => finals[i].text = drafts[i].text
  <2>1. /\ finals[i].tags # {} /\ Supported(i)
        /\ NamesIn[finals[i].text] \subseteq UNION {Mentions(t) : t \in finals[i].tags}
        /\ finals[i].verdict = "supported" => finals[i].text = drafts[i].text
    BY <1>3, <1>5
  <2>2. finals[i].tags \subseteq SourcesOf(passages)
    BY <1>2, <1>3, <1>4
  <2> QED
    BY <2>1, <2>2 DEF Supported
<1> QED
  BY <1>2, <1>3, <1>5

-----------------------------------------------------------------------------
\* The theorems about a run's answer.

(***************************************************************************)
(* What holds of a run after each of its steps, whichever papers become    *)
(* ready or are chunked anew meanwhile and wherever it is cut off and      *)
(* begun again: the types of its rows and of what it has in memory; rows   *)
(* that agree with each other and with what is in memory; and what the     *)
(* verifier has said for each sentence.  It is inductive, and the other    *)
(* theorems about Answer rest on it.                                       *)
(***************************************************************************)
THEOREM AnswerIsInductive == Spec => []AnswerInv
<1>1. Init => AnswerInv
  BY AnswerStarts
<1>2. AnswerInv /\ [Next]_vars => AnswerInv'
  BY StepKeeps
<1> QED
  BY <1>1, <1>2, PTL DEF Spec

(***************************************************************************)
(* select_papers, of whatever the channels find and the reranker says: the *)
(* pinned papers are all selected, the others are the best ones that fit,  *)
(* above the floor or among the best few, and nothing is selected that the *)
(* filters exclude or that nothing but a keyword brought past the gate.    *)
(***************************************************************************)
THEOREM SelectionIsSound == Spec => []SelectionInv
<1>1. Init => SelectionInv
  <2>1. Init => pc # "selected"
    BY DEF Init
  <2> QED
    BY <2>1 DEF SelectionInv
<1>2. AnswerInv /\ SelectionInv /\ [Next]_vars => SelectionInv'
  BY StepSelects
<1> QED
  BY <1>1, <1>2, AnswerIsInductive, PTL DEF Spec

(***************************************************************************)
(* select_evidence, of any passages with any scores: it keeps within all   *)
(* of its limits, leaves out a relevant passage only for better ones, adds *)
(* weaker ones only as details or to make up the minimum, and below the    *)
(* minimum has left out nothing that fits.                                 *)
(***************************************************************************)
THEOREM EvidenceIsSound == Spec => []EvidenceInv
<1>1. Init => EvidenceInv
  <2>1. Init => pc # "chosen"
    BY DEF Init
  <2> QED
    BY <2>1 DEF EvidenceInv
<1>2. AnswerInv /\ EvidenceInv /\ [Next]_vars => EvidenceInv'
  BY StepChooses
<1> QED
  BY <1>1, <1>2, AnswerIsInductive, PTL DEF Spec

(***************************************************************************)
(* load_passages and the rows of the steps: a run that a restart has begun *)
(* again writes from the passages that it had recorded, in their order and *)
(* all of them unless a paper was chunked anew, and its notes and the tags *)
(* of its draft are sources among them.                                    *)
(***************************************************************************)
THEOREM EvidenceSurvivesRestarts == Spec => []EvidenceIsKept
<1>1. AnswerInv => EvidenceIsKept
  BY EvidenceStays
<1> QED
  BY <1>1, AnswerIsInductive, PTL

(***************************************************************************)
(* verify_sentences and _apply_verdict, for any draft and any replies of   *)
(* the verifier: a sentence is kept only with a source, with the verdict   *)
(* "supported" on the very words that are kept and a span of a source it   *)
(* cites, and without a name that its sources lack.                        *)
(***************************************************************************)
THEOREM KeptSentencesAreSupported == Spec => []KeptIsSupported
<1>1. AnswerInv => KeptIsSupported
  BY KeptIs
<1> QED
  BY <1>1, AnswerIsInductive, PTL

-----------------------------------------------------------------------------
(***************************************************************************)
(* What holds of feeds and digests after each step.                        *)
(***************************************************************************)
FeedRow  == [id: Feeds, text: Queries, emb: Queries \cup {NoText}, keywords: KeywordSets]
EmbeddedRow == {row \in FeedRow : row.emb \in Queries}
Table    == [Preprints -> [version: {0} \cup Versions, vec: {0} \cup Versions]]
Content  == [row: EmbeddedRow, by: Jobs, day: 0..MaxTick, days: Int, read: Table, papers: Seq(Preprints)]
JobState == [at: {"idle", "queued", "next", "embedding", "searching", "writing"}, of: Nat,
             todo: Seq(FeedRow), day: 0..MaxTick, days: Int, read: Table, kept: Seq(Preprints)]
Monday   == [period: Periods, feeds: SUBSET Feeds, papers: SUBSET Preprints]

Building == {"embedding", "searching", "writing"}
Busy     == {"next"} \cup Building

PaperTypes  == paper \in Table
FeedTypes   == feed \in [Feeds -> [there: BOOLEAN, text: Queries, emb: Queries \cup {NoText}, keywords: KeywordSets]]
DigestTypes == digest \in [Feeds -> [Periods -> Slot(Content)]]
JobTypes    == job \in [Jobs -> JobState]

FeedsTypes ==
    /\ now \in 0..MaxTick /\ calls \in 0..MaxCalls
    /\ PaperTypes /\ FeedTypes /\ DigestTypes /\ JobTypes
    /\ monday \in Monday

\* A busy job has a feed, whose query it embeds unless it has been.
JobFacts ==
    \A j \in Jobs : job[j].at \in Busy =>
        /\ job[j].todo # <<>>
        /\ job[j].at = "embedding" => job[j].todo[1].emb = NoText
        /\ job[j].at \in {"searching", "writing"} => job[j].todo[1].emb \in Queries

GoneFacts == \A f \in Feeds \ There, w \in Periods : digest[f][w] = <<>>

\* Whoever embeds the query of a feed that is not raced has the query it has now.
QueryFacts ==
    /\ \A f \in There \ raced : feed[f].emb \in {NoText, feed[f].text}
    /\ \A j \in Jobs : \A i \in DOMAIN job[j].todo :
         LET row == job[j].todo[i]
         IN  row.emb = NoText /\ row.id \in There \ raced => row.text = feed[row.id].text

\* Nobody asks the weekly job for a number of days.
DaysFacts == job["weekly"].days = 0

FeedsInv == FeedsTypes /\ JobFacts /\ GoneFacts /\ QueryFacts /\ DaysFacts

\* What a digest lists, whatever has happened.
Sound(d) ==
    LET in == ToSet(d.papers)
    IN  /\ Cardinality(in) = Len(d.papers) /\ Len(d.papers) <= TopN
        /\ \A i, k \in DOMAIN d.papers :
             i < k => Score(d.papers[i], d.row, d.read) >= Score(d.papers[k], d.row, d.read)
        /\ \A p \in in : Score(p, d.row, d.read) >= DigestMinScore /\ Published[p] >= Since(d)

\* What a weekly one may not leave out.
Complete(d) ==
    /\ d.days = 0
    /\ \A p \in Expected(d) \ ToSet(d.papers) :
         Cardinality({q \in ToSet(d.papers) : Score(q, d.row, d.read) >= Score(p, d.row, d.read)}) = TopN

\* The digest that a job is about to store.
Result(j) == [row |-> Head(job[j].todo), by |-> j, day |-> job[j].day, days |-> job[j].days,
              read |-> job[j].read, papers |-> job[j].kept]

SoundFacts ==
    /\ \A f \in Feeds, w \in Periods : digest[f][w] # <<>> => Sound(digest[f][w][1])
    /\ \A j \in Jobs : job[j].at = "writing" => Sound(Result(j))

\* The weekly job keeps to its Monday.
MondayFacts ==
    /\ monday.period <= PeriodOf(now)
    /\ job["weekly"].at = "queued" => monday.period < PeriodOf(now)
    /\ job["weekly"].at \in Busy =>
         /\ monday.period = PeriodOf(now) /\ \A p \in monday.papers : paper[p].vec # 0
         /\ \A i \in DOMAIN job["weekly"].todo : job["weekly"].todo[i].id \in There
    /\ job["weekly"].at \in Building => job["weekly"].day = now

\* Each feed that it found is still to be built, or has its digest.
ServedFacts ==
    \A f \in monday.feeds \cap There :
        (job["weekly"].at \in Busy /\ Builds("weekly", f)) \/ digest[f][monday.period] # <<>>

CompleteFacts ==
    /\ \A f \in Feeds, w \in Periods : digest[f][w] # <<>> /\ digest[f][w][1].by = "weekly" =>
         w <= monday.period /\ (w = monday.period => Complete(digest[f][w][1]))
    /\ job["weekly"].at = "writing" => Complete(Result("weekly"))

WeekFacts == MondayFacts /\ ServedFacts /\ CompleteFacts

WeekInv == FeedsInv /\ SoundFacts /\ (happened = {} => WeekFacts)

LEMMA SlotIs ==
  ASSUME NEW S
  PROVE  /\ <<>> \in Slot(S)
         /\ \A x \in S : <<x>> \in Slot(S) /\ <<x>> # <<>> /\ <<x>>[1] = x
<1>1. <<>> \in Slot(S)
  <2> DEFINE nothing == <<>>
  <2>1. nothing \in Seq(S) /\ Len(nothing) = 0
    OBVIOUS
  <2> HIDE DEF nothing
  <2>2. nothing \in Slot(S)
    BY <2>1 DEF Slot
  <2> QED
    BY <2>2 DEF nothing
<1>2. ASSUME NEW x \in S PROVE <<x>> \in Slot(S) /\ <<x>> # <<>> /\ <<x>>[1] = x
  <2> DEFINE one == <<x>>
  <2>1. one \in Seq(S) /\ Len(one) <= 1 /\ one[1] = x
    OBVIOUS
  <2>2. one # <<>>
    OBVIOUS
  <2> HIDE DEF one
  <2>3. one \in Slot(S)
    BY <2>1 DEF Slot
  <2> QED
    BY <2>1, <2>2, <2>3 DEF one
<1> QED
  BY <1>1, <1>2

LEMMA IdleIs ==
  /\ Idle \in JobState /\ Idle.at = "idle" /\ Idle.todo = <<>> /\ Idle.days = 0
  /\ \A f \in Nat, n \in Int : LET next == [Idle EXCEPT !.at = "queued", !.of = f, !.days = n]
                              IN  next \in JobState /\ next.at = "queued" /\ next.todo = <<>>
  /\ \A rows \in Seq(FeedRow), n \in Int :
       LET next == [Idle EXCEPT !.at = "next", !.todo = rows, !.days = n]
       IN  next \in JobState /\ next.at = "next" /\ next.todo = rows /\ next.days = n
  /\ NoPapers \in Table
<1> DEFINE states == {"idle", "queued", "next", "embedding", "searching", "writing"}
           noRows == <<>>
           zero == 0
           days == 0
<1>1. zero \in Nat /\ zero \in 0..MaxTick /\ days \in Int
  BY FeedsAssumption
<1>2. noRows \in Seq(FeedRow) /\ noRows \in Seq(Preprints)
  OBVIOUS
<1>3. "idle" \in states /\ "queued" \in states /\ "next" \in states
  OBVIOUS
<1>4. NoPapers \in Table
  BY DEF NoPapers, Absent, Table
<1>5. Idle = [at |-> "idle", of |-> zero, todo |-> noRows, day |-> zero, days |-> days, read |-> NoPapers,
              kept |-> noRows]
  BY DEF Idle
<1>6. JobState = [at: states, of: Nat, todo: Seq(FeedRow), day: 0..MaxTick, days: Int, read: Table,
                  kept: Seq(Preprints)]
  BY DEF JobState
<1> HIDE DEF states, noRows, zero, days
<1>7. Idle \in JobState /\ Idle.at = "idle" /\ Idle.todo = noRows /\ Idle.days = days
  BY <1>1, <1>2, <1>3, <1>4, <1>5, <1>6
<1>8. ASSUME NEW f \in Nat, NEW n \in Int
      PROVE  LET next == [Idle EXCEPT !.at = "queued", !.of = f, !.days = n]
             IN  next \in JobState /\ next.at = "queued" /\ next.todo = noRows
  BY <1>1, <1>2, <1>3, <1>4, <1>5, <1>6
<1>9. ASSUME NEW rows \in Seq(FeedRow), NEW n \in Int
      PROVE  LET next == [Idle EXCEPT !.at = "next", !.todo = rows, !.days = n]
             IN  next \in JobState /\ next.at = "next" /\ next.todo = rows /\ next.days = n
  BY <1>1, <1>2, <1>3, <1>4, <1>5, <1>6
<1> QED
  BY <1>4, <1>7, <1>8, <1>9 DEF noRows, days

\* The rows that a job starts with.
Rows(fs) == [i \in DOMAIN Ascending(fs) |-> RowOf(Ascending(fs)[i])]

LEMMA RowsAre ==
  ASSUME FeedTypes, NEW fs \in SUBSET Feeds
  PROVE  /\ Rows(fs) \in Seq(FeedRow)
         /\ \A i \in DOMAIN Rows(fs) : \E f \in fs : Rows(fs)[i] = RowOf(f)
         /\ \A f \in fs : \E i \in DOMAIN Rows(fs) : Rows(fs)[i] = RowOf(f)
         /\ fs # {} => Rows(fs) # <<>>
<1> DEFINE n == Cardinality(fs)
<1>1. IsFiniteSet(fs) /\ fs \subseteq Int
  <2>1. IsFiniteSet(Feeds) /\ Feeds \subseteq Nat
    BY FeedsAssumption
  <2>2. IsFiniteSet(fs)
    BY <2>1, Parts
  <2> QED
    BY <2>1, <2>2
<1>2. /\ n \in Nat /\ Ascending(fs) \in [1..n -> fs]
      /\ \A x \in fs : \E i \in 1..n : Ascending(fs)[i] = x
  BY <1>1, AscendingIs
<1>3. \A f \in Feeds : RowOf(f) \in FeedRow
  BY DEF FeedTypes, FeedRow, RowOf
<1> HIDE DEF n
<1>4. Rows(fs) = [i \in 1..n |-> RowOf(Ascending(fs)[i])]
  BY <1>2 DEF Rows
<1>5. Rows(fs) \in Seq(FeedRow) /\ DOMAIN Rows(fs) = 1..n
  BY <1>2, <1>3, <1>4
<1>6. \A i \in 1..n : Rows(fs)[i] = RowOf(Ascending(fs)[i])
  BY <1>4
<1>7. ASSUME fs # {} PROVE Rows(fs) # <<>>
  <2>1. PICK i \in 1..n : TRUE
    BY <1>2, <1>7
  <2>2. i \in DOMAIN Rows(fs)
    BY <1>5
  <2>3. DOMAIN << >> = 1..0
    OBVIOUS
  <2> QED
    BY <2>2, <2>3
<1> QED
  BY <1>2, <1>5, <1>6, <1>7

\* The row that a busy job is at, and those after it.
LEMMA HeadIs ==
  ASSUME FeedsInv, NEW j \in Jobs, job[j].at \in Busy
  PROVE  /\ job[j].todo \in Seq(FeedRow) /\ Len(job[j].todo) \in Nat \ {0}
         /\ DOMAIN job[j].todo = 1..Len(job[j].todo) /\ 1 \in DOMAIN job[j].todo
         /\ Head(job[j].todo) = job[j].todo[1] /\ Head(job[j].todo) \in FeedRow
         /\ Tail(job[j].todo) \in Seq(FeedRow)
         /\ DOMAIN Tail(job[j].todo) = 1..(Len(job[j].todo) - 1)
         /\ \A i \in DOMAIN Tail(job[j].todo) :
              i + 1 \in DOMAIN job[j].todo /\ Tail(job[j].todo)[i] = job[j].todo[i + 1]
<1> DEFINE todo == job[j].todo
<1>1. todo \in Seq(FeedRow)
  BY DEF FeedsInv, FeedsTypes, JobTypes, JobState
<1>2. todo # <<>>
  BY DEF FeedsInv, JobFacts
<1> HIDE DEF todo
<1>3. Len(todo) \in Nat \ {0} /\ DOMAIN todo = 1..Len(todo)
  BY <1>1, <1>2
<1>4. 1 \in DOMAIN todo
  BY <1>3
<1>5. Head(todo) = todo[1] /\ Head(todo) \in FeedRow
  BY <1>1, <1>2, <1>4
<1>6. Tail(todo) \in Seq(FeedRow) /\ Len(Tail(todo)) = Len(todo) - 1
  BY <1>1, <1>2
<1>7. DOMAIN Tail(todo) = 1..(Len(todo) - 1)
  BY <1>6
<1>8. \A i \in DOMAIN Tail(todo) : i + 1 \in DOMAIN todo /\ Tail(todo)[i] = todo[i + 1]
  BY <1>1, <1>2, <1>3, <1>7
<1> QED
  BY <1>1, <1>3, <1>4, <1>5, <1>6, <1>7, <1>8 DEF todo

\* The rows of a job that has changed are rows it had, are embedded, or are taken anew.
LEMMA QueryRows ==
  ASSUME QueryFacts, feed' = feed, raced' = raced,
         \A j \in Jobs : \A i \in DOMAIN job'[j].todo :
            \/ \E k \in DOMAIN job[j].todo : job'[j].todo[i] = job[j].todo[k]
            \/ job'[j].todo[i].emb # NoText
            \/ \E f \in Feeds : job'[j].todo[i] = RowOf(f)
  PROVE  QueryFacts'
<1>1. There' = There
  BY DEF There
<1>2. \A f \in (There \ raced)' : feed'[f].emb \in {NoText, feed'[f].text}
  BY <1>1 DEF QueryFacts
<1>3. ASSUME NEW j \in Jobs, NEW i \in DOMAIN job'[j].todo, job'[j].todo[i].emb = NoText,
             job'[j].todo[i].id \in There \ raced
      PROVE  job'[j].todo[i].text = feed[job'[j].todo[i].id].text
  <2>1. CASE \E k \in DOMAIN job[j].todo : job'[j].todo[i] = job[j].todo[k]
    BY <1>3, <2>1 DEF QueryFacts
  <2>2. CASE \E f \in Feeds : job'[j].todo[i] = RowOf(f)
    BY <2>2 DEF RowOf
  <2> QED
    BY <1>3, <2>1, <2>2
<1> QED
  BY <1>1, <1>2, <1>3 DEF QueryFacts

LEMMA FeedsStart ==
  ASSUME FeedsInit
  PROVE  WeekInv
<1> DEFINE one == 1
           zero == 0
<1>1. one \in 0..MaxTick /\ zero \in 0..MaxCalls /\ zero \in Periods /\ one \in Nat
  <2>1. MaxTick \in Nat \ {0} /\ WeekTicks \in Nat \ {0} /\ MaxCalls \in Nat
    BY FeedsAssumption
  <2>2. MaxTick \div WeekTicks >= 0
    BY <2>1
  <2> QED
    BY <2>1, <2>2 DEF Periods
<1>2. now = one /\ calls = zero /\ monday = [period |-> zero, feeds |-> {}, papers |-> {}] /\ raced = {}
  BY DEF FeedsInit, NoMonday
<1> HIDE DEF one, zero
<1>3. /\ paper = NoPapers
      /\ feed = [f \in Feeds |-> [there |-> TRUE, text |-> Created[f].text, emb |-> NoText,
                                  keywords |-> Created[f].keywords]]
      /\ digest = [f \in Feeds |-> [w \in Periods |-> <<>>]]
      /\ job = [j \in Jobs |-> Idle]
  BY DEF FeedsInit
<1>4. PaperTypes
  BY <1>3, IdleIs DEF PaperTypes
<1>5. FeedTypes
  BY <1>3, FeedsAssumption DEF FeedTypes
<1>6. DigestTypes
  BY <1>3, SlotIs DEF DigestTypes
<1>7. JobTypes
  BY <1>3, IdleIs DEF JobTypes
<1>8. monday \in Monday
  BY <1>1, <1>2 DEF Monday
<1>9. \A j \in Jobs : job[j].at = "idle" /\ job[j].todo = <<>>
  BY <1>3, IdleIs
<1>10. "weekly" \in Jobs
  BY DEF Jobs
<1>11. JobFacts
  BY <1>9 DEF JobFacts, Busy, Building
<1>12. GoneFacts
  BY <1>3 DEF GoneFacts
<1>13. QueryFacts
  <2>1. \A f \in There \ raced : feed[f].emb = NoText
    BY <1>3 DEF There
  <2>2. \A j \in Jobs : DOMAIN job[j].todo = {}
    BY <1>9
  <2> QED
    BY <2>1, <2>2 DEF QueryFacts
<1>14. DaysFacts
  BY <1>3, <1>10, IdleIs DEF DaysFacts
<1>15. FeedsInv
  BY <1>1, <1>2, <1>4, <1>5, <1>6, <1>7, <1>8, <1>11, <1>12, <1>13, <1>14 DEF FeedsInv, FeedsTypes
<1>16. SoundFacts
  BY <1>3, <1>9 DEF SoundFacts
<1>17. MondayFacts
  <2>1. WeekTicks \in Nat \ {0}
    BY FeedsAssumption
  <2>2. 0 <= 1 \div WeekTicks
    BY <2>1
  <2>3. monday.period <= PeriodOf(now)
    BY <1>2, <2>2 DEF PeriodOf, one, zero
  <2> QED
    BY <2>3, <1>2, <1>9, <1>10 DEF MondayFacts, Busy, Building
<1>18. ServedFacts
  BY <1>2 DEF ServedFacts
<1>19. CompleteFacts
  BY <1>3, <1>9, <1>10 DEF CompleteFacts
<1> QED
  BY <1>15, <1>16, <1>17, <1>18, <1>19 DEF WeekInv, WeekFacts

-----------------------------------------------------------------------------
\* Every step keeps the types, and the embedding of a feed's query.

LEMMA TickTypes ==
  ASSUME FeedsInv, Tick
  PROVE  FeedsInv'
<1>1. FeedsTypes /\ JobFacts /\ GoneFacts /\ QueryFacts /\ DaysFacts
  BY DEF FeedsInv
<1>2. /\ now' = now + 1 /\ now < MaxTick
      /\ job' = job \/ job' = [job EXCEPT !["weekly"].at = "queued"]
      /\ paper' = paper /\ feed' = feed /\ digest' = digest /\ calls' = calls /\ monday' = monday
        /\ raced' = raced
  BY DEF Tick
<1>3. now' \in 0..MaxTick
  BY <1>1, <1>2, FeedsAssumption DEF FeedsTypes
<1>4. /\ JobTypes'
      /\ \A j \in Jobs : /\ job'[j].todo = job[j].todo /\ job'[j].days = job[j].days
                         /\ job'[j].at = job[j].at \/ job'[j].at = "queued"
  <2> DEFINE w == "weekly"
             next == [job[w] EXCEPT !.at = "queued"]
  <2>1. job \in [Jobs -> JobState] /\ w \in Jobs
    BY <1>1 DEF FeedsTypes, JobTypes, Jobs
  <2>2. next \in JobState /\ next.at = "queued" /\ next.todo = job[w].todo /\ next.days = job[w].days
    <3>1. job[w] \in JobState
      BY <2>1
    <3> QED
      BY <3>1 DEF JobState
  <2>3. job' = job \/ job' = [job EXCEPT ![w] = next]
    BY <1>2
  <2> HIDE DEF w, next
  <2>4. JobTypes'
    BY <2>1, <2>2, <2>3 DEF JobTypes
  <2>5. ASSUME NEW j \in Jobs
        PROVE  /\ job'[j].todo = job[j].todo /\ job'[j].days = job[j].days
               /\ job'[j].at = job[j].at \/ job'[j].at = "queued"
    BY <2>1, <2>2, <2>3
  <2> QED
    BY <2>4, <2>5
<1>5. FeedsTypes'
  BY <1>1, <1>2, <1>3, <1>4 DEF FeedsTypes, PaperTypes, FeedTypes, DigestTypes
<1>6. JobFacts'
  BY <1>1, <1>4 DEF JobFacts, Busy, Building
<1>7. GoneFacts'
  BY <1>1, <1>2 DEF GoneFacts, There
<1>8. QueryFacts'
  <2>1. ASSUME NEW j \in Jobs, NEW i \in DOMAIN job'[j].todo
        PROVE  \E k \in DOMAIN job[j].todo : job'[j].todo[i] = job[j].todo[k]
    <3>1. job'[j].todo = job[j].todo
      BY <1>4
    <3>2. i \in DOMAIN job[j].todo /\ job'[j].todo[i] = job[j].todo[i]
      BY <3>1
    <3> QED
      BY <3>2
  <2> QED
    BY <1>1, <1>2, <2>1, QueryRows
<1>9. DaysFacts'
  BY <1>1, <1>4 DEF DaysFacts, Jobs
<1> QED
  BY <1>5, <1>6, <1>7, <1>8, <1>9 DEF FeedsInv

\* What the passes do to a paper: it keeps its vector, or leaves Monday's.
Nightly(p) == Arrives(p) \/ Rewritten(p) \/ Embed(p)

LEMMA NightlyIs ==
  ASSUME FeedsInv, NEW p \in Preprints, Nightly(p)
  PROVE  /\ PaperTypes' /\ monday' \in Monday
         /\ now' = now /\ feed' = feed /\ digest' = digest /\ job' = job /\ calls' = calls
         /\ raced' = raced /\ happened' = happened
         /\ monday'.period = monday.period /\ monday'.feeds = monday.feeds
         /\ monday'.papers \subseteq monday.papers
         /\ job["weekly"].at # "idle" =>
              \A q \in monday'.papers : paper[q].vec # 0 => paper'[q].vec # 0
<1>1. /\ paper \in Table /\ monday \in Monday /\ monday.papers \subseteq Preprints
      /\ paper[p] \in [version: {0} \cup Versions, vec: {0} \cup Versions]
  BY DEF FeedsInv, FeedsTypes, PaperTypes, Monday, Table
<1>2. MaxVersion \in Nat \ {0} /\ LastVersion[p] \in Versions
  BY FeedsAssumption
<1>3. 1 \in Versions /\ \A n \in Versions : 1..n \subseteq Versions
  BY <1>2 DEF Versions
<1>4. CASE Arrives(p)
  <2>1. /\ paper' = [paper EXCEPT ![p].version = 1] /\ monday' = monday
        /\ now' = now /\ feed' = feed /\ digest' = digest /\ job' = job /\ calls' = calls
        /\ raced' = raced /\ happened' = happened
    BY <1>4 DEF Arrives
  <2>2. paper' \in Table /\ \A q \in Preprints : paper'[q].vec = paper[q].vec
    BY <1>1, <1>3, <2>1 DEF Table
  <2> QED
    BY <1>1, <2>1, <2>2 DEF PaperTypes
<1>5. CASE Embed(p)
  <2>1. PICK v \in 1..paper[p].version : paper' = [paper EXCEPT ![p].vec = v]
    BY <1>5 DEF Embed
  <2>2. /\ paper[p].vec = 0 /\ monday' = monday
        /\ now' = now /\ feed' = feed /\ digest' = digest /\ job' = job /\ calls' = calls
        /\ raced' = raced /\ happened' = happened
    BY <1>5 DEF Embed
  <2>3. paper[p].version \in Versions /\ v \in Versions
    <3>1. paper[p].version # 0
      BY <2>1
    <3> QED
      BY <1>1, <1>3, <2>1, <3>1
  <2>4. paper' \in Table /\ \A q \in Preprints : q # p => paper'[q] = paper[q]
    BY <1>1, <2>1, <2>3 DEF Table
  <2>5. \A q \in monday.papers : paper[q].vec # 0 => paper'[q].vec # 0
    BY <1>1, <2>2, <2>4
  <2> QED
    BY <1>1, <2>2, <2>4, <2>5 DEF PaperTypes
<1>6. CASE Rewritten(p)
  <2> DEFINE next == [version |-> paper[p].version + 1, vec |-> 0]
             fewer == [monday EXCEPT !.papers = @ \ {p}]
  <2>1. /\ paper[p].version \in 1..(LastVersion[p] - 1)
        /\ paper' = [paper EXCEPT ![p] = next]
        /\ monday' = IF job["weekly"].at = "idle" THEN monday ELSE fewer
        /\ now' = now /\ feed' = feed /\ digest' = digest /\ job' = job /\ calls' = calls
        /\ raced' = raced /\ happened' = happened
    BY <1>1, <1>6 DEF Rewritten, Table
  <2>2. next \in [version: {0} \cup Versions, vec: {0} \cup Versions]
    <3>1. paper[p].version + 1 \in Versions
      BY <1>2, <2>1 DEF Versions
    <3> QED
      BY <3>1
  <2>3. fewer \in Monday /\ fewer.period = monday.period /\ fewer.feeds = monday.feeds
          /\ fewer.papers = monday.papers \ {p}
    BY <1>1 DEF Monday
  <2> HIDE DEF next, fewer
  <2>4. paper' \in Table /\ \A q \in Preprints : q # p => paper'[q] = paper[q]
    BY <1>1, <2>1, <2>2 DEF Table
  <2>5. ASSUME job["weekly"].at # "idle", NEW q \in monday'.papers PROVE paper'[q] = paper[q]
    BY <1>1, <2>1, <2>3, <2>4, <2>5
  <2> QED
    BY <1>1, <2>1, <2>3, <2>4, <2>5 DEF PaperTypes
<1> QED
  BY <1>4, <1>5, <1>6 DEF Nightly

LEMMA NightlyTypes ==
  ASSUME FeedsInv, NEW p \in Preprints, Nightly(p)
  PROVE  FeedsInv'
<1>1. FeedsTypes /\ JobFacts /\ GoneFacts /\ QueryFacts /\ DaysFacts
  BY DEF FeedsInv
<1>2. /\ PaperTypes' /\ monday' \in Monday
      /\ now' = now /\ feed' = feed /\ digest' = digest /\ job' = job /\ calls' = calls /\ raced' = raced
  BY NightlyIs
<1>3. FeedsTypes'
  BY <1>1, <1>2 DEF FeedsTypes, FeedTypes, DigestTypes, JobTypes
<1>4. JobFacts' /\ GoneFacts' /\ DaysFacts'
  BY <1>1, <1>2 DEF JobFacts, GoneFacts, There, DaysFacts
<1>5. QueryFacts'
  BY <1>1, <1>2, QueryRows
<1> QED
  BY <1>3, <1>4, <1>5 DEF FeedsInv

LEMMA CallIs ==
  ASSUME FeedsTypes, Called
  PROVE  calls' \in 0..MaxCalls
  BY FeedsAssumption DEF FeedsTypes, Called

LEMMA UpdateFeedTypes ==
  ASSUME FeedsInv, NEW f \in Feeds, UpdateFeed(f)
  PROVE  FeedsInv'
<1>1. FeedsTypes /\ JobFacts /\ GoneFacts /\ QueryFacts /\ DaysFacts
  BY DEF FeedsInv
<1>2. PICK text \in Queries, kws \in KeywordSets :
         /\ feed' = [feed EXCEPT ![f] = Updated(@, text, kws)]
         /\ raced' = IF text # feed[f].text /\ \E j \in Jobs : Embeds(j, f) THEN raced \cup {f} ELSE raced
  BY DEF UpdateFeed
<1>3. /\ feed[f].there /\ Called
      /\ now' = now /\ paper' = paper /\ digest' = digest /\ job' = job /\ monday' = monday
  BY DEF UpdateFeed
<1>4. FeedTypes
  BY <1>1 DEF FeedsTypes
<1>5. /\ FeedTypes'
      /\ \A g \in Feeds : feed'[g].there = feed[g].there
      /\ \A g \in Feeds \ {f} : feed'[g] = feed[g]
      /\ feed'[f].text = text
      /\ feed'[f].emb = IF text = feed[f].text THEN feed[f].emb ELSE NoText
  BY <1>2, <1>4 DEF FeedTypes, Updated
<1>6. There' = There /\ raced \subseteq raced'
  BY <1>2, <1>5 DEF There
<1>7. FeedsTypes'
  BY <1>1, <1>3, <1>5, CallIs DEF FeedsTypes, PaperTypes, DigestTypes, JobTypes
<1>8. JobFacts' /\ GoneFacts'
  BY <1>1, <1>3, <1>6 DEF JobFacts, GoneFacts
<1>9. \A g \in (There \ raced)' : feed'[g].emb \in {NoText, feed'[g].text}
  <2> SUFFICES ASSUME NEW g \in There \ raced PROVE feed'[g].emb \in {NoText, feed'[g].text}
    BY <1>6
  <2>1. feed[g].emb \in {NoText, feed[g].text} /\ g \in Feeds
    BY <1>1 DEF QueryFacts, There
  <2> QED
    BY <2>1, <1>5
<1>10. ASSUME NEW j \in Jobs, NEW i \in DOMAIN job[j].todo, job[j].todo[i].emb = NoText,
              job[j].todo[i].id \in (There \ raced)'
       PROVE  job[j].todo[i].text = feed'[job[j].todo[i].id].text
  <2> DEFINE g == job[j].todo[i].id
  <2>1. job[j].todo[i].text = feed[g].text /\ g \in Feeds
    BY <1>1, <1>6, <1>10 DEF QueryFacts, There
  <2>2. CASE g # f
    BY <2>1, <2>2, <1>5
  <2>3. CASE g = f
    <3>1. Embeds(j, f)
      BY <2>3, <1>10 DEF Embeds
    <3>2. text = feed[f].text
      BY <3>1, <2>3, <1>2, <1>10
    <3> QED
      BY <3>2, <2>1, <2>3, <1>5
  <2> QED
    BY <2>2, <2>3
<1>11. QueryFacts'
  BY <1>3, <1>9, <1>10 DEF QueryFacts
<1>12. DaysFacts'
  BY <1>1, <1>3 DEF DaysFacts
<1> QED
  BY <1>7, <1>8, <1>11, <1>12 DEF FeedsInv

LEMMA DeleteFeedTypes ==
  ASSUME FeedsInv, NEW f \in Feeds, DeleteFeed(f)
  PROVE  FeedsInv'
<1>1. FeedsTypes /\ JobFacts /\ GoneFacts /\ QueryFacts /\ DaysFacts
  BY DEF FeedsInv
<1>2. /\ feed' = [feed EXCEPT ![f].there = FALSE]
      /\ digest' = [digest EXCEPT ![f] = [w \in Periods |-> <<>>]]
      /\ Called
      /\ now' = now /\ paper' = paper /\ job' = job /\ monday' = monday /\ raced' = raced
  BY DEF DeleteFeed
<1>3. FeedTypes /\ DigestTypes
  BY <1>1 DEF FeedsTypes
<1>4. /\ FeedTypes' /\ ~feed'[f].there
      /\ \A g \in Feeds : feed'[g].text = feed[g].text /\ feed'[g].emb = feed[g].emb
      /\ \A g \in Feeds \ {f} : feed'[g] = feed[g]
  BY <1>2, <1>3 DEF FeedTypes
<1>5. DigestTypes' /\ \A w \in Periods : digest'[f][w] = <<>> /\ \A g \in Feeds \ {f} : digest'[g][w] = digest[g][w]
  BY <1>2, <1>3, SlotIs DEF DigestTypes
<1>6. There' = There \ {f}
  BY <1>4 DEF There
<1>7. FeedsTypes'
  BY <1>1, <1>2, <1>4, <1>5, CallIs DEF FeedsTypes, PaperTypes, JobTypes
<1>8. JobFacts'
  BY <1>1, <1>2 DEF JobFacts
<1>9. GoneFacts'
  BY <1>1, <1>5, <1>6 DEF GoneFacts
<1>10. QueryFacts'
  <2>1. \A g \in (There \ raced)' : feed'[g].emb \in {NoText, feed'[g].text}
    BY <1>1, <1>2, <1>4, <1>6 DEF QueryFacts, There
  <2>2. ASSUME NEW j \in Jobs, NEW i \in DOMAIN job[j].todo, job[j].todo[i].emb = NoText,
               job[j].todo[i].id \in (There \ raced)'
        PROVE  job[j].todo[i].text = feed'[job[j].todo[i].id].text
    BY <1>1, <1>2, <1>4, <1>6, <2>2 DEF QueryFacts, There
  <2> QED
    BY <1>2, <2>1, <2>2 DEF QueryFacts
<1>11. DaysFacts'
  BY <1>1, <1>2 DEF DaysFacts
<1> QED
  BY <1>7, <1>8, <1>9, <1>10, <1>11 DEF FeedsInv

LEMMA QuotientGrows ==
  ASSUME NEW m \in Nat, NEW n \in Nat, NEW w \in Nat \ {0}, m <= n
  PROVE  m \div w <= n \div w /\ n \div w \in Nat
<1>1. m \div w <= n \div w
  OBVIOUS
<1>2. n \div w \in Nat
  OBVIOUS
<1> QED
  BY <1>1, <1>2

LEMMA QuotientSteps ==
  ASSUME NEW n \in Nat, NEW w \in Nat \ {0}, (n + 1) % w = 0
  PROVE  n \div w < (n + 1) \div w
OBVIOUS

LEMMA PeriodIs ==
  /\ \A n \in 0..MaxTick : PeriodOf(n) \in Periods /\ PeriodOf(n) \in Nat
  /\ \A n \in Nat : PeriodOf(n) <= PeriodOf(n + 1)
  /\ \A n \in Nat : (n + 1) % WeekTicks = 0 => PeriodOf(n) < PeriodOf(n + 1)
<1>1. WeekTicks \in Nat \ {0} /\ MaxTick \in Nat
  BY FeedsAssumption
<1>2. ASSUME NEW n \in 0..MaxTick PROVE PeriodOf(n) \in Periods /\ PeriodOf(n) \in Nat
  <2>1. n \in Nat /\ n <= MaxTick
    BY <1>1
  <2>2. n \div WeekTicks <= MaxTick \div WeekTicks /\ MaxTick \div WeekTicks \in Nat
    BY <1>1, <2>1, QuotientGrows
  <2>3. n \div WeekTicks \in Nat
    BY <1>1, <2>1, QuotientGrows
  <2> QED
    BY <2>2, <2>3 DEF PeriodOf, Periods
<1>3. ASSUME NEW n \in Nat PROVE PeriodOf(n) <= PeriodOf(n + 1)
  <2>1. n + 1 \in Nat /\ n <= n + 1
    OBVIOUS
  <2> QED
    BY <1>1, <2>1, QuotientGrows DEF PeriodOf
<1>4. ASSUME NEW n \in Nat, (n + 1) % WeekTicks = 0 PROVE PeriodOf(n) < PeriodOf(n + 1)
  BY <1>1, <1>4, QuotientSteps DEF PeriodOf
<1> QED
  BY <1>2, <1>3, <1>4

\* A step that changes nothing but a job.
LEMMA JobStepTypes ==
  ASSUME FeedsInv, NEW j \in Jobs, NEW next \in JobState, job' = [job EXCEPT ![j] = next],
         now' = now, paper' = paper, feed' = feed, digest' = digest, monday' \in Monday, raced' = raced,
         calls' \in 0..MaxCalls, j = "weekly" => next.days = 0,
         next.at \in Busy =>
            /\ next.todo # <<>>
            /\ next.at = "embedding" => next.todo[1].emb = NoText
            /\ next.at \in {"searching", "writing"} => next.todo[1].emb \in Queries,
         \A i \in DOMAIN next.todo :
            \/ \E k \in DOMAIN job[j].todo : next.todo[i] = job[j].todo[k]
            \/ next.todo[i].emb # NoText
            \/ \E f \in Feeds : next.todo[i] = RowOf(f)
  PROVE  FeedsInv'
<1>1. FeedsTypes /\ JobFacts /\ GoneFacts /\ QueryFacts /\ DaysFacts
  BY DEF FeedsInv
<1>2. JobTypes' /\ job'[j] = next /\ \A k \in Jobs \ {j} : job'[k] = job[k]
  BY <1>1 DEF FeedsTypes, JobTypes
<1>3. FeedsTypes'
  BY <1>1, <1>2 DEF FeedsTypes, PaperTypes, FeedTypes, DigestTypes
<1>4. JobFacts'
  <2>1. ASSUME NEW k \in Jobs, job'[k].at \in Busy
        PROVE  /\ job'[k].todo # <<>>
               /\ job'[k].at = "embedding" => job'[k].todo[1].emb = NoText
               /\ job'[k].at \in {"searching", "writing"} => job'[k].todo[1].emb \in Queries
    <3>1. CASE k = j
      BY <2>1, <3>1, <1>2
    <3>2. CASE k # j
      BY <2>1, <3>2, <1>1, <1>2 DEF JobFacts
    <3> QED
      BY <3>1, <3>2
  <2> QED
    BY <2>1 DEF JobFacts
<1>5. GoneFacts'
  BY <1>1 DEF GoneFacts, There
<1>6. QueryFacts'
  <2>1. ASSUME NEW k \in Jobs, NEW i \in DOMAIN job'[k].todo
        PROVE  \/ \E m \in DOMAIN job[k].todo : job'[k].todo[i] = job[k].todo[m]
               \/ job'[k].todo[i].emb # NoText
               \/ \E f \in Feeds : job'[k].todo[i] = RowOf(f)
    <3>1. CASE k = j
      BY <2>1, <3>1, <1>2
    <3>2. CASE k # j
      BY <2>1, <3>2, <1>2
    <3> QED
      BY <3>1, <3>2
  <2> QED
    BY <1>1, <2>1, QueryRows
<1>7. DaysFacts'
  <2> DEFINE w == "weekly"
  <2>1. job'[w].days = 0
    <3> HIDE DEF w
    <3>1. w \in Jobs
      BY DEF w, Jobs
    <3> QED
      BY <1>1, <1>2, <3>1 DEF DaysFacts, w
  <2> QED
    BY <2>1 DEF DaysFacts
<1> QED
  BY <1>3, <1>4, <1>5, <1>6, <1>7 DEF FeedsInv

LEMMA RunDigestTypes ==
  ASSUME FeedsInv, NEW f \in Feeds, RunDigest(f)
  PROVE  FeedsInv'
<1> DEFINE noRows == <<>>
           asked == "asked"
<1>1. PICK n \in AskedDays : job' = [job EXCEPT ![asked] = [Idle EXCEPT !.at = "queued", !.of = f, !.days = n]]
  BY DEF RunDigest
<1> DEFINE next == [Idle EXCEPT !.at = "queued", !.of = f, !.days = n]
<1>2. FeedsTypes
  BY DEF FeedsInv
<1>3. f \in Nat /\ n \in Int /\ asked \in Jobs /\ asked # "weekly"
  BY FeedsAssumption DEF Jobs
<1>4. next \in JobState /\ next.at = "queued" /\ next.todo = noRows
  BY <1>3, IdleIs
<1>5. /\ job' = [job EXCEPT ![asked] = next] /\ Called
      /\ now' = now /\ paper' = paper /\ feed' = feed /\ digest' = digest /\ monday' = monday
        /\ raced' = raced
  BY <1>1 DEF RunDigest
<1>6. next.at \notin Busy /\ DOMAIN next.todo = {}
  BY <1>4 DEF Busy, Building
<1> HIDE DEF next, noRows, asked
<1>7. calls' \in 0..MaxCalls /\ monday' \in Monday
  BY <1>2, <1>5, CallIs DEF FeedsTypes
<1> QED
  BY <1>3, <1>4, <1>5, <1>6, <1>7, JobStepTypes

LEMMA JobCutTypes ==
  ASSUME FeedsInv, NEW j \in Jobs, JobCut(j)
  PROVE  FeedsInv'
<1>1. FeedsTypes
  BY DEF FeedsInv
<1>2. /\ job' = [job EXCEPT ![j] = Idle]
      /\ now' = now /\ paper' = paper /\ feed' = feed /\ digest' = digest /\ monday' = monday
        /\ raced' = raced
      /\ calls' = calls
  BY DEF JobCut
<1>3. Idle \in JobState /\ Idle.at \notin Busy /\ DOMAIN Idle.todo = {} /\ Idle.days = 0
  <2>1. Idle \in JobState /\ Idle.at = "idle" /\ Idle.todo = <<>> /\ Idle.days = 0
    BY IdleIs
  <2>2. Idle.at \notin Busy
    BY <2>1 DEF Busy, Building
  <2>3. DOMAIN Idle.todo = {}
    BY <2>1
  <2> QED
    BY <2>1, <2>2, <2>3
<1>4. calls' \in 0..MaxCalls /\ monday' \in Monday
  BY <1>1, <1>2 DEF FeedsTypes
<1> QED
  BY <1>2, <1>3, <1>4, JobStepTypes

\* What JobStart makes of the job.
Started(fs, n) == IF fs = {} THEN Idle ELSE [Idle EXCEPT !.at = "next", !.todo = Rows(fs), !.days = n]

FeedsOf(j) == IF j = "weekly" THEN There ELSE {job[j].of} \cap There

LEMMA JobStartIs ==
  ASSUME NEW j \in Jobs, JobStart(j)
  PROVE  /\ job[j].at = "queued"
         /\ job' = [job EXCEPT ![j] = Started(FeedsOf(j), job[j].days)]
         /\ monday' = IF j # "weekly" THEN monday
                      ELSE [period |-> PeriodOf(now), feeds |-> There,
                            papers |-> {p \in Preprints : paper[p].vec # 0}]
         /\ now' = now /\ paper' = paper /\ feed' = feed /\ digest' = digest /\ calls' = calls
           /\ raced' = raced
         /\ happened' = happened
BY DEF JobStart, Started, Rows, FeedsOf

LEMMA StartedIs ==
  ASSUME FeedTypes, NEW fs \in SUBSET Feeds, NEW n \in Int
  PROVE  /\ Started(fs, n) \in JobState
         /\ Started(fs, n).days \in {0, n}
         /\ fs = {} => Started(fs, n).at = "idle" /\ Started(fs, n).todo = <<>>
         /\ fs # {} => Started(fs, n).at = "next" /\ Started(fs, n).todo = Rows(fs) /\ Rows(fs) # <<>>
         /\ \A i \in DOMAIN Started(fs, n).todo : \E f \in fs : Started(fs, n).todo[i] = RowOf(f)
<1> DEFINE rows == Rows(fs)
           noRows == <<>>
           next == [Idle EXCEPT !.at = "next", !.todo = rows, !.days = n]
<1>1. /\ rows \in Seq(FeedRow) /\ \A i \in DOMAIN rows : \E f \in fs : rows[i] = RowOf(f)
      /\ fs # {} => rows # <<>>
  BY RowsAre
<1>2. Started(fs, n) = IF fs = {} THEN Idle ELSE next
  BY DEF Started
<1>3. DOMAIN noRows = {}
  OBVIOUS
<1>4. Idle \in JobState /\ Idle.at = "idle" /\ Idle.todo = noRows /\ Idle.days = 0
  BY IdleIs
<1> HIDE DEF rows, noRows
<1>5. next \in JobState /\ next.at = "next" /\ next.todo = rows /\ next.days = n
  BY <1>1, IdleIs
<1> HIDE DEF next
<1>6. CASE fs = {}
  BY <1>2, <1>3, <1>4, <1>6 DEF noRows
<1>7. CASE fs # {}
  BY <1>1, <1>2, <1>5, <1>7 DEF rows
<1> QED
  BY <1>6, <1>7

LEMMA JobStartTypes ==
  ASSUME FeedsInv, NEW j \in Jobs, JobStart(j)
  PROVE  FeedsInv'
<1> DEFINE fs == FeedsOf(j)
           n == job[j].days
           next == Started(fs, n)
<1>1. FeedsTypes
  BY DEF FeedsInv
<1>2. There \subseteq Feeds /\ fs \in SUBSET Feeds
  BY DEF There, FeedsOf
<1>3. job' = [job EXCEPT ![j] = next]
  BY JobStartIs
<1> HIDE DEF fs
<1>4. FeedTypes /\ n \in Int
  BY <1>1 DEF FeedsTypes, JobTypes, JobState
<1> HIDE DEF n
<1>5. /\ next \in JobState
      /\ next.days \in {0, n}
      /\ fs = {} => next.at = "idle" /\ next.todo = <<>>
      /\ fs # {} => next.at = "next" /\ next.todo # <<>>
      /\ \A i \in DOMAIN next.todo : \E f \in fs : next.todo[i] = RowOf(f)
  BY <1>2, <1>4, StartedIs
<1> HIDE DEF next
<1>6. next.at \in Busy => next.at = "next" /\ next.todo # <<>>
  BY <1>5 DEF Busy, Building
<1>7. monday' \in Monday
  <2>1. monday \in Monday /\ now \in 0..MaxTick
    BY <1>1 DEF FeedsTypes
  <2>2. PeriodOf(now) \in Periods
    BY <2>1, PeriodIs
  <2>3. [period |-> PeriodOf(now), feeds |-> There, papers |-> {p \in Preprints : paper[p].vec # 0}] \in Monday
    BY <2>2, <1>2 DEF Monday
  <2> QED
    BY <2>1, <2>3, JobStartIs
<1>8. /\ now' = now /\ paper' = paper /\ feed' = feed /\ digest' = digest /\ raced' = raced /\ calls' = calls
  BY JobStartIs
<1>9. calls' \in 0..MaxCalls
  BY <1>1, <1>8 DEF FeedsTypes
<1>10. \A i \in DOMAIN next.todo : \E f \in Feeds : next.todo[i] = RowOf(f)
  BY <1>2, <1>5
<1>11. next.at \in Busy =>
            /\ next.todo # <<>>
            /\ next.at = "embedding" => next.todo[1].emb = NoText
            /\ next.at \in {"searching", "writing"} => next.todo[1].emb \in Queries
  BY <1>6
<1>12. j = "weekly" => next.days = 0
  BY <1>5 DEF FeedsInv, DaysFacts, n
<1> QED
  BY <1>3, <1>5, <1>7, <1>8, <1>9, <1>10, <1>11, <1>12, JobStepTypes

-----------------------------------------------------------------------------
\* What a digest is made of.

\* The n best: in order, and nothing better is left out.
LEMMA BestIs ==
  ASSUME NEW S \in SUBSET Preprints, NEW score \in [S -> Int], NEW n \in Nat
  PROVE  LET best == Best(n, score)
         IN  /\ best \in Seq(Preprints) /\ best \in Seq(S) /\ Distinct(best)
             /\ ToSet(best) \subseteq S /\ Len(best) <= n
             /\ \A i, k \in DOMAIN best : i < k => score[best[i]] >= score[best[k]]
             /\ \A x \in S \ ToSet(best) : Len(best) = n /\ \A y \in ToSet(best) : score[y] >= score[x]
<1> DEFINE m == Cardinality(S)
           r == Ranked(score)
           best == Best(n, score)
<1>1. IsFiniteSet(S) /\ S \subseteq Int
  <2>1. IsFiniteSet(Preprints) /\ Preprints \subseteq Nat
    BY FeedsAssumption
  <2>2. IsFiniteSet(S)
    BY <2>1, Parts
  <2> QED
    BY <2>1, <2>2
<1>2. /\ m \in Nat /\ r \in [1..m -> S]
      /\ \A x \in S : \E i \in 1..m : r[i] = x
      /\ \A i, j \in 1..m : i < j => Comes(score, r[i], r[j])
      /\ \A i, j \in 1..m : r[i] = r[j] => i = j
  BY <1>1, RankedIs
<1> HIDE DEF m, r
<1>3. r \in Seq(S) /\ Len(r) = m /\ DOMAIN r = 1..m
  BY <1>2
<1>4. best = First(n, r)
  BY DEF Best, r
<1> HIDE DEF best
<1>5. /\ best \in Seq(S) /\ Len(best) = (IF n <= m THEN n ELSE m) /\ Len(best) <= n
      /\ DOMAIN best = 1..Len(best) /\ DOMAIN best \subseteq 1..m
      /\ \A i \in DOMAIN best : best[i] = r[i]
  BY <1>3, <1>4, FirstIs
<1>6. best \in Seq(Preprints)
  BY <1>5
<1>7. Distinct(best)
  BY <1>2, <1>5 DEF Distinct
<1>8. ToSet(best) \subseteq S /\ \A y \in ToSet(best) : \E i \in DOMAIN best : best[i] = y
  BY <1>5, ToSetIs
<1>9. \A i, j \in 1..m : i < j => score[r[i]] >= score[r[j]]
  <2> SUFFICES ASSUME NEW i \in 1..m, NEW j \in 1..m, i < j PROVE score[r[i]] >= score[r[j]]
    OBVIOUS
  <2>1. Comes(score, r[i], r[j]) /\ r[i] \in S /\ r[j] \in S
    BY <1>2
  <2>2. score[r[i]] \in Int /\ score[r[j]] \in Int
    BY <2>1
  <2> QED
    BY <2>1, <2>2 DEF Comes
<1>10. \A i, k \in DOMAIN best : i < k => score[best[i]] >= score[best[k]]
  BY <1>5, <1>9
<1>11. ASSUME NEW x \in S \ ToSet(best)
       PROVE  Len(best) = n /\ \A y \in ToSet(best) : score[y] >= score[x]
  <2>1. PICK k \in 1..m : r[k] = x
    BY <1>2
  <2>2. k \notin DOMAIN best
    <3>1. ASSUME k \in DOMAIN best PROVE FALSE
      <4>1. best[k] = x
        BY <1>5, <2>1, <3>1
      <4>2. best[k] \in ToSet(best)
        BY <1>5, <3>1, ToSetIs
      <4> QED
        BY <4>1, <4>2
    <3> QED
      BY <3>1
  <2>3. Len(best) \in Nat /\ k > Len(best)
    BY <1>5, <2>2
  <2>4. Len(best) = n
    BY <1>2, <1>5, <2>3
  <2>5. ASSUME NEW y \in ToSet(best) PROVE score[y] >= score[x]
    <3>1. PICK i \in DOMAIN best : best[i] = y
      BY <1>8
    <3>2. i \in 1..m /\ i < k /\ r[i] = y
      BY <1>5, <2>3, <3>1
    <3> QED
      BY <1>9, <2>1, <3>2
  <2> QED
    BY <2>4, <2>5
<1> QED
  BY <1>5, <1>6, <1>7, <1>8, <1>10, <1>11 DEF best

\* What few others come near to is among the best.
LEMMA BestHas ==
  ASSUME NEW S \in SUBSET Preprints, NEW score \in [S -> Int], NEW n \in Nat,
         NEW x \in S, NEW T, IsFiniteSet(T), Cardinality(T) <= n, \A y \in S : score[y] >= score[x] => y \in T
  PROVE  x \in ToSet(Best(n, score))
<1> DEFINE best == Best(n, score)
<1> SUFFICES ASSUME x \notin ToSet(best) PROVE FALSE
  OBVIOUS
<1>1. /\ best \in Seq(S) /\ Distinct(best) /\ ToSet(best) \subseteq S
      /\ \A z \in S \ ToSet(best) : Len(best) = n /\ \A y \in ToSet(best) : score[y] >= score[z]
  BY BestIs
<1> HIDE DEF best
<1>2. Len(best) = n /\ \A y \in ToSet(best) : score[y] >= score[x]
  BY <1>1
<1>3. IsFiniteSet(ToSet(best)) /\ Cardinality(ToSet(best)) = n
  BY <1>1, <1>2, SizeIs
<1>4. score[x] \in Int
  OBVIOUS
<1>5. ToSet(best) \subseteq T /\ x \in T
  BY <1>1, <1>2, <1>4
<1>6. ToSet(best) # T
  BY <1>5
<1>7. Cardinality(ToSet(best)) < Cardinality(T) /\ Cardinality(T) \in Nat
  BY <1>5, <1>6, Parts
<1> QED
  BY <1>3, <1>7

\* What SearchPapers looks at: the papers with a vector, the nearest, those and the ones with a
\* keyword that are scored, those above the floor, and what is kept.
InWindow(j) == Window(Since(job[j]), paper)
Searched(j) == {p \in InWindow(j) : paper[p].vec # 0}
Nearest(j)  == ToSet(Best(VectorCandidates, [p \in Searched(j) |-> Nearness(p, Head(job[j].todo).emb, paper)]))
Pool(j, kw) ==
    ToSet(Best(RerankCandidates, [p \in Nearest(j) \cup kw |-> Nearness(p, Head(job[j].todo).emb, paper)]))
Above(j, kw)  == {p \in Pool(j, kw) : Score(p, Head(job[j].todo), paper) >= DigestMinScore}
Listed(j, kw) == Best(TopN, [p \in Above(j, kw) |-> Score(p, Head(job[j].todo), paper)])

LEMMA SearchIs ==
  ASSUME NEW j \in Jobs, SearchPapers(j)
  PROVE  /\ job[j].at = "searching"
         /\ \E kw \in SUBSET InWindow(j) :
              job' = [job EXCEPT ![j].at = "writing", ![j].read = paper, ![j].kept = Listed(j, kw)]
         /\ now' = now /\ paper' = paper /\ feed' = feed /\ digest' = digest /\ calls' = calls
         /\ monday' = monday /\ raced' = raced /\ happened' = happened
<1> DEFINE row == Head(job[j].todo)
           matched == {p \in InWindow(j) : <<p, paper[p].version>> \in row.keywords}
           k == Min({VectorCandidates, Cardinality(matched)})
<1>1. \E kw \in kSubset(k, matched) :
         job' = [job EXCEPT ![j].at = "writing", ![j].read = paper, ![j].kept = Listed(j, kw)]
  BY DEF SearchPapers, Listed, Above, Pool, Nearest, Searched, InWindow
<1>2. kSubset(k, matched) \subseteq SUBSET InWindow(j)
  BY DEF kSubset
<1> HIDE DEF k, matched
<1>3. \E kw \in SUBSET InWindow(j) :
         job' = [job EXCEPT ![j].at = "writing", ![j].read = paper, ![j].kept = Listed(j, kw)]
  BY <1>1, <1>2
<1>4. /\ job[j].at = "searching"
      /\ now' = now /\ paper' = paper /\ feed' = feed /\ digest' = digest /\ calls' = calls
      /\ monday' = monday /\ raced' = raced /\ happened' = happened
  BY DEF SearchPapers
<1> QED
  BY <1>3, <1>4

LEMMA ScoreIs ==
  ASSUME NEW row \in FeedRow, NEW table \in Table, NEW p \in Preprints, table[p].version # 0
  PROVE  Score(p, row, table) \in Int
<1>1. row.text \in Queries /\ table[p].version \in Versions
  BY DEF FeedRow, Table
<1>2. Relevance[row.text][p][table[p].version] \in Int /\ KeywordBoost \in Int
  BY <1>1, FeedsAssumption
<1> DEFINE zero == 0
           v == table[p].version
<1>3. zero \in Int
  OBVIOUS
<1>4. Score(p, row, table) = Relevance[row.text][p][v] + (IF <<p, v>> \in row.keywords THEN KeywordBoost ELSE zero)
  BY DEF Score
<1> HIDE DEF zero, v
<1>5. Relevance[row.text][p][v] \in Int
  BY <1>2 DEF v
<1> QED
  BY <1>2, <1>3, <1>4, <1>5

LEMMA NearnessIs ==
  ASSUME NEW emb \in Queries, NEW table \in Table, NEW p \in Preprints
  PROVE  Nearness(p, emb, table) \in Int
<1>1. table[p].vec # 0 => Similarity[emb][p][table[p].vec] \in Int
  BY FeedsAssumption DEF Table
<1> DEFINE zero == 0
<1>2. zero \in Int
  OBVIOUS
<1>3. Nearness(p, emb, table) = IF table[p].vec # 0 THEN Similarity[emb][p][table[p].vec] ELSE zero
  BY DEF Nearness
<1> HIDE DEF zero
<1> QED
  BY <1>1, <1>2, <1>3

\* What SearchPapers keeps: papers of the window, each once, the best that are above the floor;
\* and one that it could not leave out is there, or as many better ones are.
LEMMA ListedIs ==
  ASSUME NEW j \in Jobs, NEW row \in FeedRow, row.emb \in Queries, row = Head(job[j].todo),
         PaperTypes, job[j].day \in 0..MaxTick,
         NEW kw \in SUBSET InWindow(j), NEW d, d.row = row, d.day = job[j].day, d.days = job[j].days,
         d.read = paper, d.papers = Listed(j, kw)
  PROVE  /\ Listed(j, kw) \in Seq(Preprints) /\ Sound(d)
         /\ (\A p \in monday.papers : paper[p].vec # 0) /\ d.days = 0 => Complete(d)
<1> DEFINE emb == row.emb
           window == InWindow(j)
           near == Nearest(j)
           pool == Pool(j, kw)
           above == Above(j, kw)
           kept == Listed(j, kw)
           sim == [p \in Searched(j) |-> Nearness(p, emb, paper)]
           nears == [p \in near \cup kw |-> Nearness(p, emb, paper)]
           scores == [p \in above |-> Score(p, row, paper)]
<1>1. /\ VectorCandidates \in Nat /\ RerankCandidates \in Nat /\ TopN \in Nat /\ DigestMinScore \in Int
      /\ RerankCandidates <= VectorCandidates /\ paper \in Table
  BY FeedsAssumption DEF PaperTypes
<1>2. /\ window \in SUBSET Preprints /\ Searched(j) \in SUBSET Preprints /\ Searched(j) \subseteq window
      /\ \A p \in window : paper[p].version # 0 /\ Published[p] >= Since(job[j])
  BY DEF Window, Searched, InWindow
<1>3. near = ToSet(Best(VectorCandidates, sim)) /\ pool = ToSet(Best(RerankCandidates, nears))
        /\ kept = Best(TopN, scores)
  BY DEF Nearest, Pool, Listed
<1>4. above = {p \in pool : Score(p, row, paper) >= DigestMinScore}
  BY DEF Above
<1>5. Since(d) = Since(job[j])
  BY DEF Since
<1> HIDE DEF window, near, pool, above, kept
<1>6. sim \in [Searched(j) -> Int]
  BY <1>1, <1>2, NearnessIs
<1>7. near \subseteq Searched(j)
  BY <1>1, <1>2, <1>3, <1>6, BestIs
<1>8. kw \subseteq window
  BY DEF window
<1>9. near \cup kw \in SUBSET Preprints
  BY <1>2, <1>7, <1>8
<1>10. nears \in [near \cup kw -> Int]
  BY <1>1, <1>9, NearnessIs
<1>11. pool \subseteq near \cup kw
  BY <1>1, <1>3, <1>9, <1>10, BestIs
<1>12. above \in SUBSET Preprints /\ above \subseteq window
         /\ \A p \in above : Score(p, row, paper) >= DigestMinScore
  BY <1>2, <1>4, <1>7, <1>8, <1>9, <1>11
<1>13. scores \in [above -> Int]
  BY <1>1, <1>2, <1>12, ScoreIs
<1>14. /\ kept \in Seq(Preprints) /\ Distinct(kept) /\ ToSet(kept) \subseteq above /\ Len(kept) <= TopN
       /\ \A i, k \in DOMAIN kept : i < k => scores[kept[i]] >= scores[kept[k]]
       /\ \A x \in above \ ToSet(kept) : Len(kept) = TopN /\ \A y \in ToSet(kept) : scores[y] >= scores[x]
  <2>1. LET best == Best(TopN, scores)
        IN  /\ best \in Seq(Preprints) /\ best \in Seq(above) /\ Distinct(best)
            /\ ToSet(best) \subseteq above /\ Len(best) <= TopN
            /\ \A i, k \in DOMAIN best : i < k => scores[best[i]] >= scores[best[k]]
            /\ \A x \in above \ ToSet(best) : Len(best) = TopN
              /\ \A y \in ToSet(best) : scores[y] >= scores[x]
    BY <1>1, <1>12, <1>13, BestIs
  <2> HIDE DEF scores
  <2> QED
    BY <2>1, <1>3
<1>15. \A p \in above : scores[p] = Score(p, row, paper)
  OBVIOUS
<1>16. /\ \A p \in Searched(j) : sim[p] = Nearness(p, emb, paper)
       /\ \A p \in near \cup kw : nears[p] = Nearness(p, emb, paper)
  OBVIOUS
<1> HIDE DEF sim, nears, scores
<1>17. \A i \in DOMAIN kept : kept[i] \in above
  BY <1>14, ToSetIs
<1>18. IsFiniteSet(ToSet(kept)) /\ Cardinality(ToSet(kept)) = Len(kept)
  BY <1>14, SizeIs
<1>19. d.row = row /\ d.day = job[j].day /\ d.papers = kept /\ d.read = paper
  BY DEF kept
<1>20. Sound(d)
  <2>1. \A i, k \in DOMAIN kept : i < k => Score(kept[i], row, paper) >= Score(kept[k], row, paper)
    BY <1>14, <1>15, <1>17
  <2>2. \A p \in ToSet(kept) : Score(p, row, paper) >= DigestMinScore /\ Published[p] >= Since(d)
    BY <1>2, <1>5, <1>12, <1>14
  <2> QED
    BY <2>1, <2>2, <1>14, <1>18, <1>19 DEF Sound
<1>21. ASSUME \A p \in monday.papers : paper[p].vec # 0, d.days = 0, NEW p \in Expected(d) \ ToSet(kept)
       PROVE  Cardinality({q \in ToSet(kept) : Score(q, row, paper) >= Score(p, row, paper)}) = TopN
  <2> DEFINE T == {q \in window : Nearness(q, emb, paper) >= Nearness(p, emb, paper)}
  <2>1. window = {q \in Preprints : d.read[q].version # 0 /\ Published[q] >= d.day - DigestTicks}
    BY <1>5, <1>19, <1>21 DEF window, InWindow, Window, Since
  <2>2. /\ p \in monday.papers /\ p \in window /\ Score(p, row, paper) >= DigestMinScore
        /\ Cardinality(T) <= RerankCandidates
    <3> HIDE DEF T
    <3>1. T = {q \in window : Nearness(q, d.row.emb, d.read) >= Nearness(p, d.row.emb, d.read)}
      BY <1>19 DEF T
    <3> QED
      BY <1>19, <1>21, <2>1, <3>1 DEF Expected
  <2>3. p \in Searched(j)
    BY <2>2, <1>21 DEF Searched, window
  <2>4. IsFiniteSet(T)
    <3>1. IsFiniteSet(Preprints) /\ T \subseteq Preprints
      BY <1>2, FeedsAssumption
    <3> QED
      BY <3>1, Parts
  <2>5. \A q \in window : Nearness(q, emb, paper) >= Nearness(p, emb, paper) => q \in T
    OBVIOUS
  <2>6. Cardinality(T) \in Nat
    BY <2>4, Parts
  <2> HIDE DEF T
  <2>7. p \in near
    <3>1. \A q \in Searched(j) : sim[q] >= sim[p] => q \in T
      BY <1>2, <1>16, <2>3, <2>5
    <3>2. Cardinality(T) <= VectorCandidates
      BY <1>1, <2>2, <2>6
    <3> QED
      BY <3>1, <3>2, <1>1, <1>2, <1>3, <1>6, <2>3, <2>4, BestHas
  <2>8. p \in pool
    <3>1. \A q \in near \cup kw : nears[q] >= nears[p] => q \in T
      BY <1>2, <1>7, <1>8, <1>16, <2>5, <2>7
    <3>2. p \in near \cup kw
      BY <2>7
    <3> QED
      BY <3>1, <3>2, <1>1, <1>3, <1>9, <1>10, <2>2, <2>4, BestHas
  <2>9. p \in above
    BY <2>2, <2>8, <1>4
  <2>10. Len(kept) = TopN /\ \A y \in ToSet(kept) : Score(y, row, paper) >= Score(p, row, paper)
    BY <2>9, <1>14, <1>15, <1>21
  <2>11. {q \in ToSet(kept) : Score(q, row, paper) >= Score(p, row, paper)} = ToSet(kept)
    BY <2>10
  <2> QED
    BY <2>10, <2>11, <1>18
<1>22. (\A p \in monday.papers : paper[p].vec # 0) /\ d.days = 0 => Complete(d)
  BY <1>19, <1>21 DEF Complete
<1> QED
  BY <1>14, <1>20, <1>22 DEF kept

LEMMA BuildStartIs ==
  ASSUME FeedsInv, NEW j \in Jobs, BuildStart(j)
  PROVE  /\ job[j].at = "next"
         /\ LET next == [job[j] EXCEPT !.at = IF Head(job[j].todo).emb = NoText THEN "embedding" ELSE "searching",
                                       !.day = now]
            IN  /\ next \in JobState /\ next.todo = job[j].todo /\ next.day = now /\ next.days = job[j].days
                /\ next.at \in {"embedding", "searching"}
                /\ next.at = "embedding" <=> job[j].todo[1].emb = NoText
                /\ job' = [job EXCEPT ![j] = next]
         /\ now' = now /\ paper' = paper /\ feed' = feed /\ digest' = digest /\ calls' = calls
         /\ monday' = monday /\ raced' = raced /\ happened' = happened
<1> DEFINE at == IF Head(job[j].todo).emb = NoText THEN "embedding" ELSE "searching"
           next == [job[j] EXCEPT !.at = at, !.day = now]
<1>1. job[j].at = "next"
  BY DEF BuildStart
<1>2. job[j].at \in Busy
  BY <1>1 DEF Busy
<1>3. Head(job[j].todo) = job[j].todo[1]
  BY <1>2, HeadIs
<1>4. job[j] \in JobState /\ now \in 0..MaxTick
  BY DEF FeedsInv, FeedsTypes, JobTypes
<1>5. job' = [job EXCEPT ![j] = next]
  BY DEF BuildStart
<1>6. at \in {"embedding", "searching"} /\ (at = "embedding" <=> job[j].todo[1].emb = NoText)
  BY <1>3
<1> HIDE DEF at
<1>7. next \in JobState /\ next.todo = job[j].todo /\ next.day = now /\ next.at = at
        /\ next.days = job[j].days
  BY <1>4, <1>6 DEF JobState
<1>8. /\ now' = now /\ paper' = paper /\ feed' = feed /\ digest' = digest /\ calls' = calls
      /\ monday' = monday /\ raced' = raced /\ happened' = happened
  BY DEF BuildStart
<1> HIDE DEF next
<1> QED
  BY <1>1, <1>5, <1>6, <1>7, <1>8 DEF next, at

LEMMA BuildStartTypes ==
  ASSUME FeedsInv, NEW j \in Jobs, BuildStart(j)
  PROVE  FeedsInv'
<1> DEFINE next == [job[j] EXCEPT !.at = IF Head(job[j].todo).emb = NoText THEN "embedding" ELSE "searching",
                                  !.day = now]
<1>1. /\ job[j].at = "next"
      /\ next \in JobState /\ next.todo = job[j].todo /\ next.day = now /\ next.days = job[j].days
      /\ next.at \in {"embedding", "searching"}
      /\ next.at = "embedding" <=> job[j].todo[1].emb = NoText
      /\ job' = [job EXCEPT ![j] = next]
      /\ now' = now /\ paper' = paper /\ feed' = feed /\ digest' = digest /\ calls' = calls
      /\ monday' = monday /\ raced' = raced /\ happened' = happened
  BY BuildStartIs
<1> HIDE DEF next
<1>2. job[j].at \in Busy
  BY <1>1 DEF Busy
<1>3. job[j].todo \in Seq(FeedRow) /\ 1 \in DOMAIN job[j].todo /\ job[j].todo # <<>>
  <2>1. job[j].todo \in Seq(FeedRow) /\ 1 \in DOMAIN job[j].todo
    BY <1>2, HeadIs
  <2>2. job[j].todo # <<>>
    BY <1>2 DEF FeedsInv, JobFacts
  <2> QED
    BY <2>1, <2>2
<1>4. job[j].todo[1] \in FeedRow
  BY <1>3
<1>5. job[j].todo[1].emb \in Queries \cup {NoText}
  BY <1>4 DEF FeedRow
<1>6. next.at \in Busy =>
            /\ next.todo # <<>>
            /\ next.at = "embedding" => next.todo[1].emb = NoText
            /\ next.at \in {"searching", "writing"} => next.todo[1].emb \in Queries
  BY <1>1, <1>3, <1>5
<1>7. calls' \in 0..MaxCalls /\ monday' \in Monday
  BY <1>1 DEF FeedsInv, FeedsTypes
<1>8. \A i \in DOMAIN next.todo : \E k \in DOMAIN job[j].todo : next.todo[i] = job[j].todo[k]
  BY <1>1
<1>9. j = "weekly" => next.days = 0
  BY <1>1 DEF FeedsInv, DaysFacts
<1> QED
  BY <1>1, <1>6, <1>7, <1>8, <1>9, JobStepTypes

LEMMA EmbedQueryIs ==
  ASSUME FeedsInv, NEW j \in Jobs, EmbedQuery(j)
  PROVE  LET row == job[j].todo[1]
             next == [job[j] EXCEPT !.at = "searching", !.todo[1].emb = row.text]
         IN  /\ job[j].at = "embedding" /\ row \in FeedRow /\ row.emb = NoText
             /\ next \in JobState /\ next.at = "searching" /\ next.day = job[j].day
             /\ next.days = job[j].days
             /\ next.todo # <<>> /\ DOMAIN next.todo = DOMAIN job[j].todo
             /\ next.todo[1].emb = row.text /\ row.text \in Queries
             /\ \A i \in DOMAIN job[j].todo : /\ next.todo[i].id = job[j].todo[i].id
                                              /\ i # 1 => next.todo[i] = job[j].todo[i]
             /\ job' = [job EXCEPT ![j] = next]
             /\ feed' = IF feed[row.id].there THEN [feed EXCEPT ![row.id].emb = row.text] ELSE feed
             /\ now' = now /\ paper' = paper /\ digest' = digest /\ calls' = calls
             /\ monday' = monday /\ raced' = raced /\ happened' = happened
<1> DEFINE todo == job[j].todo
           row == todo[1]
           after == [todo EXCEPT ![1].emb = row.text]
           next == [job[j] EXCEPT !.at = "searching", !.todo[1].emb = row.text]
<1>1. job[j].at = "embedding"
  BY DEF EmbedQuery
<1>2. job[j].at \in Busy
  BY <1>1 DEF Busy, Building
<1>3. Head(todo) = row /\ todo \in Seq(FeedRow) /\ 1 \in DOMAIN todo /\ row \in FeedRow
  BY <1>2, HeadIs
<1>4. row.emb = NoText /\ todo # <<>>
  BY <1>1, <1>2 DEF FeedsInv, JobFacts
<1>5. job[j] \in JobState
  BY DEF FeedsInv, FeedsTypes, JobTypes
<1>6. job' = [job EXCEPT ![j] = next]
  BY <1>3 DEF EmbedQuery
<1>7. feed' = IF feed[row.id].there THEN [feed EXCEPT ![row.id].emb = row.text] ELSE feed
  BY <1>3 DEF EmbedQuery
<1>8. /\ now' = now /\ paper' = paper /\ digest' = digest /\ calls' = calls
      /\ monday' = monday /\ raced' = raced /\ happened' = happened
  BY DEF EmbedQuery
<1>9. next = [[job[j] EXCEPT !.at = "searching"] EXCEPT !.todo = after]
  OBVIOUS
<1>10. row.text \in Queries
  BY <1>3 DEF FeedRow
<1> HIDE DEF todo, row
<1>11. [row EXCEPT !.emb = row.text] \in FeedRow /\ [row EXCEPT !.emb = row.text].id = row.id
       /\ [row EXCEPT !.emb = row.text].emb = row.text
  BY <1>3, <1>10 DEF FeedRow
<1>12. after = [todo EXCEPT ![1] = [row EXCEPT !.emb = row.text]]
  BY <1>3 DEF row
<1> HIDE DEF after
<1>13. after \in Seq(FeedRow) /\ DOMAIN after = DOMAIN todo /\ after # <<>>
  BY <1>3, <1>11, <1>12
<1>14. /\ after[1] = [row EXCEPT !.emb = row.text]
       /\ \A i \in DOMAIN todo : i # 1 => after[i] = todo[i]
  BY <1>3, <1>12
<1>15. \A i \in DOMAIN todo : after[i].id = todo[i].id
  BY <1>11, <1>14 DEF row
<1>16. next \in JobState /\ next.at = "searching" /\ next.day = job[j].day /\ next.todo = after
         /\ next.days = job[j].days
  <2> HIDE DEF next
  <2>1. "searching" \in {"idle", "queued", "next", "embedding", "searching", "writing"}
    OBVIOUS
  <2> QED
    BY <1>5, <1>9, <1>13, <2>1 DEF JobState
<1> HIDE DEF next
<1>17. next.todo[1].emb = row.text
  BY <1>11, <1>14, <1>16
<1> QED
  BY <1>1, <1>3, <1>4, <1>6, <1>7, <1>8, <1>10, <1>13, <1>14, <1>15, <1>16, <1>17 DEF next, row, todo

LEMMA EmbedQueryTypes ==
  ASSUME FeedsInv, NEW j \in Jobs, EmbedQuery(j)
  PROVE  FeedsInv'
<1> DEFINE todo == job[j].todo
           row == todo[1]
           next == [job[j] EXCEPT !.at = "searching", !.todo[1].emb = row.text]
<1>1. /\ job[j].at = "embedding" /\ row \in FeedRow /\ row.emb = NoText
      /\ next \in JobState /\ next.at = "searching" /\ next.days = job[j].days
      /\ next.todo # <<>> /\ DOMAIN next.todo = DOMAIN todo
      /\ next.todo[1].emb = row.text /\ row.text \in Queries
      /\ \A i \in DOMAIN todo : next.todo[i].id = todo[i].id /\ (i # 1 => next.todo[i] = todo[i])
      /\ job' = [job EXCEPT ![j] = next]
      /\ feed' = IF feed[row.id].there THEN [feed EXCEPT ![row.id].emb = row.text] ELSE feed
      /\ now' = now /\ paper' = paper /\ digest' = digest /\ calls' = calls
      /\ monday' = monday /\ raced' = raced
  BY EmbedQueryIs
<1> HIDE DEF next
<1>2. FeedsTypes /\ JobFacts /\ GoneFacts /\ QueryFacts /\ DaysFacts
  BY DEF FeedsInv
<1>3. FeedTypes /\ JobTypes
  BY <1>2 DEF FeedsTypes
<1>4. 1 \in DOMAIN todo /\ row.id \in Feeds
  <2>1. job[j].at \in Busy
    BY <1>1 DEF Busy, Building
  <2>2. 1 \in DOMAIN todo
    BY <2>1, HeadIs
  <2> QED
    BY <1>1, <2>2 DEF FeedRow
<1> HIDE DEF todo, row
<1>5. /\ FeedTypes'
      /\ \A g \in Feeds : feed'[g].there = feed[g].there /\ feed'[g].text = feed[g].text
      /\ \A g \in Feeds : feed'[g].emb = feed[g].emb \/ (g = row.id /\ feed'[g].emb = row.text)
  BY <1>1, <1>3, <1>4 DEF FeedTypes
<1>6. There' = There
  BY <1>5 DEF There
<1>7. JobTypes' /\ job'[j] = next /\ \A k \in Jobs \ {j} : job'[k] = job[k]
  BY <1>1, <1>3 DEF JobTypes
<1>8. FeedsTypes'
  BY <1>1, <1>2, <1>5, <1>7 DEF FeedsTypes, PaperTypes, DigestTypes
<1>9. JobFacts'
  <2>1. ASSUME NEW k \in Jobs, job'[k].at \in Busy
        PROVE  /\ job'[k].todo # <<>>
               /\ job'[k].at = "embedding" => job'[k].todo[1].emb = NoText
               /\ job'[k].at \in {"searching", "writing"} => job'[k].todo[1].emb \in Queries
    <3>1. CASE k = j
      BY <3>1, <1>1, <1>7
    <3>2. CASE k # j
      BY <2>1, <3>2, <1>2, <1>7 DEF JobFacts
    <3> QED
      BY <3>1, <3>2
  <2> QED
    BY <2>1 DEF JobFacts
<1>10. GoneFacts'
  BY <1>1, <1>2, <1>6 DEF GoneFacts
<1>11. QueryFacts'
  <2>1. ASSUME NEW g \in There \ raced PROVE feed'[g].emb \in {NoText, feed'[g].text}
    <3>1. g \in Feeds /\ feed[g].emb \in {NoText, feed[g].text}
      BY <1>2 DEF QueryFacts, There
    <3>2. ASSUME g = row.id PROVE row.text = feed[g].text
      BY <1>1, <1>2, <1>4, <3>2 DEF QueryFacts, row, todo
    <3> QED
      BY <3>1, <3>2, <1>5
  <2>2. ASSUME NEW k \in Jobs, NEW i \in DOMAIN job'[k].todo, job'[k].todo[i].emb = NoText,
               job'[k].todo[i].id \in There \ raced
        PROVE  job'[k].todo[i].text = feed'[job'[k].todo[i].id].text
    <3>1. i \in DOMAIN job[k].todo /\ job'[k].todo[i] = job[k].todo[i]
      <4>1. CASE k # j
        BY <2>2, <4>1, <1>7
      <4>2. CASE k = j
        <5>1. i \in DOMAIN todo /\ job'[k].todo[i] = next.todo[i]
          BY <2>2, <4>2, <1>1, <1>7
        <5>2. i # 1
          <6>1. NoText \notin Queries
            BY FeedsAssumption
          <6> QED
            BY <2>2, <5>1, <1>1, <6>1
        <5> QED
          BY <4>2, <5>1, <5>2, <1>1 DEF todo
      <4> QED
        BY <4>1, <4>2
    <3>2. job[k].todo[i].text = feed[job[k].todo[i].id].text
      BY <2>2, <3>1, <1>2 DEF QueryFacts
    <3>3. job[k].todo[i].id \in Feeds
      BY <2>2, <3>1 DEF There
    <3> QED
      BY <3>1, <3>2, <3>3, <1>5
  <2> QED
    BY <1>1, <1>6, <2>1, <2>2 DEF QueryFacts
<1>12. DaysFacts'
  BY <1>1, <1>2, <1>7 DEF DaysFacts, Jobs
<1> QED
  BY <1>8, <1>9, <1>10, <1>11, <1>12 DEF FeedsInv

\* The job after SearchPapers, and the digest that it is to store.
LEMMA SearchedIs ==
  ASSUME FeedsInv, NEW j \in Jobs, SearchPapers(j)
  PROVE  /\ job[j].at = "searching"
         /\ \E next \in JobState :
              /\ next.at = "writing" /\ next.todo = job[j].todo /\ next.day = job[j].day
              /\ next.days = job[j].days /\ job' = [job EXCEPT ![j] = next] /\ job'[j] = next
         /\ Sound(Result(j))'
         /\ (\A p \in monday.papers : paper[p].vec # 0) /\ job[j].days = 0 => Complete(Result(j)')
<1> DEFINE row == Head(job[j].todo)
<1>1. PICK kw \in SUBSET InWindow(j) :
        job' = [job EXCEPT ![j].at = "writing", ![j].read = paper, ![j].kept = Listed(j, kw)]
  BY SearchIs
<1>2. job[j].at = "searching"
  BY SearchIs
<1> DEFINE next == [job[j] EXCEPT !.at = "writing", !.read = paper, !.kept = Listed(j, kw)]
           d == [row |-> row, by |-> j, day |-> job[j].day, days |-> job[j].days, read |-> paper,
                 papers |-> Listed(j, kw)]
<1>3. job[j].at \in Busy
  BY <1>2 DEF Busy, Building
<1>4. row \in FeedRow /\ row = job[j].todo[1] /\ row.emb \in Queries
  <2>1. row \in FeedRow /\ row = job[j].todo[1]
    BY <1>3, HeadIs
  <2>2. job[j].todo[1].emb \in Queries
    BY <1>2, <1>3 DEF FeedsInv, JobFacts
  <2> QED
    BY <2>1, <2>2
<1>5. job \in [Jobs -> JobState] /\ job[j] \in JobState /\ PaperTypes
  BY DEF FeedsInv, FeedsTypes, JobTypes
<1>6. job[j].day \in 0..MaxTick
  BY <1>5 DEF JobState
<1> HIDE DEF row
<1>7. /\ d.row = row /\ d.day = job[j].day /\ d.days = job[j].days /\ d.read = paper
      /\ d.papers = Listed(j, kw)
  OBVIOUS
<1> HIDE DEF d
<1>8. /\ Listed(j, kw) \in Seq(Preprints) /\ Sound(d)
      /\ (\A p \in monday.papers : paper[p].vec # 0) /\ d.days = 0 => Complete(d)
  BY <1>4, <1>5, <1>6, <1>7, ListedIs DEF row
<1>9. job' = [job EXCEPT ![j] = next]
  BY <1>1
<1>10. "writing" \in {"idle", "queued", "next", "embedding", "searching", "writing"}
  OBVIOUS
<1>11. next \in JobState /\ next.at = "writing" /\ next.todo = job[j].todo /\ next.day = job[j].day
       /\ next.days = job[j].days /\ next.read = paper /\ next.kept = Listed(j, kw)
  BY <1>5, <1>8, <1>10 DEF JobState, PaperTypes
<1> HIDE DEF next
<1>12. job'[j] = next
  BY <1>5, <1>9
<1>13. Result(j)' = d
  BY <1>11, <1>12 DEF Result, d, row
<1>14. Sound(Result(j))'
  BY <1>8, <1>13 DEF Sound, Score, Since
<1> QED
  BY <1>2, <1>7, <1>8, <1>9, <1>11, <1>12, <1>13, <1>14

LEMMA SearchTypes ==
  ASSUME FeedsInv, NEW j \in Jobs, SearchPapers(j)
  PROVE  FeedsInv'
<1>1. job[j].at = "searching"
  BY SearchedIs
<1>2. PICK next \in JobState : /\ next.at = "writing" /\ next.todo = job[j].todo /\ next.days = job[j].days
                               /\ job' = [job EXCEPT ![j] = next]
  BY SearchedIs
<1>3. /\ now' = now /\ paper' = paper /\ feed' = feed /\ digest' = digest /\ calls' = calls
      /\ monday' = monday /\ raced' = raced
  BY SearchIs
<1>4. job[j].at \in Busy
  BY <1>1 DEF Busy, Building
<1>5. job[j].todo # <<>> /\ job[j].todo[1].emb \in Queries
  BY <1>1, <1>4 DEF FeedsInv, JobFacts
<1>6. calls' \in 0..MaxCalls /\ monday' \in Monday
  BY <1>3 DEF FeedsInv, FeedsTypes
<1>7. \A i \in DOMAIN next.todo : \E k \in DOMAIN job[j].todo : next.todo[i] = job[j].todo[k]
  BY <1>2
<1>8. j = "weekly" => next.days = 0
  BY <1>2 DEF FeedsInv, DaysFacts
<1> QED
  BY <1>2, <1>3, <1>5, <1>6, <1>7, <1>8, JobStepTypes

LEMMA ResultIs ==
  ASSUME FeedsInv, NEW j \in Jobs, job[j].at = "writing"
  PROVE  Result(j) \in Content
<1> DEFINE row == Head(job[j].todo)
<1>1. job[j].at \in Busy
  BY DEF Busy, Building
<1>2. row = job[j].todo[1] /\ row \in FeedRow
  BY <1>1, HeadIs
<1>3. job[j].todo[1].emb \in Queries
  BY <1>1 DEF FeedsInv, JobFacts
<1>4. job[j] \in JobState
  BY DEF FeedsInv, FeedsTypes, JobTypes
<1>5. job[j].day \in 0..MaxTick /\ job[j].days \in Int /\ job[j].read \in Table /\ job[j].kept \in Seq(Preprints)
  BY <1>4 DEF JobState
<1>6. row \in EmbeddedRow
  BY <1>2, <1>3 DEF EmbeddedRow
<1>7. Result(j) = [row |-> row, by |-> j, day |-> job[j].day, days |-> job[j].days, read |-> job[j].read,
                    papers |-> job[j].kept]
  BY DEF Result
<1> HIDE DEF row
<1> QED
  BY <1>5, <1>6, <1>7 DEF Content

LEMMA StoreDigestIs ==
  ASSUME FeedsInv, NEW j \in Jobs, StoreDigest(j)
  PROVE  LET todo == job[j].todo
             f    == todo[1].id
             w    == PeriodOf(job[j].day)
         IN  /\ job[j].at = "writing" /\ f \in Feeds /\ w \in Periods /\ Result(j) \in Content
             /\ feed[f].there => digest' = [digest EXCEPT ![f][w] = <<Result(j)>>]
             /\ ~feed[f].there => digest' = digest
             /\ \E next \in JobState :
                  /\ job' = [job EXCEPT ![j] = next] /\ next.at \in {"idle", "next"}
                  /\ next.days \in {0, job[j].days}
                  /\ next.at = "next" => next.todo = Tail(todo) /\ Tail(todo) # <<>>
                  /\ next.at = "idle" => next.todo = <<>> /\ (feed[f].there => Tail(todo) = <<>>)
             /\ now' = now /\ paper' = paper /\ feed' = feed /\ calls' = calls
             /\ monday' = monday /\ raced' = raced /\ happened' = happened
<1> DEFINE todo == job[j].todo
           row == Head(todo)
           f == todo[1].id
           w == PeriodOf(job[j].day)
           rest == Tail(todo)
           n == job[j].days
           going == [Idle EXCEPT !.at = "next", !.todo = rest, !.days = n]
           next == IF feed[f].there /\ rest # <<>> THEN going ELSE Idle
<1>1. job[j].at = "writing"
  BY DEF StoreDigest
<1>2. job[j].at \in Busy
  BY <1>1 DEF Busy, Building
<1>3. row = todo[1] /\ row \in FeedRow /\ rest \in Seq(FeedRow)
  BY <1>2, HeadIs
<1>4. f \in Feeds
  BY <1>3 DEF FeedRow
<1>5. job[j] \in JobState
  BY DEF FeedsInv, FeedsTypes, JobTypes
<1>6. job[j].day \in 0..MaxTick /\ n \in Int /\ job[j].kept \in Seq(Preprints)
  BY <1>5 DEF JobState
<1>7. w \in Periods
  BY <1>6, PeriodIs
<1>8. Result(j) \in Content
  BY <1>1, ResultIs
<1>9. feed[f].there => digest' = [digest EXCEPT ![f][w] = <<Result(j)>>]
  BY <1>3 DEF StoreDigest, Result
<1>10. ~feed[f].there => digest' = digest
  BY <1>3 DEF StoreDigest
<1>11. job' = [job EXCEPT ![j] = next]
  BY <1>3 DEF StoreDigest
<1>12. /\ now' = now /\ paper' = paper /\ feed' = feed /\ calls' = calls
       /\ monday' = monday /\ raced' = raced /\ happened' = happened
  BY DEF StoreDigest
<1> HIDE DEF rest, f, w, n
<1>13. going \in JobState /\ going.at = "next" /\ going.todo = rest /\ going.days = n
  BY <1>3, <1>6, IdleIs
<1>14. Idle \in JobState /\ Idle.at = "idle" /\ Idle.todo = <<>> /\ Idle.days = 0
  BY IdleIs
<1> HIDE DEF going
<1>15. /\ next \in JobState /\ next.at \in {"idle", "next"} /\ next.days \in {0, n}
       /\ next.at = "next" => next.todo = rest /\ rest # <<>>
       /\ next.at = "idle" => next.todo = <<>> /\ (feed[f].there => rest = <<>>)
  <2>1. CASE feed[f].there /\ rest # <<>>
    <3>1. next = going
      BY <2>1
    <3> HIDE DEF next
    <3> QED
      BY <2>1, <3>1, <1>13
  <2>2. CASE ~(feed[f].there /\ rest # <<>>)
    <3>1. next = Idle
      BY <2>2
    <3> HIDE DEF next
    <3> QED
      BY <2>2, <3>1, <1>14
  <2> QED
    BY <2>1, <2>2
<1> HIDE DEF next
<1>16. \E s \in JobState :
          /\ job' = [job EXCEPT ![j] = s] /\ s.at \in {"idle", "next"} /\ s.days \in {0, job[j].days}
          /\ s.at = "next" => s.todo = rest /\ rest # <<>>
          /\ s.at = "idle" => s.todo = <<>> /\ (feed[f].there => rest = <<>>)
  BY <1>11, <1>15 DEF n
<1> QED
  BY <1>1, <1>4, <1>7, <1>8, <1>9, <1>10, <1>12, <1>16 DEF rest, f, w

LEMMA StoreDigestTypes ==
  ASSUME FeedsInv, NEW j \in Jobs, StoreDigest(j)
  PROVE  FeedsInv'
<1> DEFINE f == job[j].todo[1].id
           w == PeriodOf(job[j].day)
<1>1. /\ job[j].at = "writing" /\ f \in Feeds /\ w \in Periods /\ Result(j) \in Content
      /\ feed[f].there => digest' = [digest EXCEPT ![f][w] = <<Result(j)>>]
      /\ ~feed[f].there => digest' = digest
      /\ now' = now /\ paper' = paper /\ feed' = feed /\ calls' = calls /\ monday' = monday /\ raced' = raced
  BY StoreDigestIs
<1>2. PICK next \in JobState :
         /\ job' = [job EXCEPT ![j] = next] /\ next.at \in {"idle", "next"} /\ next.days \in {0, job[j].days}
         /\ next.at = "next" => next.todo = Tail(job[j].todo) /\ Tail(job[j].todo) # <<>>
         /\ next.at = "idle" => next.todo = <<>>
  BY StoreDigestIs
<1> HIDE DEF f, w
<1>3. FeedsTypes /\ JobFacts /\ GoneFacts /\ QueryFacts /\ DaysFacts
  BY DEF FeedsInv
<1>4. JobTypes /\ DigestTypes
  BY <1>3 DEF FeedsTypes
<1>5. JobTypes' /\ job'[j] = next /\ \A k \in Jobs \ {j} : job'[k] = job[k]
  BY <1>2, <1>4 DEF JobTypes
<1>6. DigestTypes' /\ \A g \in Feeds, v \in Periods : digest'[g][v] = digest[g][v] \/ (g = f /\ feed[f].there)
  <2>1. CASE feed[f].there
    <3> DEFINE one == <<Result(j)>>
    <3>1. one \in Slot(Content)
      BY <1>1, SlotIs
    <3>2. digest' = [digest EXCEPT ![f][w] = one]
      BY <1>1, <2>1
    <3> HIDE DEF one
    <3> QED
      BY <1>1, <1>4, <2>1, <3>1, <3>2 DEF DigestTypes
  <2>2. CASE ~feed[f].there
    BY <1>1, <1>4, <2>2 DEF DigestTypes
  <2> QED
    BY <2>1, <2>2
<1>7. FeedsTypes'
  BY <1>1, <1>3, <1>5, <1>6 DEF FeedsTypes, PaperTypes, FeedTypes
<1>8. JobFacts'
  <2>1. ASSUME NEW k \in Jobs, job'[k].at \in Busy
        PROVE  /\ job'[k].todo # <<>>
               /\ job'[k].at = "embedding" => job'[k].todo[1].emb = NoText
               /\ job'[k].at \in {"searching", "writing"} => job'[k].todo[1].emb \in Queries
    <3>1. CASE k = j
      <4>1. next.at = "next"
        <5>1. next.at # "idle"
          BY <2>1, <3>1, <1>5 DEF Busy, Building
        <5> QED
          BY <5>1, <1>2
      <4> QED
        BY <3>1, <4>1, <1>2, <1>5
    <3>2. CASE k # j
      BY <2>1, <3>2, <1>3, <1>5 DEF JobFacts
    <3> QED
      BY <3>1, <3>2
  <2> QED
    BY <2>1 DEF JobFacts
<1>9. There' = There
  BY <1>1 DEF There
<1>10. GoneFacts'
  <2>1. ASSUME NEW g \in Feeds \ There, NEW v \in Periods PROVE digest'[g][v] = <<>>
    <3>1. digest[g][v] = <<>> /\ ~feed[g].there
      BY <1>3 DEF GoneFacts, There
    <3> QED
      BY <3>1, <1>6
  <2> QED
    BY <1>9, <2>1 DEF GoneFacts
<1>11. QueryFacts'
  <2>1. ASSUME NEW k \in Jobs, NEW i \in DOMAIN job'[k].todo
        PROVE  \E m \in DOMAIN job[k].todo : job'[k].todo[i] = job[k].todo[m]
    <3>1. CASE k # j
      BY <2>1, <3>1, <1>5
    <3>2. CASE k = j
      <4>1. next.at = "next"
        <5>1. next.at = "idle" => DOMAIN next.todo = {}
          BY <1>2
        <5> QED
          BY <5>1, <2>1, <3>2, <1>2, <1>5
      <4>2. i \in DOMAIN Tail(job[j].todo) /\ job'[k].todo[i] = Tail(job[j].todo)[i]
        BY <2>1, <3>2, <4>1, <1>2, <1>5
      <4>3. job[j].at \in Busy
        BY <1>1 DEF Busy, Building
      <4>4. i + 1 \in DOMAIN job[j].todo /\ Tail(job[j].todo)[i] = job[j].todo[i + 1]
        BY <4>2, <4>3, HeadIs
      <4> QED
        BY <3>2, <4>2, <4>4
    <3> QED
      BY <3>1, <3>2
  <2> QED
    BY <1>1, <1>3, <2>1, QueryRows
<1>12. DaysFacts'
  BY <1>2, <1>3, <1>5 DEF DaysFacts, Jobs
<1> QED
  BY <1>7, <1>8, <1>10, <1>11, <1>12 DEF FeedsInv

LEMMA FeedsStutter ==
  ASSUME UNCHANGED feedsVars
  PROVE  FeedsInv => FeedsInv'
<1>1. /\ now' = now /\ paper' = paper /\ feed' = feed /\ digest' = digest /\ job' = job /\ calls' = calls
      /\ monday' = monday /\ raced' = raced
  BY DEF feedsVars
<1>2. FeedsTypes => FeedsTypes'
  BY <1>1 DEF FeedsTypes, PaperTypes, FeedTypes, DigestTypes, JobTypes
<1>3. JobFacts => JobFacts'
  BY <1>1 DEF JobFacts
<1>4. GoneFacts => GoneFacts'
  BY <1>1 DEF GoneFacts, There
<1>5. QueryFacts => QueryFacts'
  BY <1>1 DEF QueryFacts, There
<1>6. DaysFacts => DaysFacts'
  BY <1>1 DEF DaysFacts
<1> QED
  BY <1>2, <1>3, <1>4, <1>5, <1>6 DEF FeedsInv

LEMMA FeedsStepTypes ==
  ASSUME FeedsInv, [FeedsNext]_feedsVars
  PROVE  FeedsInv'
<1>1. CASE Tick
  BY <1>1, TickTypes
<1>2. ASSUME NEW p \in Preprints, Nightly(p) PROVE FeedsInv'
  BY <1>2, NightlyTypes
<1>3. ASSUME NEW f \in Feeds, UpdateFeed(f) \/ DeleteFeed(f) \/ RunDigest(f) PROVE FeedsInv'
  BY <1>3, UpdateFeedTypes, DeleteFeedTypes, RunDigestTypes
<1>4. ASSUME NEW j \in Jobs, \/ JobStart(j) \/ BuildStart(j) \/ EmbedQuery(j) \/ SearchPapers(j)
                             \/ StoreDigest(j) \/ JobCut(j)
      PROVE  FeedsInv'
  BY <1>4, JobStartTypes, BuildStartTypes, EmbedQueryTypes, SearchTypes, StoreDigestTypes, JobCutTypes
<1>5. CASE UNCHANGED feedsVars
  BY <1>5, FeedsStutter
<1> QED
  BY <1>1, <1>2, <1>3, <1>4, <1>5 DEF FeedsNext, Nightly

-----------------------------------------------------------------------------
\* What digests hold.

LEMMA SoundStays ==
  ASSUME NEW CONSTANT d, Sound(d)
  PROVE  Sound(d)'
BY DEF Sound, Score, Since

LEMMA SoundSame ==
  ASSUME SoundFacts, digest' = digest, \A j \in Jobs : job'[j].at = "writing" => Sound(Result(j))'
  PROVE  SoundFacts'
<1>1. ASSUME NEW f \in Feeds, NEW w \in Periods, digest'[f][w] # <<>> PROVE Sound(digest[f][w][1])'
  <2>1. Sound(digest[f][w][1])
    BY <1>1 DEF SoundFacts
  <2>2. PICK d : d = digest[f][w][1]
    OBVIOUS
  <2>3. Sound(d)'
    BY <2>1, <2>2, SoundStays
  <2>4. digest'[f][w][1] = d
    BY <2>2
  <2> QED
    BY <2>3, <2>4
<1> QED
  BY <1>1 DEF SoundFacts

LEMMA SoundResult ==
  ASSUME SoundFacts, NEW j \in Jobs, job[j].at = "writing", job'[j] = job[j]
  PROVE  Sound(Result(j))'
<1>1. Sound(Result(j))
  BY DEF SoundFacts
<1>2. Result(j)' = Result(j)
  BY DEF Result
<1> QED
  BY <1>1, <1>2 DEF Sound, Score, Since

\* What leaves out no paper of Monday's leaves out none of fewer.
LEMMA CompleteStays ==
  ASSUME monday'.papers \subseteq monday.papers, NEW CONSTANT d, Complete(d)
  PROVE  Complete(d)'
<1>1. Expected(d)' \subseteq Expected(d)
  BY DEF Expected, Nearness, Score
<1> QED
  BY <1>1 DEF Complete, Score

-----------------------------------------------------------------------------
\* A step that leaves Monday's papers their vectors, if not all of them in it.
SameMonday ==
    /\ monday'.period = monday.period /\ monday'.feeds = monday.feeds /\ monday'.papers \subseteq monday.papers
    /\ job["weekly"].at # "idle" => \A p \in monday'.papers : paper[p].vec # 0 => paper'[p].vec # 0

LEMMA StillMonday ==
  ASSUME paper' = paper, monday' = monday
  PROVE  SameMonday
BY DEF SameMonday

\* A step that stores nothing.
LEMMA WeekSame ==
  ASSUME FeedsInv, WeekFacts,
         now' = now, digest' = digest, SameMonday, There' = There,
         job'["weekly"].at = "queued" => job["weekly"].at = "queued",
         job'["weekly"].at \in Busy <=> job["weekly"].at \in Busy,
         job["weekly"].at \in Busy =>
            /\ DOMAIN job'["weekly"].todo = DOMAIN job["weekly"].todo
            /\ \A i \in DOMAIN job["weekly"].todo : job'["weekly"].todo[i].id = job["weekly"].todo[i].id,
         job'["weekly"].at \in Building => job'["weekly"].day = now,
         job'["weekly"].at = "writing" => Complete(Result("weekly"))'
  PROVE  WeekFacts'
<1> DEFINE w == "weekly"
<1>1. /\ job'[w].at = "queued" => job[w].at = "queued"
      /\ job'[w].at \in Busy <=> job[w].at \in Busy
      /\ job[w].at \in Busy =>
            /\ DOMAIN job'[w].todo = DOMAIN job[w].todo
            /\ \A i \in DOMAIN job[w].todo : job'[w].todo[i].id = job[w].todo[i].id
      /\ job'[w].at \in Building => job'[w].day = now
      /\ job'[w].at = "writing" => Complete(Result(w))'
  OBVIOUS
<1> HIDE DEF w
<1>2. MondayFacts'
  <2>1. MondayFacts /\ (job[w].at \in Busy => job[w].at # "idle")
    BY DEF WeekFacts, Busy, Building
  <2> QED
    BY <1>1, <2>1 DEF MondayFacts, PeriodOf, SameMonday, w
<1>3. \A f : job[w].at \in Busy /\ Builds(w, f) => job'[w].at \in Busy /\ Builds(w, f)'
  BY <1>1 DEF Builds
<1>4. ServedFacts'
  BY <1>3 DEF WeekFacts, ServedFacts, SameMonday, w
<1>5. ASSUME NEW f \in Feeds, NEW v \in Periods, digest'[f][v] # <<>>, digest'[f][v][1].by = w
      PROVE  v <= monday'.period /\ (v = monday'.period => Complete(digest[f][v][1])')
  <2>1. v <= monday.period /\ (v = monday.period => Complete(digest[f][v][1]))
    BY <1>5 DEF WeekFacts, CompleteFacts, SameMonday, w
  <2>2. PICK d : d = digest[f][v][1]
    OBVIOUS
  <2>3. Complete(d) => Complete(d)'
    BY CompleteStays DEF SameMonday
  <2> QED
    BY <2>1, <2>2, <2>3 DEF SameMonday
<1>6. CompleteFacts'
  BY <1>1, <1>5 DEF CompleteFacts, w
<1> QED
  BY <1>2, <1>4, <1>6 DEF WeekFacts

LEMMA TickKeeps ==
  ASSUME WeekInv, Tick
  PROVE  WeekInv'
<1> DEFINE w == "weekly"
<1>1. FeedsInv /\ SoundFacts /\ FeedsInv'
  BY TickTypes DEF WeekInv
<1>2. /\ now' = now + 1
      /\ job[w].at = "idle" \/ happened' # {}
      /\ job' = job \/ (now' % WeekTicks = 0 /\ job' = [job EXCEPT ![w].at = "queued"])
      /\ happened' = {} => happened = {}
      /\ paper' = paper /\ feed' = feed /\ digest' = digest /\ monday' = monday
  BY DEF Tick, Happens
<1>3. job \in [Jobs -> JobState] /\ w \in Jobs
  BY <1>1 DEF FeedsInv, FeedsTypes, JobTypes, Jobs
<1>4. \A j \in Jobs : job'[j] = job[j] \/ (j = w /\ job'[j].at = "queued" /\ now' % WeekTicks = 0)
  <2> DEFINE next == [job[w] EXCEPT !.at = "queued"]
  <2>1. next.at = "queued"
    <3>1. job[w] \in JobState
      BY <1>3
    <3> QED
      BY <3>1 DEF JobState
  <2>2. job' = job \/ (now' % WeekTicks = 0 /\ job' = [job EXCEPT ![w] = next])
    BY <1>2
  <2> HIDE DEF w, next
  <2> QED
    BY <1>3, <2>1, <2>2
<1> HIDE DEF w
<1>5. SoundFacts'
  <2>1. ASSUME NEW j \in Jobs, job'[j].at = "writing" PROVE Sound(Result(j))'
    <3>1. job'[j] = job[j]
      BY <1>4, <2>1
    <3> QED
      BY <1>1, <2>1, <3>1, SoundResult
  <2> QED
    BY <1>1, <1>2, <2>1, SoundSame
<1>6. ASSUME happened' = {} PROVE WeekFacts'
  <2>1. MondayFacts /\ ServedFacts /\ CompleteFacts /\ job[w].at = "idle"
    BY <1>2, <1>6 DEF WeekInv, WeekFacts
  <2>2. job'[w].at \in {"idle", "queued"} /\ (job'[w].at = "queued" => now' % WeekTicks = 0)
    BY <1>3, <1>4, <2>1
  <2>3. job'[w].at \notin Busy \cup Building \cup {"writing"}
    BY <2>2 DEF Busy, Building
  <2>4. now \in Nat /\ now \in 0..MaxTick /\ now' \in 0..MaxTick /\ monday.period \in Nat
    <3>1. now \in 0..MaxTick /\ now' \in 0..MaxTick /\ monday.period \in Periods
      BY <1>1 DEF FeedsInv, FeedsTypes, Monday
    <3> QED
      BY <3>1, FeedsAssumption DEF Periods
  <2>5. monday.period <= PeriodOf(now) /\ PeriodOf(now) \in Nat /\ PeriodOf(now') \in Nat
    BY <2>1, <2>4, PeriodIs DEF MondayFacts
  <2>6. PeriodOf(now) <= PeriodOf(now') /\ (now' % WeekTicks = 0 => PeriodOf(now) < PeriodOf(now'))
    <3>1. now' = now + 1
      BY <1>2
    <3>2. PeriodOf(now) <= PeriodOf(now + 1) /\ ((now + 1) % WeekTicks = 0 => PeriodOf(now) < PeriodOf(now + 1))
      BY <2>4, PeriodIs
    <3> QED
      BY <3>1, <3>2
  <2>7. monday.period <= PeriodOf(now') /\ (job'[w].at = "queued" => monday.period < PeriodOf(now'))
    BY <2>2, <2>4, <2>5, <2>6
  <2>8. PeriodOf(now)' = PeriodOf(now')
    BY DEF PeriodOf
  <2>9. MondayFacts'
    BY <1>2, <2>1, <2>3, <2>7, <2>8 DEF MondayFacts, w
  <2>10. There' = There /\ job[w].at \notin Busy
    BY <1>2, <2>1 DEF There, Busy, Building
  <2>11. ServedFacts'
    BY <1>2, <2>1, <2>10 DEF ServedFacts, w
  <2>12. CompleteFacts'
    <3>1. ASSUME NEW f \in Feeds, NEW v \in Periods, digest[f][v] # <<>>, digest[f][v][1].by = w
          PROVE  v <= monday.period /\ (v = monday.period => Complete(digest[f][v][1])')
      <4>1. v <= monday.period /\ (v = monday.period => Complete(digest[f][v][1]))
        BY <2>1, <3>1 DEF CompleteFacts, w
      <4>2. PICK d : d = digest[f][v][1]
        OBVIOUS
      <4>3. Complete(d) => Complete(d)'
        BY <1>2, CompleteStays
      <4>4. digest'[f][v][1] = d
        BY <1>2, <4>2
      <4> QED
        BY <4>1, <4>2, <4>3, <4>4
    <3> QED
      BY <1>2, <2>3, <3>1 DEF CompleteFacts, w
  <2> QED
    BY <2>9, <2>11, <2>12 DEF WeekFacts
<1> QED
  BY <1>1, <1>5, <1>6 DEF WeekInv

LEMMA CompleteResult ==
  ASSUME NEW j \in Jobs, monday'.papers \subseteq monday.papers, Complete(Result(j)), job'[j] = job[j]
  PROVE  Complete(Result(j))'
<1>1. PICK d : d = Result(j)
  OBVIOUS
<1>2. Complete(d)'
  BY <1>1, CompleteStays
<1>3. Result(j)' = d
  BY <1>1 DEF Result
<1> QED
  BY <1>2, <1>3

\* A step after which the weekly job is as it was.
LEMMA OthersKeep ==
  ASSUME FeedsInv, FeedsInv', SoundFacts, happened = {} => WeekFacts,
         now' = now, digest' = digest, SameMonday, There' = There,
         happened' = {} => happened = {},
         job'["weekly"] = job["weekly"],
         \A j \in Jobs : job'[j].at = "writing" => Sound(Result(j))'
  PROVE  WeekInv'
<1> DEFINE w == "weekly"
<1>1. SoundFacts'
  BY SoundSame
<1>2. ASSUME happened' = {} PROVE WeekFacts'
  <2>1. WeekFacts /\ w \in Jobs
    BY <1>2 DEF Jobs
  <2>2. job[w].at \in Building => job[w].day = now
    BY <2>1 DEF WeekFacts, MondayFacts
  <2>3. job[w].at = "writing" => Complete(Result(w))'
    <3>1. job[w].at = "writing" => Complete(Result(w))
      BY <2>1 DEF WeekFacts, CompleteFacts
    <3> QED
      BY <2>1, <3>1, CompleteResult DEF SameMonday
  <2> QED
    BY <2>1, <2>2, <2>3, WeekSame
<1> QED
  BY <1>1, <1>2 DEF WeekInv

LEMMA NightlyKeeps ==
  ASSUME WeekInv, NEW p \in Preprints, Nightly(p)
  PROVE  WeekInv'
<1>1. FeedsInv /\ SoundFacts /\ FeedsInv' /\ (happened = {} => WeekFacts)
  BY NightlyTypes DEF WeekInv
<1>2. /\ now' = now /\ feed' = feed /\ digest' = digest /\ job' = job /\ happened' = happened
      /\ SameMonday
  BY <1>1, NightlyIs DEF SameMonday
<1>3. There' = There
  BY <1>2 DEF There
<1>4. ASSUME NEW j \in Jobs, job'[j].at = "writing" PROVE Sound(Result(j))'
  BY <1>1, <1>2, <1>4, SoundResult
<1> QED
  BY <1>1, <1>2, <1>3, <1>4, OthersKeep

LEMMA UpdateFeedKeeps ==
  ASSUME WeekInv, NEW f \in Feeds, UpdateFeed(f)
  PROVE  WeekInv'
<1>1. FeedsInv /\ SoundFacts /\ FeedsInv' /\ (happened = {} => WeekFacts)
  BY UpdateFeedTypes DEF WeekInv
<1>2. /\ \E text \in Queries, kws \in KeywordSets : feed' = [feed EXCEPT ![f] = Updated(@, text, kws)]
      /\ now' = now /\ paper' = paper /\ digest' = digest /\ job' = job /\ monday' = monday
        /\ happened' = happened
  BY DEF UpdateFeed
<1>3. There' = There
  BY <1>1, <1>2 DEF FeedsInv, FeedsTypes, FeedTypes, There, Updated
<1>4. ASSUME NEW j \in Jobs, job'[j].at = "writing" PROVE Sound(Result(j))'
  BY <1>1, <1>2, <1>4, SoundResult
<1> QED
  BY <1>1, <1>2, <1>3, <1>4, StillMonday, OthersKeep

LEMMA RunDigestKeeps ==
  ASSUME WeekInv, NEW f \in Feeds, RunDigest(f)
  PROVE  WeekInv'
<1> DEFINE asked == "asked"
<1>1. PICK n \in AskedDays : job' = [job EXCEPT ![asked] = [Idle EXCEPT !.at = "queued", !.of = f, !.days = n]]
  BY DEF RunDigest
<1> DEFINE next == [Idle EXCEPT !.at = "queued", !.of = f, !.days = n]
<1>2. FeedsInv /\ SoundFacts /\ FeedsInv' /\ (happened = {} => WeekFacts)
  BY RunDigestTypes DEF WeekInv
<1>3. /\ job' = [job EXCEPT ![asked] = next]
      /\ now' = now /\ paper' = paper /\ feed' = feed /\ digest' = digest /\ monday' = monday
        /\ happened' = happened
  BY <1>1 DEF RunDigest
<1>4. next.at = "queued"
  <2>1. f \in Nat /\ n \in Int
    BY FeedsAssumption
  <2> QED
    BY <2>1, IdleIs
<1>5. asked \in Jobs /\ "weekly" \in Jobs /\ asked # "weekly" /\ job \in [Jobs -> JobState]
  BY <1>2 DEF Jobs, FeedsInv, FeedsTypes, JobTypes
<1> HIDE DEF next, asked
<1>6. job'["weekly"] = job["weekly"] /\ \A j \in Jobs : job'[j] = job[j] \/ job'[j].at = "queued"
  BY <1>3, <1>4, <1>5
<1>7. There' = There
  BY <1>3 DEF There
<1>8. ASSUME NEW j \in Jobs, job'[j].at = "writing" PROVE Sound(Result(j))'
  <2>1. job'[j] = job[j]
    BY <1>6, <1>8
  <2> QED
    BY <1>2, <1>8, <2>1, SoundResult
<1> QED
  BY <1>2, <1>3, <1>6, <1>7, <1>8, StillMonday, OthersKeep

LEMMA DeleteFeedKeeps ==
  ASSUME WeekInv, NEW f \in Feeds, DeleteFeed(f)
  PROVE  WeekInv'
<1> DEFINE w == "weekly"
<1>1. FeedsInv /\ SoundFacts /\ FeedsInv' /\ (happened = {} => WeekFacts)
  BY DeleteFeedTypes DEF WeekInv
<1>2. /\ feed' = [feed EXCEPT ![f].there = FALSE]
      /\ digest' = [digest EXCEPT ![f] = [v \in Periods |-> <<>>]]
      /\ IF Builds(w, f) THEN happened' = happened \cup {"deleted"} ELSE happened' = happened
      /\ now' = now /\ paper' = paper /\ job' = job /\ monday' = monday
  BY DEF DeleteFeed, Happens
<1>3. DigestTypes /\ FeedTypes
  BY <1>1 DEF FeedsInv, FeedsTypes
<1>4. \A v \in Periods : digest'[f][v] = <<>> /\ \A g \in Feeds \ {f} : digest'[g][v] = digest[g][v]
  BY <1>2, <1>3 DEF DigestTypes
<1>5. There' = There \ {f}
  BY <1>2, <1>3 DEF There, FeedTypes
<1>6. \A g \in Feeds, v \in Periods : digest'[g][v] # <<>> => digest'[g][v] = digest[g][v]
  BY <1>4
<1>7. SoundFacts'
  <2>1. ASSUME NEW g \in Feeds, NEW v \in Periods, digest'[g][v] # <<>> PROVE Sound(digest[g][v][1])'
    <3>1. digest'[g][v] = digest[g][v]
      BY <1>6, <2>1
    <3>2. Sound(digest[g][v][1])
      BY <1>1, <2>1, <3>1 DEF SoundFacts
    <3>3. PICK d : d = digest[g][v][1]
      OBVIOUS
    <3>4. Sound(d)'
      BY <3>2, <3>3, SoundStays
    <3>5. digest'[g][v][1] = d
      BY <3>1, <3>3
    <3> QED
      BY <3>4, <3>5
  <2>2. ASSUME NEW j \in Jobs, job'[j].at = "writing" PROVE Sound(Result(j))'
    BY <1>1, <1>2, <2>2, SoundResult
  <2> QED
    BY <2>1, <2>2 DEF SoundFacts
<1> HIDE DEF w
<1>8. ASSUME happened' = {} PROVE WeekFacts'
  <2>1. happened = {} /\ ~Builds(w, f)
    BY <1>2, <1>8
  <2>2. MondayFacts /\ ServedFacts /\ CompleteFacts
    BY <1>1, <2>1 DEF WeekFacts
  <2>3. MondayFacts'
    <3>1. ASSUME NEW i \in DOMAIN job[w].todo, job[w].at \in Busy PROVE job[w].todo[i].id \in There \ {f}
      BY <2>1, <2>2, <3>1 DEF MondayFacts, Builds, w
    <3> QED
      BY <1>2, <1>5, <2>2, <3>1 DEF MondayFacts, PeriodOf, w
  <2>4. ServedFacts'
    <3>1. ASSUME NEW g \in monday.feeds \cap There', ~(job[w].at \in Busy /\ Builds(w, g))
          PROVE  digest'[g][monday.period] # <<>>
      <4>1. g \in There /\ g # f /\ g \in Feeds
        BY <1>5 DEF There
      <4>2. digest[g][monday.period] # <<>>
        BY <2>2, <3>1, <4>1 DEF ServedFacts, w
      <4>3. monday.period \in Periods
        BY <1>1 DEF FeedsInv, FeedsTypes, Monday
      <4> QED
        BY <1>4, <4>1, <4>2, <4>3
    <3>2. \A g : Builds(w, g)' <=> Builds(w, g)
      BY <1>2 DEF Builds
    <3> QED
      BY <1>2, <3>1, <3>2 DEF ServedFacts, w
  <2>5. ASSUME NEW g \in Feeds, NEW v \in Periods, digest'[g][v] # <<>>, digest'[g][v][1].by = w
        PROVE  v <= monday.period /\ (v = monday.period => Complete(digest[g][v][1])')
    <3>1. digest'[g][v] = digest[g][v]
      BY <1>6, <2>5
    <3>2. v <= monday.period /\ (v = monday.period => Complete(digest[g][v][1]))
      BY <2>2, <2>5, <3>1 DEF CompleteFacts, w
    <3>3. PICK d : d = digest[g][v][1]
      OBVIOUS
    <3>4. Complete(d) => Complete(d)'
      BY <1>2, CompleteStays
    <3>5. digest'[g][v][1] = d
      BY <3>1, <3>3
    <3> QED
      BY <3>2, <3>3, <3>4, <3>5
  <2>6. ASSUME job[w].at = "writing" PROVE Complete(Result(w))'
    <3>1. Complete(Result(w)) /\ w \in Jobs
      BY <2>2, <2>6 DEF CompleteFacts, w, Jobs
    <3> QED
      BY <1>2, <3>1, CompleteResult
  <2>7. CompleteFacts'
    BY <1>2, <2>5, <2>6 DEF CompleteFacts, w
  <2> QED
    BY <2>3, <2>4, <2>7 DEF WeekFacts
<1> QED
  BY <1>1, <1>7, <1>8 DEF WeekInv

LEMMA JobCutKeeps ==
  ASSUME WeekInv, NEW j \in Jobs, JobCut(j)
  PROVE  WeekInv'
<1>1. FeedsInv /\ SoundFacts /\ FeedsInv'
  BY JobCutTypes DEF WeekInv
<1>2. job' = [job EXCEPT ![j] = Idle] /\ digest' = digest /\ happened' # {}
  BY DEF JobCut, Happens
<1>3. job \in [Jobs -> JobState]
  BY <1>1 DEF FeedsInv, FeedsTypes, JobTypes
<1>4. Idle.at = "idle"
  BY IdleIs
<1>5. ASSUME NEW k \in Jobs, job'[k].at = "writing" PROVE Sound(Result(k))'
  <2>1. job'[k] = job[k]
    BY <1>2, <1>3, <1>4, <1>5
  <2> QED
    BY <1>1, <1>5, <2>1, SoundResult
<1>6. SoundFacts'
  BY <1>1, <1>2, <1>5, SoundSame
<1> QED
  BY <1>1, <1>2, <1>6 DEF WeekInv

LEMMA JobStartKeeps ==
  ASSUME WeekInv, NEW j \in Jobs, JobStart(j)
  PROVE  WeekInv'
<1> DEFINE w == "weekly"
           n == job[j].days
           next == Started(FeedsOf(j), n)
<1>1. FeedsInv /\ SoundFacts /\ FeedsInv' /\ (happened = {} => WeekFacts)
  BY JobStartTypes DEF WeekInv
<1>2. /\ job[j].at = "queued" /\ job' = [job EXCEPT ![j] = next]
      /\ now' = now /\ paper' = paper /\ feed' = feed /\ digest' = digest /\ happened' = happened
  BY JobStartIs
<1>3. FeedsOf(j) \in SUBSET Feeds /\ There \subseteq Feeds /\ There' = There
  BY <1>2 DEF FeedsOf, There
<1>4. FeedTypes /\ job \in [Jobs -> JobState] /\ w \in Jobs /\ n \in Int
  BY <1>1 DEF FeedsInv, FeedsTypes, JobTypes, JobState, Jobs
<1> HIDE DEF n
<1>5. /\ FeedsOf(j) = {} => next.at = "idle"
      /\ FeedsOf(j) # {} => next.at = "next" /\ next.todo = Rows(FeedsOf(j))
      /\ \A i \in DOMAIN next.todo : \E f \in FeedsOf(j) : next.todo[i] = RowOf(f)
  BY <1>3, <1>4, StartedIs
<1> HIDE DEF next
<1>6. next.at \in {"idle", "next"}
  BY <1>5
<1>7. \A k \in Jobs : job'[k] = IF k = j THEN next ELSE job[k]
  BY <1>2, <1>4
<1>8. ASSUME NEW k \in Jobs, job'[k].at = "writing" PROVE Sound(Result(k))'
  <2>1. job'[k] = job[k]
    BY <1>6, <1>7, <1>8
  <2> QED
    BY <1>1, <1>8, <2>1, SoundResult
<1>9. CASE j # w
  <2>1. job'[w] = job[w] /\ monday' = monday
    BY <1>4, <1>7, <1>9, JobStartIs
  <2> QED
    BY <1>1, <1>2, <1>3, <1>8, <2>1, StillMonday, OthersKeep DEF w
<1>10. CASE j = w
  <2>1. /\ monday'.period = PeriodOf(now) /\ monday'.feeds = There
        /\ \A p \in monday'.papers : paper[p].vec # 0
    BY <1>10, JobStartIs
  <2>2. FeedsOf(j) = There /\ job'[w] = next
    BY <1>4, <1>7, <1>10 DEF FeedsOf
  <2>3. job'[w].at \notin Building \cup {"queued", "writing"}
    BY <1>6, <2>2 DEF Building
  <2>4. SoundFacts'
    BY <1>1, <1>2, <1>8, SoundSame
  <2>5. ASSUME happened' = {} PROVE WeekFacts'
    <3>1. MondayFacts /\ CompleteFacts
      BY <1>1, <1>2, <2>5 DEF WeekFacts
    <3>2. monday.period < PeriodOf(now) /\ PeriodOf(now) \in Nat /\ monday.period \in Nat
      <4>1. now \in 0..MaxTick /\ monday.period \in Periods
        BY <1>1 DEF FeedsInv, FeedsTypes, Monday
      <4>2. PeriodOf(now) \in Nat
        BY <4>1, PeriodIs
      <4>3. monday.period \in Nat
        BY <4>1, FeedsAssumption DEF Periods
      <4> QED
        BY <1>2, <1>10, <3>1, <4>2, <4>3 DEF MondayFacts, w
    <3>3. PeriodOf(now)' = PeriodOf(now)
      BY <1>2 DEF PeriodOf
    <3>4. MondayFacts'
      <4>1. \A i \in DOMAIN job'[w].todo : job'[w].todo[i].id \in There
        <5>1. ASSUME NEW i \in DOMAIN next.todo PROVE next.todo[i].id \in There
          <6>1. PICK f \in There : next.todo[i] = RowOf(f)
            BY <1>5, <2>2
          <6>2. RowOf(f).id = f
            BY DEF RowOf
          <6> QED
            BY <6>1, <6>2
        <5> QED
          BY <2>2, <5>1
      <4>2. monday'.period <= PeriodOf(now)
        BY <2>1, <3>2
      <4> QED
        BY <1>2, <1>3, <2>1, <2>3, <3>3, <4>1, <4>2 DEF MondayFacts, w
    <3>5. ServedFacts'
      <4>1. ASSUME NEW f \in There PROVE job'[w].at \in Busy /\ Builds(w, f)'
        <5>1. next.at = "next" /\ next.todo = Rows(There)
          BY <1>5, <2>2, <4>1
        <5>2. PICK i \in DOMAIN Rows(There) : Rows(There)[i] = RowOf(f)
          BY <1>3, <1>4, RowsAre
        <5>3. RowOf(f).id = f
          BY DEF RowOf
        <5>4. i \in DOMAIN job'[w].todo /\ job'[w].todo[i].id = f
          BY <2>2, <5>1, <5>2, <5>3
        <5> QED
          BY <2>2, <5>1, <5>4 DEF Builds, Busy
      <4> QED
        BY <1>3, <4>1 DEF ServedFacts, w
    <3>6. CompleteFacts'
      <4>1. ASSUME NEW f \in Feeds, NEW v \in Periods, digest[f][v] # <<>>, digest[f][v][1].by = w
            PROVE  v < PeriodOf(now) /\ v \in Nat
        <5>1. v <= monday.period
          BY <3>1, <4>1 DEF CompleteFacts, w
        <5>2. v \in Nat
          BY FeedsAssumption DEF Periods
        <5> QED
          BY <3>2, <5>1, <5>2
      <4>2. \A f \in Feeds, v \in Periods : digest[f][v] # <<>> /\ digest[f][v][1].by = w =>
               v <= PeriodOf(now) /\ v # PeriodOf(now)
        BY <3>2, <4>1
      <4> QED
        BY <1>2, <2>1, <2>3, <4>2 DEF CompleteFacts, w
    <3> QED
      BY <3>4, <3>5, <3>6 DEF WeekFacts
  <2> QED
    BY <1>1, <2>4, <2>5 DEF WeekInv
<1> QED
  BY <1>9, <1>10

LEMMA BuildStartKeeps ==
  ASSUME WeekInv, NEW j \in Jobs, BuildStart(j)
  PROVE  WeekInv'
<1> DEFINE w == "weekly"
           next == [job[j] EXCEPT !.at = IF Head(job[j].todo).emb = NoText THEN "embedding" ELSE "searching",
                                  !.day = now]
<1>1. FeedsInv /\ SoundFacts /\ FeedsInv' /\ (happened = {} => WeekFacts)
  BY BuildStartTypes DEF WeekInv
<1>2. /\ job[j].at = "next" /\ job' = [job EXCEPT ![j] = next]
      /\ next.todo = job[j].todo /\ next.day = now /\ next.at \in {"embedding", "searching"}
      /\ now' = now /\ paper' = paper /\ feed' = feed /\ digest' = digest /\ monday' = monday
      /\ happened' = happened
  BY <1>1, BuildStartIs
<1>3. There' = There
  BY <1>2 DEF There
<1>4. job \in [Jobs -> JobState] /\ w \in Jobs
  BY <1>1 DEF FeedsInv, FeedsTypes, JobTypes, Jobs
<1> HIDE DEF next
<1>5. \A k \in Jobs : job'[k] = IF k = j THEN next ELSE job[k]
  BY <1>2, <1>4
<1>6. ASSUME NEW k \in Jobs, job'[k].at = "writing" PROVE Sound(Result(k))'
  <2>1. job'[k] = job[k]
    BY <1>2, <1>5, <1>6
  <2> QED
    BY <1>1, <1>6, <2>1, SoundResult
<1>7. CASE j # w
  <2>1. job'[w] = job[w]
    BY <1>4, <1>5, <1>7
  <2> QED
    BY <1>1, <1>2, <1>3, <1>6, <2>1, StillMonday, OthersKeep DEF w
<1>8. CASE j = w
  <2>1. job'[w] = next
    BY <1>4, <1>5, <1>8
  <2>2. SoundFacts'
    BY <1>1, <1>2, <1>6, SoundSame
  <2>3. ASSUME happened' = {} PROVE WeekFacts'
    <3>1. WeekFacts
      BY <1>1, <1>2, <2>3
    <3>2. job'[w].at \in Busy /\ job[w].at \in Busy /\ job'[w].at \notin {"queued", "writing"}
      BY <1>2, <1>8, <2>1 DEF Busy, Building
    <3>3. job'[w].todo = job[w].todo /\ job'[w].day = now
      BY <1>2, <1>8, <2>1
    <3> QED
      BY <1>1, <1>2, <1>3, <3>1, <3>2, <3>3, StillMonday, WeekSame DEF w
  <2> QED
    BY <1>1, <2>2, <2>3 DEF WeekInv
<1> QED
  BY <1>7, <1>8

LEMMA EmbedQueryKeeps ==
  ASSUME WeekInv, NEW j \in Jobs, EmbedQuery(j)
  PROVE  WeekInv'
<1> DEFINE w == "weekly"
           row == job[j].todo[1]
           next == [job[j] EXCEPT !.at = "searching", !.todo[1].emb = row.text]
<1>1. FeedsInv /\ SoundFacts /\ FeedsInv' /\ (happened = {} => WeekFacts)
  BY EmbedQueryTypes DEF WeekInv
<1>2. /\ job[j].at = "embedding" /\ row \in FeedRow
      /\ next \in JobState /\ next.at = "searching" /\ next.day = job[j].day
      /\ DOMAIN next.todo = DOMAIN job[j].todo
      /\ \A i \in DOMAIN job[j].todo : next.todo[i].id = job[j].todo[i].id
      /\ job' = [job EXCEPT ![j] = next]
      /\ feed' = IF feed[row.id].there THEN [feed EXCEPT ![row.id].emb = row.text] ELSE feed
      /\ now' = now /\ paper' = paper /\ digest' = digest
      /\ monday' = monday /\ happened' = happened
  BY <1>1, EmbedQueryIs
<1>3. There' = There
  BY <1>1, <1>2 DEF There, FeedsInv, FeedsTypes, FeedTypes
<1>4. job \in [Jobs -> JobState] /\ w \in Jobs
  BY <1>1 DEF FeedsInv, FeedsTypes, JobTypes, Jobs
<1> HIDE DEF next, row
<1>5. \A k \in Jobs : job'[k] = IF k = j THEN next ELSE job[k]
  BY <1>2, <1>4
<1>6. ASSUME NEW k \in Jobs, job'[k].at = "writing" PROVE Sound(Result(k))'
  <2>1. job'[k] = job[k]
    BY <1>2, <1>5, <1>6
  <2> QED
    BY <1>1, <1>6, <2>1, SoundResult
<1>7. CASE j # w
  <2>1. job'[w] = job[w]
    BY <1>4, <1>5, <1>7
  <2> QED
    BY <1>1, <1>2, <1>3, <1>6, <2>1, StillMonday, OthersKeep DEF w
<1>8. CASE j = w
  <2>1. job'[w] = next
    BY <1>4, <1>5, <1>8
  <2>2. SoundFacts'
    BY <1>1, <1>2, <1>6, SoundSame
  <2>3. ASSUME happened' = {} PROVE WeekFacts'
    <3>1. WeekFacts
      BY <1>1, <1>2, <2>3
    <3>2. /\ job'[w].at \in Busy /\ job[w].at \in Busy /\ job[w].at \in Building
          /\ job'[w].at \notin {"queued", "writing"}
      BY <1>2, <1>8, <2>1 DEF Busy, Building
    <3>3. job'[w].day = now
      BY <1>2, <1>8, <2>1, <3>1, <3>2 DEF WeekFacts, MondayFacts, w
    <3>4. /\ DOMAIN job'[w].todo = DOMAIN job[w].todo
          /\ \A i \in DOMAIN job[w].todo : job'[w].todo[i].id = job[w].todo[i].id
      BY <1>2, <1>8, <2>1
    <3> QED
      BY <1>1, <1>2, <1>3, <3>1, <3>2, <3>3, <3>4, StillMonday, WeekSame DEF w
  <2> QED
    BY <1>1, <2>2, <2>3 DEF WeekInv
<1> QED
  BY <1>7, <1>8

LEMMA SearchKeeps ==
  ASSUME WeekInv, NEW j \in Jobs, SearchPapers(j)
  PROVE  WeekInv'
<1> DEFINE w == "weekly"
<1>1. FeedsInv /\ SoundFacts /\ FeedsInv' /\ (happened = {} => WeekFacts)
  BY SearchTypes DEF WeekInv
<1>2. /\ now' = now /\ paper' = paper /\ feed' = feed /\ digest' = digest /\ monday' = monday
      /\ happened' = happened
  BY SearchIs
<1>3. PICK next \in JobState :
         /\ next.at = "writing" /\ next.todo = job[j].todo /\ next.day = job[j].day
         /\ next.days = job[j].days
         /\ job' = [job EXCEPT ![j] = next] /\ job'[j] = next
  BY <1>1, SearchedIs
<1>4. /\ job[j].at = "searching" /\ Sound(Result(j))'
      /\ (\A p \in monday.papers : paper[p].vec # 0) /\ job[j].days = 0 => Complete(Result(j)')
  BY <1>1, SearchedIs
<1>5. There' = There
  BY <1>2 DEF There
<1>6. job \in [Jobs -> JobState] /\ w \in Jobs
  BY <1>1 DEF FeedsInv, FeedsTypes, JobTypes, Jobs
<1>7. \A k \in Jobs : job'[k] = IF k = j THEN next ELSE job[k]
  BY <1>3, <1>6
<1>8. ASSUME NEW k \in Jobs, job'[k].at = "writing" PROVE Sound(Result(k))'
  <2>1. CASE k = j
    BY <1>4, <2>1
  <2>2. CASE k # j
    <3>1. job'[k] = job[k]
      BY <1>7, <2>2
    <3> QED
      BY <1>1, <1>8, <3>1, SoundResult
  <2> QED
    BY <2>1, <2>2
<1>9. CASE j # w
  <2>1. job'[w] = job[w]
    BY <1>6, <1>7, <1>9
  <2> QED
    BY <1>1, <1>2, <1>5, <1>8, <2>1, StillMonday, OthersKeep DEF w
<1>10. CASE j = w
  <2>1. job'[w] = next
    BY <1>6, <1>7, <1>10
  <2>2. SoundFacts'
    BY <1>1, <1>2, <1>8, SoundSame
  <2>3. ASSUME happened' = {} PROVE WeekFacts'
    <3>1. WeekFacts
      BY <1>1, <1>2, <2>3
    <3>2. /\ job'[w].at \in Busy /\ job[w].at \in Busy /\ job[w].at \in Building
          /\ job'[w].at # "queued"
      BY <1>3, <1>4, <1>10, <2>1 DEF Busy, Building
    <3>3. job'[w].day = now
      BY <1>3, <1>10, <2>1, <3>1, <3>2 DEF WeekFacts, MondayFacts, w
    <3>4. Complete(Result(w))'
      <4>1. PICK d : d = Result(w)'
        OBVIOUS
      <4>2. Complete(d)
        <5>1. job[j].days = 0 /\ \A p \in monday.papers : paper[p].vec # 0
          BY <1>1, <1>10, <3>1, <3>2 DEF FeedsInv, DaysFacts, WeekFacts, MondayFacts, w
        <5> QED
          BY <1>4, <1>10, <4>1, <5>1
      <4>3. Complete(d)'
        BY <1>2, <4>2, CompleteStays
      <4> QED
        BY <4>1, <4>3
    <3>5. job'[w].todo = job[w].todo
      BY <1>3, <1>10, <2>1
    <3> QED
      BY <1>1, <1>2, <1>5, <3>1, <3>2, <3>3, <3>4, <3>5, StillMonday, WeekSame DEF w
  <2> QED
    BY <1>1, <2>2, <2>3 DEF WeekInv
<1> QED
  BY <1>9, <1>10

\* The digest table after a build.
Stored(f, w, d) == digest' = [digest EXCEPT ![f][w] = <<d>>]

LEMMA StoredIs ==
  ASSUME DigestTypes, NEW f \in Feeds, NEW w \in Periods, NEW d \in Content,
         Stored(f, w, d)
  PROVE  /\ digest'[f][w] # <<>> /\ digest'[f][w][1] = d
         /\ \A g \in Feeds, v \in Periods : g # f \/ v # w => digest'[g][v] = digest[g][v]
<1> DEFINE one == <<d>>
<1>1. one # <<>> /\ one[1] = d
  BY SlotIs
<1>2. digest' = [digest EXCEPT ![f][w] = one]
  BY DEF Stored
<1> HIDE DEF one
<1>3. digest'[f][w] = one /\ \A g \in Feeds, v \in Periods : g # f \/ v # w => digest'[g][v] = digest[g][v]
  BY <1>2 DEF DigestTypes
<1> QED
  BY <1>1, <1>3

LEMMA StoreSound ==
  ASSUME WeekInv, NEW j \in Jobs, StoreDigest(j)
  PROVE  SoundFacts'
<1> DEFINE f == job[j].todo[1].id
           w == PeriodOf(job[j].day)
<1>1. FeedsInv /\ SoundFacts
  BY DEF WeekInv
<1>2. /\ job[j].at = "writing" /\ f \in Feeds /\ w \in Periods /\ Result(j) \in Content
      /\ feed[f].there => digest' = [digest EXCEPT ![f][w] = <<Result(j)>>]
      /\ ~feed[f].there => digest' = digest
  BY <1>1, StoreDigestIs
<1>3. PICK next \in JobState : job' = [job EXCEPT ![j] = next] /\ next.at \in {"idle", "next"}
  BY <1>1, StoreDigestIs
<1>4. DigestTypes /\ job \in [Jobs -> JobState]
  BY <1>1 DEF FeedsInv, FeedsTypes, JobTypes
<1>5. \A k \in Jobs : job'[k] = IF k = j THEN next ELSE job[k]
  BY <1>3, <1>4
<1>6. ASSUME NEW k \in Jobs, job'[k].at = "writing" PROVE Sound(Result(k))'
  <2>1. job'[k] = job[k]
    BY <1>3, <1>5, <1>6
  <2> QED
    BY <1>1, <1>6, <2>1, SoundResult
<1> HIDE DEF f, w
<1>7. CASE ~feed[f].there
  BY <1>1, <1>2, <1>6, <1>7, SoundSame
<1>8. CASE feed[f].there
  <2>1. PICK d \in Content : d = Result(j)
    BY <1>2
  <2>2. Stored(f, w, d)
    BY <1>2, <1>8, <2>1 DEF Stored
  <2>3. /\ digest'[f][w] # <<>> /\ digest'[f][w][1] = d
        /\ \A g \in Feeds, v \in Periods : g # f \/ v # w => digest'[g][v] = digest[g][v]
    BY <1>2, <1>4, <2>2, StoredIs
  <2>4. Sound(d)'
    <3>1. Sound(d)
      BY <1>1, <1>2, <2>1 DEF SoundFacts
    <3> QED
      BY <3>1, SoundStays
  <2>5. ASSUME NEW g \in Feeds, NEW v \in Periods, digest'[g][v] # <<>> PROVE Sound(digest[g][v][1])'
    <3>1. CASE g = f /\ v = w
      BY <2>3, <2>4, <3>1
    <3>2. CASE g # f \/ v # w
      <4>1. digest'[g][v] = digest[g][v]
        BY <2>3, <3>2
      <4>2. PICK e : e = digest[g][v][1]
        OBVIOUS
      <4>3. Sound(e)
        BY <1>1, <2>5, <4>1, <4>2 DEF SoundFacts
      <4>4. Sound(e)'
        BY <4>3, SoundStays
      <4> QED
        BY <4>1, <4>2, <4>4
    <3> QED
      BY <3>1, <3>2
  <2> QED
    BY <1>6, <2>5 DEF SoundFacts
<1> QED
  BY <1>7, <1>8

\* A build by the API is no weekly digest.
LEMMA StoreAskedKeeps ==
  ASSUME WeekInv, NEW j \in Jobs, StoreDigest(j), j # "weekly", happened = {}
  PROVE  WeekFacts'
<1> DEFINE m == "weekly"
           f == job[j].todo[1].id
           w == PeriodOf(job[j].day)
<1>1. FeedsInv /\ SoundFacts /\ MondayFacts /\ ServedFacts /\ CompleteFacts
  BY DEF WeekInv, WeekFacts
<1>2. /\ f \in Feeds /\ w \in Periods /\ Result(j) \in Content
      /\ feed[f].there => digest' = [digest EXCEPT ![f][w] = <<Result(j)>>]
      /\ ~feed[f].there => digest' = digest
      /\ now' = now /\ paper' = paper /\ feed' = feed /\ monday' = monday
  BY <1>1, StoreDigestIs
<1>3. PICK next \in JobState : job' = [job EXCEPT ![j] = next]
  BY <1>1, StoreDigestIs
<1>4. DigestTypes /\ job \in [Jobs -> JobState] /\ m \in Jobs /\ monday.period \in Periods
  BY <1>1 DEF FeedsInv, FeedsTypes, JobTypes, Jobs, Monday
<1>5. job'[m] = job[m] /\ There' = There
  BY <1>2, <1>3, <1>4 DEF There
<1> HIDE DEF f, w
<1>6. \A g \in Feeds, v \in Periods :
        digest'[g][v] = digest[g][v] \/ (digest'[g][v] # <<>> /\ digest'[g][v][1].by = j)
  <2>1. CASE ~feed[f].there
    BY <1>2, <2>1
  <2>2. CASE feed[f].there
    <3>1. PICK d \in Content : d = Result(j)
      BY <1>2
    <3>2. Stored(f, w, d) /\ d.by = j
      BY <1>2, <2>2, <3>1 DEF Result, Stored
    <3>3. /\ digest'[f][w] # <<>> /\ digest'[f][w][1] = d
          /\ \A g \in Feeds, v \in Periods : g # f \/ v # w => digest'[g][v] = digest[g][v]
      BY <1>2, <1>4, <3>2, StoredIs
    <3> QED
      BY <3>2, <3>3
  <2> QED
    BY <2>1, <2>2
<1>7. MondayFacts'
  BY <1>1, <1>2, <1>5 DEF MondayFacts, PeriodOf
<1>8. ServedFacts'
  <2>1. ASSUME NEW g \in monday.feeds \cap There, ~(job[m].at \in Busy /\ Builds(m, g))
        PROVE  digest'[g][monday.period] # <<>>
    <3>1. g \in Feeds
      BY DEF There
    <3>2. digest[g][monday.period] # <<>>
      BY <1>1, <2>1 DEF ServedFacts
    <3> QED
      BY <1>4, <1>6, <3>1, <3>2
  <2>2. \A g : Builds(m, g)' <=> Builds(m, g)
    BY <1>5 DEF Builds
  <2> QED
    BY <1>2, <1>5, <2>1, <2>2 DEF ServedFacts
<1>9. CompleteFacts'
  <2>1. ASSUME NEW g \in Feeds, NEW v \in Periods, digest'[g][v] # <<>>, digest'[g][v][1].by = m
        PROVE  v <= monday.period /\ (v = monday.period => Complete(digest[g][v][1])')
    <3>1. digest'[g][v] = digest[g][v]
      BY <1>6, <2>1
    <3>2. v <= monday.period /\ (v = monday.period => Complete(digest[g][v][1]))
      BY <1>1, <2>1, <3>1 DEF CompleteFacts
    <3>3. PICK d : d = digest[g][v][1]
      OBVIOUS
    <3>4. Complete(d) => Complete(d)'
      BY <1>2, CompleteStays
    <3>5. digest'[g][v][1] = d
      BY <3>1, <3>3
    <3> QED
      BY <3>2, <3>3, <3>4, <3>5
  <2>2. ASSUME job[m].at = "writing" PROVE Complete(Result(m))'
    <3>1. Complete(Result(m))
      BY <1>1, <2>2 DEF CompleteFacts
    <3> QED
      BY <1>2, <1>4, <1>5, <3>1, CompleteResult
  <2> QED
    BY <1>2, <1>5, <2>1, <2>2 DEF CompleteFacts
<1> QED
  BY <1>7, <1>8, <1>9 DEF WeekFacts

\* The weekly job stores what it could not leave out, and goes on to the feeds that are left.
LEMMA StoreWeeklyKeeps ==
  ASSUME WeekInv, NEW m \in Jobs, StoreDigest(m), m = "weekly", happened = {}
  PROVE  WeekFacts'
<1> DEFINE todo == job[m].todo
           f == todo[1].id
           w == PeriodOf(job[m].day)
<1>1. FeedsInv /\ SoundFacts /\ MondayFacts /\ ServedFacts /\ CompleteFacts
  BY DEF WeekInv, WeekFacts
<1>2. /\ job[m].at = "writing" /\ f \in Feeds /\ w \in Periods /\ Result(m) \in Content
      /\ feed[f].there => digest' = [digest EXCEPT ![f][w] = <<Result(m)>>]
      /\ now' = now /\ paper' = paper /\ feed' = feed /\ monday' = monday
  BY <1>1, StoreDigestIs
<1>3. PICK next \in JobState :
        /\ job' = [job EXCEPT ![m] = next] /\ next.at \in {"idle", "next"}
        /\ next.at = "next" => next.todo = Tail(todo) /\ Tail(todo) # <<>>
        /\ next.at = "idle" => next.todo = <<>> /\ (feed[f].there => Tail(todo) = <<>>)
  BY <1>1, StoreDigestIs
<1>4. job[m].at \in Busy /\ job[m].at \in Building
  BY <1>2 DEF Busy, Building
<1>5. /\ DOMAIN todo = 1..Len(todo) /\ Len(todo) \in Nat \ {0} /\ 1 \in DOMAIN todo
      /\ DOMAIN Tail(todo) = 1..(Len(todo) - 1)
      /\ \A i \in DOMAIN Tail(todo) : i + 1 \in DOMAIN todo /\ Tail(todo)[i] = todo[i + 1]
  BY <1>1, <1>4, HeadIs
<1>6. /\ \A i \in DOMAIN todo : todo[i].id \in There
      /\ job[m].day = now /\ monday.period = PeriodOf(now)
  BY <1>1, <1>4 DEF MondayFacts
<1>7. DigestTypes /\ job \in [Jobs -> JobState]
  BY <1>1 DEF FeedsInv, FeedsTypes, JobTypes
<1>8. /\ feed[f].there /\ w = monday.period /\ There' = There /\ job'[m] = next
      /\ Complete(Result(m))
  BY <1>1, <1>2, <1>3, <1>5, <1>6, <1>7 DEF There, CompleteFacts
<1>9. /\ next.at \notin Building \cup {"queued", "writing"}
      /\ "next" \in Busy /\ (next.at \in Busy => next.at = "next")
  BY <1>3 DEF Building, Busy
<1> HIDE DEF todo, f, w
<1>10. PICK d \in Content : d = Result(m)
  BY <1>2
<1>11. Stored(f, w, d)
  BY <1>2, <1>8, <1>10 DEF Stored
<1>12. /\ digest'[f][w] # <<>> /\ digest'[f][w][1] = d
       /\ \A g \in Feeds, v \in Periods : g # f \/ v # w => digest'[g][v] = digest[g][v]
  BY <1>2, <1>7, <1>11, StoredIs
<1>13. MondayFacts'
  <2>1. next.at \in Busy => \A i \in DOMAIN next.todo : next.todo[i].id \in There
    BY <1>3, <1>5, <1>6, <1>9
  <2> QED
    BY <1>1, <1>2, <1>4, <1>6, <1>8, <1>9, <2>1 DEF MondayFacts, PeriodOf
<1>14. ServedFacts'
  <2>1. ASSUME NEW g \in monday.feeds \cap There
        PROVE  (next.at \in Busy /\ Builds(m, g)') \/ digest'[g][monday.period] # <<>>
    <3>1. g \in Feeds
      BY DEF There
    <3>2. CASE g = f \/ digest[g][monday.period] # <<>>
      BY <1>2, <1>8, <1>12, <3>1, <3>2
    <3>3. CASE g # f /\ Builds(m, g)
      <4>1. PICK i \in DOMAIN todo : todo[i].id = g
        BY <3>3 DEF Builds, todo
      <4>2. i # 1
        BY <3>3, <4>1 DEF f
      <4>3. PICK k : k = i - 1
        OBVIOUS
      <4>4. k \in 1..(Len(todo) - 1) /\ k + 1 = i
        BY <1>5, <4>1, <4>2, <4>3
      <4>5. k \in DOMAIN Tail(todo) /\ Tail(todo)[k].id = g
        BY <1>5, <4>1, <4>4
      <4>6. Tail(todo) # <<>>
        <5>1. DOMAIN << >> = {}
          OBVIOUS
        <5> QED
          BY <4>5, <5>1
      <4>7. next.at = "next" /\ next.todo = Tail(todo)
        BY <1>3, <1>8, <4>6
      <4>8. k \in DOMAIN job'[m].todo /\ job'[m].todo[k].id = g
        BY <1>8, <4>5, <4>7
      <4>9. Builds(m, g)'
        BY <4>8 DEF Builds
      <4> QED
        BY <1>9, <4>7, <4>9
    <3>4. Builds(m, g) \/ digest[g][monday.period] # <<>>
      BY <1>1 DEF ServedFacts
    <3> QED
      BY <3>2, <3>3, <3>4
  <2> QED
    BY <1>2, <1>8, <2>1 DEF ServedFacts
<1>15. CompleteFacts'
  <2>1. Complete(d)'
    BY <1>2, <1>8, <1>10, CompleteStays
  <2>2. ASSUME NEW g \in Feeds, NEW v \in Periods, digest'[g][v] # <<>>, digest'[g][v][1].by = m
        PROVE  v <= monday.period /\ (v = monday.period => Complete(digest[g][v][1])')
    <3>1. CASE g = f /\ v = w
      <4>1. v = monday.period /\ v <= v
        BY <1>8, <3>1, FeedsAssumption DEF Periods
      <4> QED
        BY <1>12, <2>1, <3>1, <4>1
    <3>2. CASE g # f \/ v # w
      <4>1. digest'[g][v] = digest[g][v]
        BY <1>12, <3>2
      <4>2. v <= monday.period /\ (v = monday.period => Complete(digest[g][v][1]))
        BY <1>1, <2>2, <4>1 DEF CompleteFacts
      <4>3. PICK e : e = digest[g][v][1]
        OBVIOUS
      <4>4. Complete(e) => Complete(e)'
        BY <1>2, CompleteStays
      <4>5. digest'[g][v][1] = e
        BY <4>1, <4>3
      <4> QED
        BY <4>2, <4>3, <4>4, <4>5
    <3> QED
      BY <3>1, <3>2
  <2> QED
    BY <1>2, <1>8, <1>9, <2>2 DEF CompleteFacts
<1> QED
  BY <1>13, <1>14, <1>15 DEF WeekFacts

LEMMA StoreDigestKeeps ==
  ASSUME WeekInv, NEW j \in Jobs, StoreDigest(j)
  PROVE  WeekInv'
<1>1. FeedsInv /\ FeedsInv' /\ SoundFacts'
  BY StoreDigestTypes, StoreSound DEF WeekInv
<1>2. happened' = happened
  BY <1>1, StoreDigestIs
<1>3. ASSUME happened' = {} PROVE WeekFacts'
  <2>1. CASE j = "weekly"
    BY <1>2, <1>3, <2>1, StoreWeeklyKeeps
  <2>2. CASE j # "weekly"
    BY <1>2, <1>3, <2>2, StoreAskedKeeps
  <2> QED
    BY <2>1, <2>2
<1> QED
  BY <1>1, <1>3 DEF WeekInv

LEMMA FeedsStands ==
  ASSUME WeekInv, UNCHANGED feedsVars
  PROVE  WeekInv'
<1>1. FeedsInv /\ SoundFacts /\ FeedsInv' /\ (happened = {} => WeekFacts)
  BY FeedsStutter DEF WeekInv
<1>2. /\ now' = now /\ paper' = paper /\ feed' = feed /\ digest' = digest /\ job' = job /\ monday' = monday
      /\ happened' = happened
  BY DEF feedsVars
<1>3. There' = There
  BY <1>2 DEF There
<1>4. ASSUME NEW j \in Jobs, job'[j].at = "writing" PROVE Sound(Result(j))'
  BY <1>1, <1>2, <1>4, SoundResult
<1> QED
  BY <1>1, <1>2, <1>3, <1>4, StillMonday, OthersKeep

LEMMA FeedsStepKeeps ==
  ASSUME WeekInv, [FeedsNext]_feedsVars
  PROVE  WeekInv'
<1>1. CASE Tick
  BY <1>1, TickKeeps
<1>2. ASSUME NEW p \in Preprints, Nightly(p) PROVE WeekInv'
  BY <1>2, NightlyKeeps
<1>3. ASSUME NEW f \in Feeds, UpdateFeed(f) \/ DeleteFeed(f) \/ RunDigest(f) PROVE WeekInv'
  BY <1>3, UpdateFeedKeeps, DeleteFeedKeeps, RunDigestKeeps
<1>4. ASSUME NEW j \in Jobs, JobStart(j) \/ BuildStart(j) \/ EmbedQuery(j) PROVE WeekInv'
  BY <1>4, JobStartKeeps, BuildStartKeeps, EmbedQueryKeeps
<1>5. ASSUME NEW j \in Jobs, SearchPapers(j) \/ StoreDigest(j) \/ JobCut(j) PROVE WeekInv'
  BY <1>5, SearchKeeps, StoreDigestKeeps, JobCutKeeps
<1>6. CASE UNCHANGED feedsVars
  BY <1>6, FeedsStands
<1> QED
  BY <1>1, <1>2, <1>3, <1>4, <1>5, <1>6 DEF FeedsNext, Nightly

\* The weekly job may be late, cut or short of a feed; what is said of the other cases holds.
LEMMA WeekStands ==
  ASSUME WeekInv
  PROVE  WeekIsServed
<1>1. FeedsInv /\ SoundFacts /\ (happened = {} => WeekFacts)
  BY DEF WeekInv
<1>2. ASSUME happened = {}, job["weekly"].at = "idle", NEW f \in monday.feeds \cap There
      PROVE  /\ digest[f][monday.period] # <<>>
             /\ Sound(digest[f][monday.period][1])
             /\ digest[f][monday.period][1].by = "weekly" => Complete(digest[f][monday.period][1])
  <2>1. f \in Feeds /\ monday.period \in Periods
    BY <1>1 DEF There, FeedsInv, FeedsTypes, Monday
  <2>2. job["weekly"].at \notin Busy
    BY <1>2 DEF Busy, Building
  <2>3. digest[f][monday.period] # <<>>
    BY <1>1, <1>2, <2>2 DEF WeekFacts, ServedFacts
  <2>4. Sound(digest[f][monday.period][1])
    BY <1>1, <2>1, <2>3 DEF SoundFacts
  <2>5. digest[f][monday.period][1].by = "weekly" => Complete(digest[f][monday.period][1])
    BY <1>1, <1>2, <2>1, <2>3 DEF WeekFacts, CompleteFacts
  <2> QED
    BY <2>3, <2>4, <2>5
<1> QED
  BY <1>2 DEF WeekIsServed, Sound, Complete

LEMMA EmbeddingStands ==
  ASSUME FeedsInv
  PROVE  EmbeddingIsOfQuery
<1>1. FeedsTypes /\ JobFacts /\ GoneFacts /\ QueryFacts
  BY DEF FeedsInv
<1>2. now \in 0..MaxTick /\ calls \in 0..MaxCalls /\ PaperTypes /\ FeedTypes
  BY <1>1 DEF FeedsTypes
<1>3. \A f \in Feeds : feed[f].text \in Queries /\ feed[f].emb \in Queries \cup {NoText}
  BY <1>2 DEF FeedTypes
<1>4. \A j \in Jobs : job[j].at \in {"next", "embedding", "searching", "writing"} => job[j].todo # <<>>
  BY <1>1 DEF JobFacts, Busy, Building
<1>5. FeedsTypeOK
  BY <1>1, <1>2, <1>3, <1>4 DEF FeedsTypeOK, PaperTypes, Table, GoneFacts
<1> QED
  BY <1>1, <1>5 DEF EmbeddingIsOfQuery, QueryFacts

(***************************************************************************)
(* FeedsInv and WeekInv are inductive: whatever the API, the papers and    *)
(* the two jobs do, the worker's rows are of feeds, an embedding that is   *)
(* being computed is of the query its feed has, and, until a fault, what   *)
(* the weekly job has still to build and what it has built are together    *)
(* all the feeds that it found.                                            *)
(***************************************************************************)
THEOREM FeedsAreInductive == FeedsSpec => [](FeedsInv /\ WeekInv)
<1>1. FeedsInit => WeekInv
  BY FeedsStart
<1>2. WeekInv /\ [FeedsNext]_feedsVars => WeekInv'
  BY FeedsStepKeeps
<1>3. WeekInv => FeedsInv
  BY DEF WeekInv
<1> QED
  BY <1>1, <1>2, <1>3, PTL DEF FeedsSpec

(***************************************************************************)
(* ensure_query_embedding and update_feed, in any number of builds and     *)
(* changes: but for a feed that was changed while a build was embedding    *)
(* it, the stored vector is of the text that the feed has.                 *)
(***************************************************************************)
THEOREM EmbeddingsAreOfTheirQuery == FeedsSpec => []EmbeddingIsOfQuery
<1>1. FeedsInv => EmbeddingIsOfQuery
  BY EmbeddingStands
<1> QED
  BY <1>1, FeedsAreInductive, PTL

(***************************************************************************)
(* digest_job: a Monday's job without a fault has built a digest for every *)
(* feed that it found and that is still there, and of digest_days unless   *)
(* the API has asked for another number since; every digest lists papers   *)
(* of its own window once each, best first, above the floor, and the       *)
(* weekly one leaves out no paper that had to be scored, and whose text    *)
(* stayed as it was while the job ran, unless it is full of better ones.   *)
(***************************************************************************)
THEOREM EveryFeedIsServed == FeedsSpec => []WeekIsServed
<1>1. WeekInv => WeekIsServed
  BY WeekStands
<1> QED
  BY <1>1, FeedsAreInductive, PTL
=============================================================================
