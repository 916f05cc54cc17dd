------------------------- MODULE ReviewFormatProofs -------------------------
(* What the raw diff parser and the canonical file list of ReviewFormat do    *)
(* for inputs of any length.  Induction is done by the least number of a set. *)
EXTENDS MCReviewPipeline, SequenceTheorems, FunctionTheorems, FiniteSetTheorems, TLAPS

-----------------------------------------------------------------------------
(* Numbers and sequences *)

(* The intervals 1..n are ordered by inclusion as their ends are by <=.       *)
LEMMA LeastNat ==
  ASSUME NEW X, X \subseteq Nat, X # {}
  PROVE  \E m \in X : \A n \in X : m <= n
<1> DEFINE T == {1..n : n \in X}
<1>1. T \subseteq FiniteSubsetsOf(Nat)
  <2> SUFFICES ASSUME NEW n \in X PROVE 1..n \in FiniteSubsetsOf(Nat)
    OBVIOUS
  <2>1. IsFiniteSet(1..n)
    BY FS_Interval
  <2> QED BY <2>1 DEF FiniteSubsetsOf
<1>2. T # {}
  OBVIOUS
<1>3. PICK I \in T : \A J \in T : <<J, I>> \notin StrictSubsetOrdering(Nat)
  <2> HIDE DEF T
  <2> QED BY <1>1, <1>2, FS_StrictSubsetOrderingWellFounded, WFMin
<1>4. PICK m \in X : I = 1..m
  OBVIOUS
<1>5. ASSUME NEW n \in X, n < m PROVE FALSE
  <2>1. 1..n \subseteq 1..m /\ m \in 1..m /\ m \notin 1..n
    BY <1>5
  <2>2. 1..n \in SUBSET Nat /\ 1..m \in SUBSET Nat
    BY <1>5
  <2>3. <<1..n, 1..m>> \in StrictSubsetOrdering(Nat)
    BY <2>1, <2>2 DEF StrictSubsetOrdering
  <2> QED BY <1>3, <1>4, <2>3
<1> QED BY <1>4, <1>5

(* Steps(seqs, m, f): f appends the first m of seqs one after the other.      *)
Step(seqs, f, i) == IF i = 1 THEN seqs[i] ELSE f[i - 1] \o seqs[i]
Steps(seqs, m, f) == f = [i \in 1..m |-> Step(seqs, f, i)]

LEMMA StepsValues ==
  ASSUME NEW seqs, NEW m \in Nat, NEW f, Steps(seqs, m, f)
  PROVE  \A i \in 1..m : f[i] = Step(seqs, f, i)
<1>1. f = [j \in 1..m |-> Step(seqs, f, j)]
  BY Zenon DEF Steps
<1>2. \A i \in 1..m : [j \in 1..m |-> Step(seqs, f, j)][i] = Step(seqs, f, i)
  OBVIOUS
<1> QED BY <1>1, <1>2, Zenon

LEMMA StepsExist ==
  ASSUME NEW S, NEW seqs, NEW n \in Nat, \A i \in 1..n : seqs[i] \in Seq(S)
  PROVE  \A m \in 1..n : \E f \in [1..m -> Seq(S)] : Steps(seqs, m, f)
<1> DEFINE X == {m \in 1..n : ~ \E f \in [1..m -> Seq(S)] : Steps(seqs, m, f)}
<1> SUFFICES ASSUME X # {} PROVE FALSE
  BY Zenon
<1>1. X \subseteq Nat
  OBVIOUS
<1>2. PICK k \in X : \A j \in X : k <= j
  <2> HIDE DEF X
  <2> QED BY <1>1, LeastNat
<1>3. k \in 1..n /\ ~ \E f \in [1..k -> Seq(S)] : Steps(seqs, k, f)
  OBVIOUS
<1>4. CASE k = 1
  <2> DEFINE g == [i \in 1..1 |-> seqs[1]]
  <2>1. g \in [1..1 -> Seq(S)]
    BY <1>3, <1>4
  <2>2. Steps(seqs, 1, g)
    BY DEF Steps, Step
  <2> QED BY <1>3, <1>4, <2>1, <2>2
<1>5. CASE k > 1
  <2>1. k - 1 \in 1..n /\ k - 1 \notin X
    BY <1>2, <1>3, <1>5
  <2>2. PICK f \in [1..(k - 1) -> Seq(S)] : Steps(seqs, k - 1, f)
    BY <2>1
  <2> HIDE DEF X
  <2> DEFINE last == f[k - 1] \o seqs[k]
             g == [i \in 1..k |-> IF i = k THEN last ELSE f[i]]
  <2>3. last \in Seq(S)
    <3>1. k - 1 \in 1..(k - 1) /\ seqs[k] \in Seq(S)
      BY <1>3, <2>1
    <3>2. f[k - 1] \in Seq(S)
      BY <3>1
    <3> QED BY <3>1, <3>2, ConcatProperties
  <2>4. g \in [1..k -> Seq(S)]
    <3> HIDE DEF last
    <3> QED BY <1>3, <2>1, <2>3
  <2>5. ASSUME NEW i \in 1..k PROVE g[i] = Step(seqs, g, i)
    <3> HIDE DEF last
    <3>1. CASE i = k
      <4>1. g[i] = last /\ i \in Nat /\ i # 1 /\ i - 1 \in 1..k /\ i - 1 # k
        BY <1>3, <1>5, <3>1
      <4>2. g[i - 1] = f[i - 1]
        BY <4>1
      <4> QED BY <3>1, <4>1, <4>2 DEF last, Step
    <3>2. CASE i # k
      <4>1. i \in 1..(k - 1) /\ g[i] = f[i]
        BY <1>3, <3>2
      <4>2. f[i] = Step(seqs, f, i)
        <5>1. k - 1 \in Nat
          BY <1>3
        <5> QED BY <2>2, <4>1, <5>1, StepsValues, Zenon
      <4>3. i # 1 => g[i - 1] = f[i - 1]
        BY <1>3, <4>1
      <4> HIDE DEF g
      <4> QED BY <4>1, <4>2, <4>3 DEF Step
    <3> QED BY <3>1, <3>2
  <2>6. g = [i \in 1..k |-> Step(seqs, g, i)]
    <3>1. g = [i \in 1..k |-> g[i]]
      OBVIOUS
    <3> HIDE DEF g
    <3> QED BY <2>5, <3>1
  <2>7. Steps(seqs, k, g)
    BY <2>6 DEF Steps
  <2> HIDE DEF g
  <2> QED BY <1>3, <2>4, <2>7
<1> QED BY <1>3, <1>4, <1>5

LEMMA StepsUnique ==
  ASSUME NEW seqs, NEW n \in Nat, NEW f, NEW g, Steps(seqs, n, f), Steps(seqs, n, g)
  PROVE  f = g
<1> DEFINE X == {k \in 1..n : f[k] # g[k]}
<1>1. X = {}
  <2> SUFFICES ASSUME X # {} PROVE FALSE
    OBVIOUS
  <2>1. X \subseteq Nat
    OBVIOUS
  <2>2. PICK k \in X : \A j \in X : k <= j
    <3> HIDE DEF X
    <3> QED BY <2>1, LeastNat
  <2>3. k \in 1..n /\ f[k] # g[k]
    OBVIOUS
  <2>4. k # 1 => f[k - 1] = g[k - 1]
    <3> SUFFICES ASSUME k # 1 PROVE k - 1 \notin X /\ k - 1 \in 1..n
      OBVIOUS
    <3>1. k - 1 < k
      BY <2>3
    <3> QED BY <2>2, <2>3, <3>1
  <2> HIDE DEF X
  <2>5. f[k] = Step(seqs, f, k) /\ g[k] = Step(seqs, g, k)
    BY <2>3, StepsValues, Zenon
  <2> QED BY <2>3, <2>4, <2>5 DEF Step
<1>2. f = [k \in 1..n |-> f[k]] /\ g = [k \in 1..n |-> g[k]]
  BY Zenon DEF Steps
<1> QED BY <1>1, <1>2

(* FlattenSeq appends one sequence after the other.                           *)
LEMMA FlattenSteps ==
  ASSUME NEW S, NEW seqs \in Seq(Seq(S)), seqs # <<>>
  PROVE  \E f \in [1..Len(seqs) -> Seq(S)] :
           /\ f[1] = seqs[1]
           /\ \A i \in 2..Len(seqs) : f[i] = f[i - 1] \o seqs[i]
           /\ FlattenSeq(seqs) = f[Len(seqs)]
<1>1. Len(seqs) \in Nat \ {0}
  BY EmptySeq, Zenon
<1>2. \A i \in 1..Len(seqs) : seqs[i] \in Seq(S)
  BY ElementOfSeq, Zenon
<1>3. PICK f \in [1..Len(seqs) -> Seq(S)] : Steps(seqs, Len(seqs), f)
  <2>1. \A m \in 1..Len(seqs) : \E f \in [1..m -> Seq(S)] : Steps(seqs, m, f)
    BY <1>1, <1>2, StepsExist, Zenon
  <2>2. Len(seqs) \in 1..Len(seqs)
    BY <1>1
  <2> QED BY <2>1, <2>2, Zenon
<1>4. FlattenSeq(seqs) = (CHOOSE g : Steps(seqs, Len(seqs), g))[Len(seqs)]
  BY <1>1 DEF FlattenSeq, Steps, Step
<1>5. f = CHOOSE g : Steps(seqs, Len(seqs), g)
  BY <1>1, <1>3, StepsUnique
<1>6. \A i \in 1..Len(seqs) : f[i] = Step(seqs, f, i)
  BY <1>1, <1>3, StepsValues, Zenon
<1>7. f[1] = seqs[1]
  <2>1. 1 \in 1..Len(seqs) /\ Step(seqs, f, 1) = seqs[1]
    BY <1>1 DEF Step
  <2> QED BY <1>6, <2>1, Zenon
<1>8. ASSUME NEW i \in 2..Len(seqs) PROVE f[i] = f[i - 1] \o seqs[i]
  <2>1. i \in 1..Len(seqs) /\ i # 1
    BY <1>1
  <2>2. Step(seqs, f, i) = f[i - 1] \o seqs[i]
    BY <2>1, Zenon DEF Step
  <2> QED BY <1>6, <2>1, <2>2, Zenon
<1> QED BY <1>4, <1>5, <1>7, <1>8

-----------------------------------------------------------------------------
(* The fields of a raw diff *)

(* A strictly growing sequence of offsets cuts 1..e[n] into intervals.        *)
LEMMA OffsetsGrow ==
  ASSUME NEW n \in Nat, NEW e \in [0..n -> Nat], \A k \in 1..n : e[k - 1] < e[k]
  PROVE  \A k \in 0..n : \A j \in 0..n : j < k => e[j] < e[k]
<1> DEFINE X == {k \in 0..n : \E j \in 0..n : j < k /\ ~ e[j] < e[k]}
<1> SUFFICES ASSUME X # {} PROVE FALSE
  OBVIOUS
<1>1. X \subseteq Nat
  OBVIOUS
<1>2. PICK k \in X : \A i \in X : k <= i
  <2> HIDE DEF X
  <2> QED BY <1>1, LeastNat
<1>3. PICK j \in 0..n : j < k /\ ~ e[j] < e[k]
  OBVIOUS
<1>4. k \in 1..n /\ k - 1 \in 0..n /\ k - 1 \notin X
  BY <1>2, <1>3
<1>5. j < k - 1 => e[j] < e[k - 1]
  BY <1>3, <1>4
<1>6. e[k - 1] < e[k] /\ e[k] \in Nat /\ e[k - 1] \in Nat /\ e[j] \in Nat
  BY <1>3, <1>4
<1> HIDE DEF X
<1>7. j = k - 1 => e[j] = e[k - 1]
  OBVIOUS
<1>8. j = k - 1 \/ j < k - 1
  BY <1>3, <1>4
<1> QED BY <1>3, <1>5, <1>6, <1>7, <1>8

LEMMA OffsetsCover ==
  ASSUME NEW n \in Nat, NEW e \in [0..n -> Nat], e[0] = 0, NEW i \in 1..e[n]
  PROVE  \E k \in 1..n : e[k - 1] < i /\ i <= e[k]
<1> DEFINE X == {k \in 0..n : i <= e[k]}
<1>1. X \subseteq Nat /\ n \in X
  OBVIOUS
<1>2. PICK k \in X : \A j \in X : k <= j
  <2> HIDE DEF X
  <2> QED BY <1>1, LeastNat
<1>3. k \in 1..n /\ k - 1 \in 0..n /\ k - 1 \notin X
  BY <1>2
<1>4. e[k - 1] \in Nat
  BY <1>3
<1> QED BY <1>3, <1>4

(* Cuts(raw, fields, e): the k-th field and its NUL end at offset e[k].       *)
Cuts(raw, fields, e) ==
  /\ Len(fields) \in Nat
  /\ e \in [0..Len(fields) -> Nat]
  /\ e[0] = 0
  /\ e[Len(fields)] = Len(raw)
  /\ \A k \in 1..Len(fields) :
       /\ Len(fields[k]) \in Nat
       /\ e[k] = e[k - 1] + Len(fields[k]) + 1
       /\ raw[e[k]] = Nul
       /\ \A i \in 1..Len(fields[k]) : raw[e[k - 1] + i] = fields[k][i]

NoNulls(fields) == \A k \in 1..Len(fields) : \A i \in 1..Len(fields[k]) : fields[k][i] # Nul

Before(raw, i) == {j \in Nulls(raw) : j <= i}

LEMMA CutsGrow ==
  ASSUME NEW raw, NEW fields, NEW e, Cuts(raw, fields, e)
  PROVE  \A k \in 0..Len(fields) : \A j \in 0..Len(fields) : j < k => e[j] < e[k]
<1>1. Len(fields) \in Nat /\ e \in [0..Len(fields) -> Nat]
  BY Zenon DEF Cuts
<1>2. ASSUME NEW k \in 1..Len(fields) PROVE e[k - 1] < e[k]
  <2>1. Len(fields[k]) \in Nat /\ e[k] = e[k - 1] + Len(fields[k]) + 1
    BY Zenon DEF Cuts
  <2>2. e[k - 1] \in Nat
    BY <1>1
  <2> QED BY <2>1, <2>2
<1> QED BY <1>1, <1>2, OffsetsGrow, Zenon

(* The NULs of raw are where the fields end.                                  *)
LEMMA NullsOfCuts ==
  ASSUME NEW raw \in Seq(Nat), NEW fields, NEW e, Cuts(raw, fields, e), NoNulls(fields)
  PROVE  Nulls(raw) = {e[k] : k \in 1..Len(fields)}
<1> DEFINE n == Len(fields)
<1>1. n \in Nat /\ e \in [0..n -> Nat] /\ e[0] = 0 /\ e[n] = Len(raw)
  BY Zenon DEF Cuts
<1>2. DOMAIN raw = 1..Len(raw)
  OBVIOUS
<1>3. ASSUME NEW k \in 1..n PROVE e[k] \in Nulls(raw)
  <2>1. raw[e[k]] = Nul
    BY Zenon DEF Cuts
  <2>2. \A i \in 0..n : \A j \in 0..n : j < i => e[j] < e[i]
    BY CutsGrow, Zenon
  <2>3. 0 < e[k] /\ e[k] <= e[n] /\ e[k] \in Nat
    <3> HIDE DEF n
    <3> QED BY <1>1, <2>2
  <2> QED BY <1>1, <1>2, <2>1, <2>3 DEF Nulls
<1>4. ASSUME NEW i \in Nulls(raw) PROVE \E k \in 1..n : i = e[k]
  <2>1. i \in 1..e[n] /\ raw[i] = Nul
    BY <1>1, <1>2 DEF Nulls
  <2>2. PICK k \in 1..n : e[k - 1] < i /\ i <= e[k]
    <3> HIDE DEF n
    <3> QED BY <1>1, <2>1, OffsetsCover
  <2>3. /\ Len(fields[k]) \in Nat
        /\ e[k] = e[k - 1] + Len(fields[k]) + 1
        /\ \A j \in 1..Len(fields[k]) : raw[e[k - 1] + j] = fields[k][j]
        /\ \A j \in 1..Len(fields[k]) : fields[k][j] # Nul
    BY Zenon DEF Cuts, NoNulls
  <2>4. e[k] \in Nat /\ e[k - 1] \in Nat /\ i \in Nat
    <3> HIDE DEF n
    <3> QED BY <1>1, <2>1
  <2>5. CASE i # e[k]
    <3> DEFINE j == i - e[k - 1]
    <3>1. j \in 1..Len(fields[k]) /\ i = e[k - 1] + j
      BY <2>2, <2>3, <2>4, <2>5
    <3> HIDE DEF j
    <3> QED BY <2>1, <2>3, <3>1
  <2> QED BY <2>5
<1> QED BY <1>3, <1>4, Zenon

(* What the count of NULs up to an offset says: it grows at every NUL, so     *)
(* that no two NULs have the same.                                            *)
LEMMA BeforeCounts ==
  ASSUME NEW raw \in Seq(Nat)
  PROVE  /\ IsFiniteSet(Nulls(raw)) /\ Cardinality(Nulls(raw)) \in Nat
         /\ \A i \in Nat : IsFiniteSet(Before(raw, i)) /\ Cardinality(Before(raw, i)) \in Nat
         /\ \A i \in Nat : \A j \in Nulls(raw) :
              i < j => Cardinality(Before(raw, i)) < Cardinality(Before(raw, j))
<1>1. IsFiniteSet(Nulls(raw))
  <2>1. Nulls(raw) \in SUBSET (1..Len(raw)) /\ Len(raw) \in Int
    BY DEF Nulls
  <2>2. IsFiniteSet(1..Len(raw))
    BY <2>1, FS_Interval
  <2> QED BY <2>1, <2>2, FS_Subset
<1>2. ASSUME NEW i \in Nat
      PROVE  IsFiniteSet(Before(raw, i)) /\ Cardinality(Before(raw, i)) \in Nat
  <2>1. Before(raw, i) \in SUBSET Nulls(raw)
    BY Zenon DEF Before
  <2> QED BY <1>1, <2>1, FS_Subset, FS_CardinalityType
<1>3. ASSUME NEW i \in Nat, NEW j \in Nulls(raw), i < j
      PROVE  Cardinality(Before(raw, i)) < Cardinality(Before(raw, j))
  <2>1. Nulls(raw) \subseteq Nat
    BY DEF Nulls
  <2>2. Before(raw, i) \in SUBSET Before(raw, j) /\ j \in Before(raw, j) \ Before(raw, i)
    BY <1>3, <2>1 DEF Before
  <2>3. Cardinality(Before(raw, i)) <= Cardinality(Before(raw, j))
        /\ Cardinality(Before(raw, i)) # Cardinality(Before(raw, j))
    BY <1>2, <2>1, <2>2, FS_Subset
  <2> QED BY <1>2, <2>1, <2>3
<1>4. Cardinality(Nulls(raw)) \in Nat
  BY <1>1, FS_CardinalityType
<1> QED BY <1>1, <1>2, <1>3, <1>4

(* The only NUL with k NULs up to it is the k-th.                             *)
LEMMA NullAtUnique ==
  ASSUME NEW raw \in Seq(Nat), NEW k, NEW i \in Nulls(raw), Cardinality(Before(raw, i)) = k
  PROVE  NullAt(raw, k) = i
<1>1. Nulls(raw) \subseteq Nat
  BY DEF Nulls
<1>2. ASSUME NEW j \in Nulls(raw), Cardinality(Before(raw, j)) = k PROVE i = j
  <2>1. i \in Nat /\ j \in Nat /\ k \in Nat
    BY <1>1, BeforeCounts
  <2>2. i < j => Cardinality(Before(raw, i)) < Cardinality(Before(raw, j))
    BY <2>1, BeforeCounts
  <2>3. j < i => Cardinality(Before(raw, j)) < Cardinality(Before(raw, i))
    BY <2>1, BeforeCounts
  <2> QED BY <1>2, <2>1, <2>2, <2>3
<1> QED BY <1>2 DEF NullAt, Before

(* So the fields' ends are the NULs in turn.                                  *)
LEMMA NullAtCuts ==
  ASSUME NEW raw \in Seq(Nat), NEW fields, NEW e, Cuts(raw, fields, e), NoNulls(fields)
  PROVE  /\ Cardinality(Nulls(raw)) = Len(fields)
         /\ \A k \in 1..Len(fields) : NullAt(raw, k) = e[k]
<1> DEFINE n == Len(fields)
<1>1. n \in Nat /\ e \in [0..n -> Nat]
  BY Zenon DEF Cuts
<1>2. \A k \in 0..n : \A j \in 0..n : j < k => e[j] < e[k]
  BY CutsGrow, Zenon
<1>3. Nulls(raw) = {e[k] : k \in 1..Len(fields)}
  BY NullsOfCuts
<1>4. ASSUME NEW k \in 0..n
      PROVE  Cardinality({e[j] : j \in 1..k}) = k
  <2> DEFINE g == [j \in 1..k |-> e[j]]
             image == {e[j] : j \in 1..k}
  <2> HIDE DEF n
  <2>1. g \in [1..k -> image] /\ \A t \in image : \E j \in 1..k : g[j] = t
    BY <1>1
  <2>2. \A i, j \in 1..k : g[i] = g[j] => i = j
    <3> SUFFICES ASSUME NEW i \in 1..k, NEW j \in 1..k, e[i] = e[j] PROVE i = j
      OBVIOUS
    <3>1. i \in 0..n /\ j \in 0..n /\ e[i] \in Nat /\ e[j] \in Nat
      BY <1>1
    <3>2. ~(i < j) /\ ~(j < i)
      BY <1>2, <3>1
    <3> QED BY <3>1, <3>2
  <2> HIDE DEF g, image
  <2>3. g \in Bijection(1..k, image)
    BY <2>1, <2>2, Fun_IsBij
  <2>4. ExistsBijection(1..k, image)
    BY <2>3, Fun_ExistsBij
  <2>5. k \in Nat
    BY <1>1
  <2> QED BY <2>4, <2>5, FS_CountingElements DEF image
<1>5. ASSUME NEW k \in 1..n PROVE NullAt(raw, k) = e[k]
  <2>1. e[k] \in Nulls(raw)
    BY <1>3, Zenon
  <2>2. Before(raw, e[k]) = {e[j] : j \in 1..k}
    <3>1. ASSUME NEW j \in 1..n PROVE e[j] <= e[k] <=> j <= k
      <4> HIDE DEF n
      <4>1. j \in 0..n /\ k \in 0..n /\ e[j] \in Nat /\ e[k] \in Nat
        BY <1>1
      <4>2. (j < k => e[j] < e[k]) /\ (k < j => e[k] < e[j])
        BY <1>2, <4>1
      <4> QED BY <4>1, <4>2
    <3>2. \A j \in 1..k : j \in 1..n /\ j <= k
      BY <1>1
    <3>3. \A j \in 1..n : j <= k => j \in 1..k
      BY <1>1
    <3> QED BY <1>3, <3>1, <3>2, <3>3, Zenon DEF Before
  <2>3. k \in 0..n
    BY <1>1
  <2>4. Cardinality(Before(raw, e[k])) = k
    BY <1>4, <2>2, <2>3, Zenon
  <2> QED BY <2>1, <2>4, NullAtUnique, Zenon
<1>6. Cardinality(Nulls(raw)) = n
  <2>1. n \in 0..n
    BY <1>1
  <2> QED BY <1>3, <1>4, <2>1, Zenon
<1> QED BY <1>5, <1>6

(* There is a k-th NUL for every k up to their number.                        *)
LEMMA NullAtExists ==
  ASSUME NEW raw \in Seq(Nat), NEW k \in 1..Cardinality(Nulls(raw))
  PROVE  NullAt(raw, k) \in Nulls(raw) /\ Cardinality(Before(raw, NullAt(raw, k))) = k
<1> DEFINE C(i) == Cardinality(Before(raw, i))
           X == {i \in Nat : k <= C(i)}
<1>1. Len(raw) \in Nat /\ Nulls(raw) \subseteq 1..Len(raw)
  BY DEF Nulls
<1>2. k \in Nat /\ k >= 1 /\ \A i \in Nat : C(i) \in Nat
  BY BeforeCounts
<1>3. Before(raw, Len(raw)) = Nulls(raw)
  BY <1>1 DEF Before
<1>4. Len(raw) \in X
  <2>1. k <= C(Len(raw))
    BY <1>3, BeforeCounts
  <2> QED BY <1>1, <2>1, Zenon
<1>5. PICK i \in X : \A j \in X : i <= j
  <2>1. X \subseteq Nat
    OBVIOUS
  <2> HIDE DEF X
  <2> QED BY <1>4, <2>1, LeastNat
<1>6. i \in Nat /\ k <= C(i)
  OBVIOUS
<1>7. i # 0
  <2>1. Before(raw, 0) = {}
    BY <1>1 DEF Before
  <2>2. C(0) = 0
    BY <2>1, FS_EmptySet, Zenon
  <2> QED BY <1>2, <1>6, <2>2
<1>8. i - 1 \in Nat /\ C(i - 1) \in Nat /\ ~(k <= C(i - 1))
  <2>1. i - 1 \in Nat /\ ~(i <= i - 1)
    BY <1>6, <1>7
  <2>2. i - 1 \notin X
    BY <1>5, <2>1, Zenon
  <2> QED BY <1>2, <2>1, <2>2, Zenon
<1>9. i \in Nulls(raw)
  <2> SUFFICES ASSUME i \notin Nulls(raw) PROVE FALSE
    OBVIOUS
  <2>1. Before(raw, i) = Before(raw, i - 1)
    BY <1>1, <1>6 DEF Before
  <2> QED BY <1>6, <1>8, <2>1
<1>10. C(i) = C(i - 1) + 1
  <2>1. Before(raw, i) = Before(raw, i - 1) \cup {i} /\ i \notin Before(raw, i - 1)
    BY <1>1, <1>6, <1>9 DEF Before
  <2>2. IsFiniteSet(Before(raw, i - 1))
    BY <1>8, BeforeCounts
  <2> QED BY <2>1, <2>2, FS_AddElement
<1>11. C(i) = k
  <2> HIDE DEF C
  <2> QED BY <1>2, <1>6, <1>8, <1>10
<1> QED BY <1>9, <1>11, NullAtUnique

LEMMA CutIsSubSeq ==
  ASSUME NEW S, NEW field \in Seq(S), NEW raw, NEW p \in Nat, NEW q \in Nat,
         q = p + Len(field) + 1, \A i \in 1..Len(field) : raw[p + i] = field[i]
  PROVE  SubSeq(raw, p + 1, q - 1) = field
<1> DEFINE m == p + 1
           l == q - 1
           t == SubSeq(raw, m, l)
<1>1. Len(field) \in Nat /\ \A i \in 1..Len(field) : field[i] \in S
  BY ElementOfSeq, LenProperties
<1>2. m \in Int /\ l \in Int /\ l - m + 1 = Len(field)
  BY <1>1
<1>3. ASSUME NEW i \in m..l PROVE raw[i] \in S
  <2> DEFINE j == i - p
  <2>1. j \in 1..Len(field) /\ i = p + j
    BY <1>1
  <2> HIDE DEF j
  <2> QED BY <1>1, <2>1
<1>4. /\ t \in Seq(S)
      /\ Len(t) = IF m <= l THEN l - m + 1 ELSE 0
      /\ \A i \in 1..(l - m + 1) : t[i] = raw[m + i - 1]
  <2> HIDE DEF m, l
  <2> QED BY <1>2, <1>3, SubSeqProperties
<1>5. Len(t) = Len(field)
  <2> HIDE DEF t, m, l
  <2> QED BY <1>1, <1>2, <1>4
<1>6. ASSUME NEW i \in 1..Len(t) PROVE t[i] = field[i]
  <2>1. i \in 1..Len(field) /\ i \in 1..(l - m + 1)
    <3> HIDE DEF t, m, l
    <3> QED BY <1>2, <1>5
  <2>2. t[i] = raw[m + i - 1]
    BY <1>4, <2>1, Zenon
  <2>3. m + i - 1 = p + i
    <3> HIDE DEF t
    <3> QED BY <1>1, <2>1
  <2>4. raw[p + i] = field[i]
    BY <2>1, Zenon
  <2> HIDE DEF t, m, l
  <2> QED BY <2>2, <2>3, <2>4
<1>7. t = field
  <2> HIDE DEF t
  <2> QED BY <1>4, <1>5, <1>6, SeqEqual
<1> QED BY <1>7

(* The parser splits at the cuts.                                             *)
LEMMA SplitOfCuts ==
  ASSUME NEW raw \in Seq(Nat), NEW fields \in Seq(Seq(Nat)), NEW e,
         Cuts(raw, fields, e), NoNulls(fields)
  PROVE  SplitNull(raw) = fields
<1> DEFINE n == Len(fields)
           start(k) == IF k = 1 THEN 1 ELSE NullAt(raw, k - 1) + 1
<1>1. n \in Nat /\ e \in [0..n -> Nat] /\ e[0] = 0
  BY Zenon DEF Cuts
<1>2. Cardinality(Nulls(raw)) = n /\ \A k \in 1..n : NullAt(raw, k) = e[k]
  BY NullAtCuts, Zenon
<1>3. ASSUME NEW k \in 1..n PROVE SubSeq(raw, start(k), NullAt(raw, k) - 1) = fields[k]
  <2>1. start(k) = e[k - 1] + 1
    <3>1. k = 1 => e[k - 1] = 0
      BY <1>1
    <3>2. k # 1 => k - 1 \in 1..n
      BY <1>1
    <3>3. k # 1 => NullAt(raw, k - 1) = e[k - 1]
      BY <1>2, <3>2, Zenon
    <3> QED BY <3>1, <3>3
  <2>2. /\ Len(fields[k]) \in Nat
        /\ e[k] = e[k - 1] + Len(fields[k]) + 1
        /\ \A i \in 1..Len(fields[k]) : raw[e[k - 1] + i] = fields[k][i]
    BY Zenon DEF Cuts
  <2>3. e[k - 1] \in Nat /\ e[k] \in Nat
    <3> HIDE DEF n
    <3> QED BY <1>1
  <2>4. fields[k] \in Seq(Nat)
    BY ElementOfSeq, Zenon
  <2>5. SubSeq(raw, e[k - 1] + 1, e[k] - 1) = fields[k]
    <3> HIDE DEF n
    <3> QED BY <2>2, <2>3, <2>4, CutIsSubSeq
  <2>6. NullAt(raw, k) - 1 = e[k] - 1
    BY <1>2
  <2> HIDE DEF start
  <2> QED BY <2>1, <2>5, <2>6
<1>4. SplitNull(raw) = [k \in 1..n |-> SubSeq(raw, start(k), NullAt(raw, k) - 1)]
  BY <1>2 DEF SplitNull
<1>5. fields = [k \in 1..n |-> fields[k]]
  BY LenProperties
<1> HIDE DEF start
<1> QED BY <1>3, <1>4, <1>5

(* Conversely, what the parser splits is cut by its fields.                   *)
Ends(raw) ==
  [k \in 0..Cardinality(Nulls(raw)) |-> IF k = 0 THEN 0 ELSE NullAt(raw, k)]

LEMMA EndsBound ==
  ASSUME NEW raw \in Seq(Nat)
  PROVE  /\ Cardinality(Nulls(raw)) \in Nat
         /\ Ends(raw) \in [0..Cardinality(Nulls(raw)) -> Nat]
         /\ Ends(raw)[0] = 0
         /\ \A k \in 1..Cardinality(Nulls(raw)) :
              /\ Ends(raw)[k] \in 1..Len(raw)
              /\ raw[Ends(raw)[k]] = Nul
              /\ Ends(raw)[k - 1] < Ends(raw)[k]
              /\ \A i \in 1..Len(raw) :
                   Ends(raw)[k - 1] < i /\ i < Ends(raw)[k] => raw[i] # Nul
<1> DEFINE n == Cardinality(Nulls(raw))
           e == Ends(raw)
           C(i) == Cardinality(Before(raw, i))
<1>1. n \in Nat /\ Len(raw) \in Nat /\ Nulls(raw) = {i \in 1..Len(raw) : raw[i] = Nul}
  <2>1. n \in Nat
    BY BeforeCounts, Zenon
  <2>2. Len(raw) \in Nat /\ DOMAIN raw = 1..Len(raw)
    BY LenProperties, Zenon
  <2> QED BY <2>1, <2>2, Zenon DEF Nulls
<1>2. \A k \in 1..n : NullAt(raw, k) \in Nulls(raw) /\ C(NullAt(raw, k)) = k
  BY NullAtExists
<1>3. e[0] = 0
  BY <1>1 DEF Ends
<1>4. ASSUME NEW k \in 1..n
      PROVE  e[k] \in Nulls(raw) /\ e[k] \in 1..Len(raw) /\ raw[e[k]] = Nul /\ C(e[k]) = k
  <2>1. e[k] = NullAt(raw, k)
    BY <1>1 DEF Ends
  <2> HIDE DEF e, C
  <2> QED BY <1>1, <1>2, <2>1
<1>5. e \in [0..n -> Nat]
  <2> SUFFICES ASSUME NEW k \in 0..n PROVE e[k] \in Nat
    BY DEF Ends
  <2>1. k # 0 => k \in 1..n
    BY <1>1
  <2> HIDE DEF e, n
  <2> QED BY <1>3, <1>4, <2>1
<1>6. C(0) = 0
  <2>1. Before(raw, 0) = {}
    BY <1>1 DEF Before
  <2> QED BY <2>1, FS_EmptySet, Zenon
<1>7. ASSUME NEW k \in 1..n
      PROVE  C(e[k - 1]) = k - 1 /\ e[k - 1] \in Nat
  <2>1. k - 1 \in 0..n /\ (k - 1 # 0 => k - 1 \in 1..n)
    BY <1>1
  <2> HIDE DEF e, n, C
  <2> QED BY <1>3, <1>4, <1>5, <1>6, <2>1
<1>8. \A i \in Nat : \A j \in Nulls(raw) : i < j => C(i) < C(j)
  BY BeforeCounts
<1>9. ASSUME NEW k \in 1..n PROVE e[k - 1] < e[k]
  <2>1. k - 1 = 0 => e[k - 1] = 0
    BY <1>3
  <2>2. k - 1 # 0 => k - 1 \in 1..n
    BY <1>1
  <2>3. k - 1 # 0 => e[k - 1] \in Nulls(raw)
    BY <1>4, <2>2, Zenon
  <2>4. k - 1 \in Nat /\ k \in Nat
    BY <1>1
  <2> HIDE DEF e, n, C
  <2>5. e[k] \in 1..Len(raw) /\ e[k - 1] \in Nat /\ C(e[k]) = k /\ C(e[k - 1]) = k - 1
    BY <1>4, <1>7
  <2>6. CASE k - 1 # 0
    <3>1. e[k] < e[k - 1] => C(e[k]) < C(e[k - 1])
      BY <1>8, <2>3, <2>5, <2>6
    <3>2. e[k] # e[k - 1]
      BY <2>4, <2>5
    <3> QED BY <2>4, <2>5, <3>1, <3>2
  <2>7. CASE k - 1 = 0
    BY <2>1, <2>5, <2>7
  <2> QED BY <2>6, <2>7
<1>10. ASSUME NEW k \in 1..n, NEW i \in 1..Len(raw), e[k - 1] < i, i < e[k], raw[i] = Nul
       PROVE  FALSE
  <2>1. i \in Nulls(raw) /\ i \in Nat /\ k \in Nat
    BY <1>1, <1>10
  <2>2. C(e[k - 1]) < C(i) /\ C(i) < C(e[k]) /\ C(i) \in Nat
    <3>1. C(i) \in Nat
      BY <2>1, BeforeCounts
    <3> HIDE DEF e, n, C
    <3> QED BY <1>4, <1>7, <1>8, <1>10, <2>1, <3>1
  <2> HIDE DEF e, n, C
  <2> QED BY <1>4, <1>7, <2>1, <2>2
<1> HIDE DEF C
<1> QED BY <1>1, <1>3, <1>4, <1>5, <1>9, <1>10, Zenon

LEMMA CutsOfSplit ==
  ASSUME NEW raw \in Seq(Byte \cup {Nul}), NulTerminated(raw)
  PROVE  /\ Cuts(raw, SplitNull(raw), Ends(raw))
         /\ NoNulls(SplitNull(raw))
         /\ SplitNull(raw) \in Seq(Seq(Byte))
<1> DEFINE n == Cardinality(Nulls(raw))
           e == Ends(raw)
           F == SplitNull(raw)
<1>1. raw \in Seq(Nat) /\ Len(raw) \in Nat /\ \A i \in 1..Len(raw) : raw[i] \in Byte \cup {Nul}
  <2>1. Byte \cup {Nul} \subseteq Nat
    BY FormatAssumption DEF Nul
  <2> QED BY <2>1, SeqMonotonic, ElementOfSeq, LenProperties
<1>2. /\ n \in Nat /\ e \in [0..n -> Nat] /\ e[0] = 0
      /\ \A k \in 1..n :
           /\ e[k] \in 1..Len(raw)
           /\ raw[e[k]] = Nul
           /\ e[k - 1] < e[k]
           /\ \A i \in 1..Len(raw) : e[k - 1] < i /\ i < e[k] => raw[i] # Nul
  BY <1>1, EndsBound, Zenon
<1>3. e[n] = Len(raw)
  <2>1. CASE raw = <<>>
    <3>1. Nulls(raw) = {}
      BY <2>1 DEF Nulls
    <3>2. n = 0
      BY <3>1, FS_EmptySet, Zenon
    <3>3. Len(raw) = 0
      BY <2>1
    <3> HIDE DEF e, n
    <3> QED BY <1>2, <3>2, <3>3
  <2>2. CASE raw # <<>>
    <3>1. Len(raw) \in Nulls(raw)
      <4>1. Len(raw) \in 1..Len(raw) /\ DOMAIN raw = 1..Len(raw)
        BY <1>1, <2>2, EmptySeq
      <4>2. raw[Len(raw)] = Nul
        BY <2>2 DEF NulTerminated, Last
      <4> QED BY <4>1, <4>2, Zenon DEF Nulls
    <3>2. Before(raw, Len(raw)) = Nulls(raw)
      BY <1>1 DEF Nulls, Before
    <3>3. NullAt(raw, n) = Len(raw)
      BY <1>1, <3>1, <3>2, NullAtUnique
    <3>4. n # 0
      <4>1. IsFiniteSet(Nulls(raw))
        BY <1>1, BeforeCounts
      <4> QED BY <3>1, <4>1, FS_EmptySet
    <3>5. e[n] = NullAt(raw, n)
      BY <1>2, <3>4 DEF Ends
    <3> QED BY <3>3, <3>5
  <2> QED BY <2>1, <2>2
<1>4. F = [k \in 1..n |-> SubSeq(raw, e[k - 1] + 1, e[k] - 1)]
  <2> DEFINE start(k) == IF k = 1 THEN 1 ELSE NullAt(raw, k - 1) + 1
  <2>1. F = [k \in 1..n |-> SubSeq(raw, start(k), NullAt(raw, k) - 1)]
    BY DEF SplitNull
  <2>2. ASSUME NEW k \in 1..n PROVE start(k) = e[k - 1] + 1 /\ NullAt(raw, k) = e[k]
    <3>1. e[k] = NullAt(raw, k)
      BY <1>2 DEF Ends
    <3>2. k # 1 => e[k - 1] = NullAt(raw, k - 1)
      BY <1>2 DEF Ends
    <3> HIDE DEF e, n
    <3>3. k = 1 => e[k - 1] = 0
      BY <1>2
    <3> QED BY <3>1, <3>2, <3>3
  <2> HIDE DEF start, e, n
  <2> QED BY <2>1, <2>2
<1>5. ASSUME NEW k \in 1..n
      PROVE  /\ F[k] = SubSeq(raw, e[k - 1] + 1, e[k] - 1)
             /\ F[k] \in Seq(Byte)
             /\ Len(F[k]) \in Nat
             /\ e[k] = e[k - 1] + Len(F[k]) + 1
             /\ \A i \in 1..Len(F[k]) : raw[e[k - 1] + i] = F[k][i]
             /\ \A i \in 1..Len(F[k]) : F[k][i] # Nul
  <2> DEFINE p == e[k - 1]
             q == e[k]
             t == SubSeq(raw, p + 1, q - 1)
  <2> HIDE DEF n, e, F
  <2>1. F[k] = t
    BY <1>4
  <2>2. p \in Nat /\ q \in 1..Len(raw) /\ p < q
        /\ \A i \in 1..Len(raw) : p < i /\ i < q => raw[i] # Nul
    BY <1>2
  <2>3. \A i \in (p + 1)..(q - 1) : raw[i] \in Byte
    <3> HIDE DEF p, q
    <3> QED BY <1>1, <2>2
  <2>4. /\ t \in Seq(Byte)
        /\ Len(t) = IF p + 1 <= q - 1 THEN q - 1 - (p + 1) + 1 ELSE 0
        /\ \A i \in 1..(q - 1 - (p + 1) + 1) : t[i] = raw[p + 1 + i - 1]
    <3>1. p + 1 \in Int /\ q - 1 \in Int
      <4> HIDE DEF p, q
      <4> QED BY <1>1, <2>2
    <3> HIDE DEF p, q
    <3> QED BY <2>3, <3>1, SubSeqProperties
  <2> HIDE DEF t, p, q
  <2>5. Len(t) = q - p - 1 /\ Len(t) \in Nat /\ q = p + Len(t) + 1
    BY <1>1, <2>2, <2>4
  <2>6. ASSUME NEW i \in 1..Len(t) PROVE t[i] = raw[p + i] /\ t[i] # Nul
    <3>1. i \in 1..(q - 1 - (p + 1) + 1) /\ p + 1 + i - 1 = p + i
      BY <1>1, <2>2, <2>5
    <3>2. t[i] = raw[p + 1 + i - 1]
      BY <2>4, <3>1, Zenon
    <3>4. t[i] = raw[p + i]
      BY <3>1, <3>2, Zenon
    <3>3. p + i \in 1..Len(raw) /\ p < p + i /\ p + i < q
      BY <1>1, <2>2, <2>5
    <3> QED BY <2>2, <3>3, <3>4, Zenon
  <2> QED BY <2>1, <2>4, <2>5, <2>6 DEF p, q, t
<1>6. DOMAIN F = 1..n /\ Len(F) = n /\ F \in Seq(Seq(Byte))
  <2> HIDE DEF e, n
  <2>1. F = [k \in 1..n |-> F[k]] /\ \A k \in 1..n : F[k] \in Seq(Byte)
    BY <1>4, <1>5
  <2> HIDE DEF F
  <2>2. F \in [1..n -> Seq(Byte)]
    BY <2>1
  <2> QED BY <1>2, <2>2
<1>7. Cuts(raw, F, e)
  <2> HIDE DEF F, e, n
  <2> QED BY <1>2, <1>3, <1>5, <1>6, Zenon DEF Cuts
<1>8. NoNulls(F)
  <2> HIDE DEF F, e, n
  <2> QED BY <1>5, <1>6, Zenon DEF NoNulls
<1> QED BY <1>6, <1>7, <1>8

-----------------------------------------------------------------------------
(* What git prints *)

(* In the concatenation of seqs, the m-th of them follows offset b[m - 1].    *)
Blocks(seqs, b) ==
  /\ b \in [0..Len(seqs) -> Nat]
  /\ b[0] = 0
  /\ b[Len(seqs)] = Len(FlattenSeq(seqs))
  /\ \A m \in 1..Len(seqs) :
       /\ b[m] = b[m - 1] + Len(seqs[m])
       /\ \A i \in 1..Len(seqs[m]) : FlattenSeq(seqs)[b[m - 1] + i] = seqs[m][i]

LEMMA ConcatValues ==
  ASSUME NEW S, NEW s \in Seq(S), NEW t \in Seq(S)
  PROVE  /\ s \o t \in Seq(S) /\ Len(s) \in Nat /\ Len(t) \in Nat
         /\ Len(s \o t) = Len(s) + Len(t)
         /\ \A i \in 1..Len(s) : (s \o t)[i] = s[i]
         /\ \A i \in 1..Len(t) : (s \o t)[Len(s) + i] = t[i]
OBVIOUS

LEMMA FlattenBlocks ==
  ASSUME NEW S, NEW seqs \in Seq(Seq(S)), seqs # <<>>
  PROVE  FlattenSeq(seqs) \in Seq(S) /\ \E b : Blocks(seqs, b)
<1> DEFINE n == Len(seqs)
<1>1. n \in Nat \ {0}
  BY EmptySeq, Zenon
<1>2. PICK f \in [1..n -> Seq(S)] :
        /\ f[1] = seqs[1]
        /\ \A i \in 2..n : f[i] = f[i - 1] \o seqs[i]
        /\ FlattenSeq(seqs) = f[n]
  BY FlattenSteps, Zenon
<1>3. \A m \in 1..n : seqs[m] \in Seq(S) /\ Len(seqs[m]) \in Nat
  BY ElementOfSeq, LenProperties, Zenon
<1>4. \A m \in 1..n : f[m] \in Seq(S) /\ Len(f[m]) \in Nat
  <2>1. \A m \in 1..n : f[m] \in Seq(S)
    OBVIOUS
  <2> QED BY <2>1, LenProperties, Zenon
<1> DEFINE b == [m \in 0..n |-> IF m = 0 THEN 0 ELSE Len(f[m])]
<1>5. b \in [0..n -> Nat] /\ b[0] = 0
  <2> SUFFICES ASSUME NEW m \in 0..n PROVE m # 0 => Len(f[m]) \in Nat
    BY <1>1
  <2>1. m # 0 => m \in 1..n
    BY <1>1
  <2> QED BY <1>4, <2>1, Zenon
<1>6. \A m \in 1..n : b[m] = Len(f[m])
  BY <1>1
<1>7. ASSUME NEW m \in 1..n
      PROVE  /\ b[m] = b[m - 1] + Len(seqs[m])
             /\ \A i \in 1..Len(seqs[m]) : f[m][b[m - 1] + i] = seqs[m][i]
  <2>1. CASE m = 1
    <3>1. f[m] = seqs[m] /\ b[m - 1] = 0 /\ b[m] = Len(f[m]) /\ Len(seqs[m]) \in Nat
      <4> HIDE DEF b
      <4> QED BY <1>2, <1>3, <1>5, <1>6, <2>1
    <3> HIDE DEF b
    <3> QED BY <3>1
  <2>2. CASE m # 1
    <3>1. m - 1 \in 1..n /\ m \in 2..n
      BY <1>1, <2>2
    <3>2. b[m] = Len(f[m]) /\ b[m - 1] = Len(f[m - 1]) /\ f[m] = f[m - 1] \o seqs[m]
      <4> HIDE DEF b
      <4> QED BY <1>2, <1>6, <3>1, Zenon
    <3>3. f[m - 1] \in Seq(S) /\ seqs[m] \in Seq(S)
      BY <1>3, <1>4, <3>1, Zenon
    <3>4. /\ Len(f[m - 1] \o seqs[m]) = Len(f[m - 1]) + Len(seqs[m])
          /\ \A i \in 1..Len(seqs[m]) : (f[m - 1] \o seqs[m])[Len(f[m - 1]) + i] = seqs[m][i]
      <4> DEFINE s == f[m - 1]
                 t == seqs[m]
      <4>1. s \in Seq(S) /\ t \in Seq(S)
        BY <3>3, Zenon
      <4> HIDE DEF s, t
      <4>2. Len(s \o t) = Len(s) + Len(t) /\ \A i \in 1..Len(t) : (s \o t)[Len(s) + i] = t[i]
        BY <4>1, ConcatValues
      <4> QED BY <4>2 DEF s, t
    <3> HIDE DEF b
    <3> QED BY <3>2, <3>4, Zenon
  <2> QED BY <2>1, <2>2
<1>8. ASSUME NEW m \in 2..n, NEW i \in 1..Len(f[m - 1])
      PROVE  f[m][i] = f[m - 1][i]
  <2>1. m \in 1..n /\ m - 1 \in 1..n
    BY <1>1
  <2>2. f[m] = f[m - 1] \o seqs[m] /\ f[m - 1] \in Seq(S) /\ seqs[m] \in Seq(S)
    BY <1>2, <1>3, <1>4, <2>1, Zenon
  <2> DEFINE s == f[m - 1]
             t == seqs[m]
  <2>3. s \in Seq(S) /\ t \in Seq(S) /\ i \in 1..Len(s)
    BY <2>2, Zenon
  <2> HIDE DEF s, t
  <2>4. (s \o t)[i] = s[i]
    BY <2>3, ConcatValues
  <2> QED BY <2>2, <2>4 DEF s, t
<1>9. ASSUME NEW m \in 1..n
      PROVE  \A k \in m..n : b[m] <= b[k] /\ \A i \in 1..b[m] : f[k][i] = f[m][i]
  <2> DEFINE Good(k) == b[m] <= b[k] /\ \A i \in 1..b[m] : f[k][i] = f[m][i]
             X == {k \in m..n : ~Good(k)}
  <2> SUFFICES ASSUME X # {} PROVE FALSE
    OBVIOUS
  <2>1. X \subseteq Nat
    BY <1>1
  <2>2. PICK k \in X : \A j \in X : k <= j
    <3> HIDE DEF X
    <3> QED BY <2>1, LeastNat
  <2>3. k \in m..n /\ ~Good(k)
    OBVIOUS
  <2> HIDE DEF X, b
  <2>4. k # m
    <3>1. Good(m)
      <4>1. m \in 0..n
        BY <1>1
      <4>2. b[m] \in Nat
        BY <1>5, <4>1
      <4> QED BY <4>2
    <3> HIDE DEF Good
    <3> QED BY <2>3, <3>1
  <2>5. k - 1 \in m..n /\ k \in 2..n /\ k - 1 \in 1..n /\ k \in 1..n /\ ~(k <= k - 1)
    BY <1>1, <2>3, <2>4
  <2>6. Good(k - 1)
    <3> HIDE DEF Good
    <3> QED BY <2>2, <2>5, Zenon DEF X
  <2>7. b[k - 1] = Len(f[k - 1]) /\ b[k] = b[k - 1] + Len(seqs[k]) /\ Len(seqs[k]) \in Nat
    BY <1>3, <1>6, <1>7, <2>5, Zenon
  <2>8. b[k - 1] \in Nat /\ b[m] \in Nat /\ b[k] \in Nat
    <3>1. k - 1 \in 0..n /\ k \in 0..n /\ m \in 0..n
      BY <1>1, <2>5
    <3> QED BY <1>5, <3>1
  <2>9. b[m] <= b[k]
    <3> DEFINE x == b[m]
               y == b[k - 1]
               z == b[k]
               l == Len(seqs[k])
    <3>1. x \in Nat /\ y \in Nat /\ l \in Nat /\ x <= y /\ z = y + l
      BY <2>6, <2>7, <2>8, Zenon
    <3> HIDE DEF x, y, z, l
    <3>2. x <= z
      BY <3>1
    <3> QED BY <3>2 DEF x, z
  <2>10. ASSUME NEW i \in 1..b[m] PROVE f[k][i] = f[m][i]
    <3>1. i \in 1..Len(f[k - 1])
      BY <2>6, <2>7, <2>8
    <3>2. f[k][i] = f[k - 1][i]
      BY <1>8, <2>5, <3>1, Zenon
    <3>3. f[k - 1][i] = f[m][i]
      BY <2>6, Zenon
    <3> QED BY <3>2, <3>3, Zenon
  <2> QED BY <2>3, <2>9, <2>10, Zenon
<1>10. ASSUME NEW m \in 1..n, NEW i \in 1..Len(seqs[m])
       PROVE  FlattenSeq(seqs)[b[m - 1] + i] = seqs[m][i]
  <2> HIDE DEF b
  <2>1. b[m] = b[m - 1] + Len(seqs[m]) /\ f[m][b[m - 1] + i] = seqs[m][i]
    BY <1>7, Zenon
  <2>2. b[m - 1] \in Nat /\ Len(seqs[m]) \in Nat
    <3>1. m - 1 \in 0..n
      BY <1>1
    <3>2. b[m - 1] \in Nat
      BY <1>5, <3>1
    <3> QED BY <1>3, <3>2, Zenon
  <2>3. b[m - 1] + i \in 1..b[m]
    BY <2>1, <2>2
  <2>4. n \in m..n
    BY <1>1
  <2> QED BY <1>2, <1>9, <2>1, <2>3, <2>4, Zenon
<1>11. n \in 1..n
  BY <1>1
<1>12. FlattenSeq(seqs) \in Seq(S) /\ b[n] = Len(FlattenSeq(seqs))
  <2> HIDE DEF b
  <2> QED BY <1>2, <1>4, <1>6, <1>11, Zenon
<1>13. Blocks(seqs, b)
  <2> HIDE DEF b
  <2> QED BY <1>5, <1>7, <1>10, <1>12, Zenon DEF Blocks
<1> QED BY <1>12, <1>13

-----------------------------------------------------------------------------
(* Exact framing *)

(* The changes git may print: any header, any path that is not empty.         *)
Changes == [header : Header, pathBase64 : {Encode(p) : p \in Seq(Byte) \ {<<>>}}]

(* What is printed of one change.                                             *)
Record(file) == file.header \o <<Nul>> \o Decode(file.pathBase64) \o <<Nul>>
Records(files) == [k \in DOMAIN files |-> Record(files[k])]

LEMMA HeaderBytes ==
  ASSUME NEW h \in Header
  PROVE  h \in Seq(Byte) /\ h # <<>> /\ Ascii(h) = h
<1> DEFINE S == {b \in Byte : b < 128}
<1>1. S \subseteq Byte /\ \A b \in S : b \in Nat /\ b % 128 = b
  BY FormatAssumption
<1>2. h \in Seq(S) /\ h # <<>>
  BY FormatAssumption
<1> HIDE DEF S
<1>3. h \in Seq(Byte)
  BY <1>1, <1>2, SeqMonotonic
<1>4. \A i \in 1..Len(h) : h[i] \in S
  BY <1>2, ElementOfSeq, Zenon
<1>5. DOMAIN h = 1..Len(h) /\ h = [i \in 1..Len(h) |-> h[i]]
  BY <1>2, LenProperties
<1>6. \A i \in 1..Len(h) : h[i] % 128 = h[i]
  BY <1>1, <1>4, Zenon
<1>7. Ascii(h) = h
  BY <1>5, <1>6, Zenon DEF Ascii
<1> QED BY <1>2, <1>3, <1>7

LEMMA ChangeFields ==
  ASSUME NEW file \in Changes
  PROVE  /\ file.header \in Header /\ file.header \in Seq(Byte)
         /\ Decode(file.pathBase64) \in Seq(Byte) \ {<<>>}
         /\ file.pathBase64 = Encode(Decode(file.pathBase64))
         /\ file = [header |-> file.header, pathBase64 |-> file.pathBase64]
<1>1. file.header \in Header /\ file.pathBase64 \in {Encode(p) : p \in Seq(Byte) \ {<<>>}}
  BY DEF Changes
<1>2. PICK p \in Seq(Byte) \ {<<>>} : file.pathBase64 = Encode(p)
  BY <1>1
<1>3. Decode(Encode(p)) = p
  BY DEF Encode, Decode
<1>4. file = [header |-> file.header, pathBase64 |-> file.pathBase64]
  BY DEF Changes
<1> QED BY <1>1, <1>2, <1>3, <1>4, HeaderBytes

LEMMA AppendValues ==
  ASSUME NEW S, NEW s \in Seq(S), NEW z \in S
  PROVE  /\ s \o <<z>> \in Seq(S) /\ Len(s) \in Nat
         /\ Len(s \o <<z>>) = Len(s) + 1
         /\ \A i \in 1..Len(s) : (s \o <<z>>)[i] = s[i]
         /\ (s \o <<z>>)[Len(s) + 1] = z
OBVIOUS

Joined(t, h, p) == t = h \o <<Nul>> \o p \o <<Nul>>

LEMMA RecordValues ==
  ASSUME NEW h \in Seq(Byte), NEW p \in Seq(Byte), NEW t, Joined(t, h, p)
  PROVE  /\ t \in Seq(Byte \cup {Nul})
         /\ Len(h) \in Nat /\ Len(p) \in Nat
         /\ Len(t) = Len(h) + Len(p) + 2
         /\ \A i \in 1..Len(h) : t[i] = h[i]
         /\ t[Len(h) + 1] = Nul
         /\ \A i \in 1..Len(p) : t[Len(h) + 1 + i] = p[i]
         /\ t[Len(h) + Len(p) + 2] = Nul
<1> DEFINE S == Byte \cup {Nul}
           u == h \o <<Nul>>
           v == u \o p
<1>1. h \in Seq(S) /\ p \in Seq(S) /\ Nul \in S
  BY SeqMonotonic
<1> HIDE DEF S
<1>2. /\ u \in Seq(S) /\ Len(h) \in Nat /\ Len(u) = Len(h) + 1
      /\ \A i \in 1..Len(h) : u[i] = h[i]
      /\ u[Len(h) + 1] = Nul
  BY <1>1, AppendValues
<1> HIDE DEF u
<1>3. /\ v \in Seq(S) /\ Len(p) \in Nat /\ Len(v) = Len(u) + Len(p)
      /\ \A i \in 1..Len(u) : v[i] = u[i]
      /\ \A i \in 1..Len(p) : v[Len(u) + i] = p[i]
  <2>1. u \in Seq(S) /\ p \in Seq(S)
    BY <1>1, <1>2, Zenon
  <2> QED BY <2>1, ConcatValues
<1> HIDE DEF v
<1>4. t = v \o <<Nul>>
  BY DEF Joined, u, v
<1>5. /\ t \in Seq(S) /\ Len(t) = Len(v) + 1
      /\ \A i \in 1..Len(v) : t[i] = v[i]
      /\ t[Len(v) + 1] = Nul
  <2>1. v \in Seq(S) /\ Nul \in S
    BY <1>1, <1>3, Zenon
  <2> DEFINE w == v \o <<Nul>>
  <2>2. /\ w \in Seq(S) /\ Len(w) = Len(v) + 1
        /\ \A i \in 1..Len(v) : w[i] = v[i]
        /\ w[Len(v) + 1] = Nul
    BY <2>1, AppendValues
  <2>3. t = w
    BY <1>4
  <2> HIDE DEF w
  <2> QED BY <2>2, <2>3, Zenon
<1> DEFINE x == Len(h)
           y == Len(p)
<1>6. Len(u) = x + 1 /\ Len(v) = x + y + 1 /\ Len(t) = x + y + 2 /\ x \in Nat /\ y \in Nat
  BY <1>2, <1>3, <1>5
<1> HIDE DEF x, y
<1>7. ASSUME NEW i \in 1..x PROVE t[i] = h[i]
  <2>1. i \in 1..Len(u) /\ i \in 1..Len(v)
    BY <1>6
  <2>2. t[i] = v[i] /\ v[i] = u[i] /\ u[i] = h[i]
    BY <1>2, <1>3, <1>5, <2>1, Zenon DEF x
  <2> QED BY <2>2
<1>8. t[x + 1] = Nul
  <2>1. x + 1 \in 1..Len(u) /\ x + 1 \in 1..Len(v)
    BY <1>6
  <2>2. t[x + 1] = v[x + 1] /\ v[x + 1] = u[x + 1] /\ u[x + 1] = Nul
    BY <1>2, <1>3, <1>5, <2>1, Zenon DEF x
  <2> QED BY <2>2
<1>9. ASSUME NEW i \in 1..y PROVE t[x + 1 + i] = p[i]
  <2>1. x + 1 + i \in 1..Len(v)
    BY <1>6
  <2>2. t[x + 1 + i] = v[x + 1 + i]
    BY <1>5, <2>1, Zenon
  <2>3. v[Len(u) + i] = p[i]
    BY <1>3, Zenon DEF y
  <2> QED BY <1>6, <2>2, <2>3
<1>10. t[x + y + 2] = Nul
  <2>1. Len(v) + 1 = x + y + 2
    BY <1>6
  <2> QED BY <1>5, <2>1, Zenon
<1>11. t \in Seq(Byte \cup {Nul})
  BY <1>5 DEF S
<1> QED BY <1>6, <1>7, <1>8, <1>9, <1>10, <1>11, Zenon DEF x, y

LEMMA Halves ==
  ASSUME NEW n \in Nat, NEW j \in 1..(2 * n)
  PROVE  \/ \E m \in 1..n : j = 2 * m - 1 /\ j % 2 = 1 /\ (j + 1) \div 2 = m
         \/ \E m \in 1..n : j = 2 * m /\ j % 2 = 0 /\ j \div 2 = m
<1>1. CASE j % 2 = 1
  <2>1. (j + 1) \div 2 \in 1..n /\ j = 2 * ((j + 1) \div 2) - 1
    BY <1>1
  <2> QED BY <1>1, <2>1
<1>2. CASE j % 2 = 0
  <2>1. j \div 2 \in 1..n /\ j = 2 * (j \div 2)
    BY <1>2
  <2> QED BY <1>2, <2>1
<1> QED BY <1>1, <1>2

(* The fields of what is printed: each change's header and path, in turn.     *)
Fields(files) ==
  [j \in 1..(2 * Len(files)) |->
     IF j % 2 = 1 THEN files[(j + 1) \div 2].header ELSE Decode(files[j \div 2].pathBase64)]

LEMMA FieldsValues ==
  ASSUME NEW files \in Seq(Changes)
  PROVE  /\ Len(files) \in Nat
         /\ Fields(files) \in Seq(Seq(Byte)) /\ Len(Fields(files)) = 2 * Len(files)
         /\ \A m \in 1..Len(files) :
              /\ files[m] \in Changes
              /\ Fields(files)[2 * m - 1] = files[m].header
              /\ Fields(files)[2 * m] = Decode(files[m].pathBase64)
<1> DEFINE n == Len(files)
<1>1. n \in Nat /\ \A m \in 1..n : files[m] \in Changes
  BY ElementOfSeq, LenProperties
<1>2. ASSUME NEW m \in 1..n
      PROVE  /\ files[m].header \in Seq(Byte) /\ Decode(files[m].pathBase64) \in Seq(Byte)
             /\ Fields(files)[2 * m - 1] = files[m].header
             /\ Fields(files)[2 * m] = Decode(files[m].pathBase64)
  <2>1. files[m].header \in Seq(Byte) /\ Decode(files[m].pathBase64) \in Seq(Byte)
    BY <1>1, ChangeFields
  <2> HIDE DEF n
  <2>2. /\ 2 * m - 1 \in 1..(2 * n) /\ 2 * m \in 1..(2 * n)
        /\ (2 * m - 1) % 2 = 1 /\ (2 * m) % 2 = 0
        /\ (2 * m - 1 + 1) \div 2 = m /\ (2 * m) \div 2 = m
    BY <1>1
  <2>3. Fields(files)[2 * m - 1] = files[m].header
    BY <2>2 DEF Fields, n
  <2>4. Fields(files)[2 * m] = Decode(files[m].pathBase64)
    BY <2>2 DEF Fields, n
  <2> QED BY <2>1, <2>3, <2>4
<1>3. Fields(files) \in [1..(2 * n) -> Seq(Byte)]
  <2> DEFINE G(j) == IF j % 2 = 1 THEN files[(j + 1) \div 2].header ELSE Decode(files[j \div 2].pathBase64)
  <2>1. ASSUME NEW j \in 1..(2 * n) PROVE G(j) \in Seq(Byte)
    <3>1. \/ \E m \in 1..n : j = 2 * m - 1 /\ j % 2 = 1 /\ (j + 1) \div 2 = m
          \/ \E m \in 1..n : j = 2 * m /\ j % 2 = 0 /\ j \div 2 = m
      BY <1>1, Halves, Zenon
    <3> QED BY <1>2, <3>1
  <2>2. Fields(files) = [j \in 1..(2 * n) |-> G(j)]
    BY DEF Fields
  <2> HIDE DEF G, n
  <2> QED BY <2>1, <2>2
<1>4. Fields(files) \in Seq(Seq(Byte)) /\ Len(Fields(files)) = 2 * n
  <2>1. 2 * n \in Nat
    BY <1>1
  <2> HIDE DEF n
  <2> QED BY <1>3, <2>1, SeqDef, LenProperties
<1> QED BY <1>1, <1>2, <1>4

(* field and its NUL stand in raw after offset p, and end at offset q.        *)
CutAt(raw, field, p, q) ==
  /\ Len(field) \in Nat
  /\ q = p + Len(field) + 1
  /\ raw[q] = Nul
  /\ \A i \in 1..Len(field) : raw[p + i] = field[i]

LEMMA RecordEnds ==
  ASSUME NEW x \in Nat, NEW y \in Nat, NEW l, l = x + y + 2, NEW o \in Nat
  PROVE  x + 1 \in 1..l /\ l \in 1..l /\ o + (x + 1) = o + x + 1
OBVIOUS

LEMMA TwoCuts ==
  ASSUME NEW raw, NEW h \in Seq(Byte), NEW p \in Seq(Byte), NEW o \in Nat,
         NEW t, Joined(t, h, p),
         \A i \in 1..Len(t) : raw[o + i] = t[i]
  PROVE  /\ CutAt(raw, h, o, o + Len(h) + 1)
         /\ CutAt(raw, p, o + Len(h) + 1, o + Len(t))
         /\ o + Len(h) + 1 \in Nat
<1> DEFINE x == Len(h)
           y == Len(p)
           l == Len(t)
<1>1. /\ x \in Nat /\ y \in Nat /\ l = x + y + 2
      /\ \A i \in 1..x : t[i] = h[i]
      /\ t[x + 1] = Nul
      /\ \A i \in 1..y : t[x + 1 + i] = p[i]
      /\ t[x + y + 2] = Nul
  <2> HIDE DEF CutAt
  <2> QED BY RecordValues
<1>2. \A i \in 1..l : raw[o + i] = t[i]
  OBVIOUS
<1> HIDE DEF x, y, l
<1>a. x \in Nat /\ y \in Nat /\ l = x + y + 2
  BY <1>1, Zenon
<1>3. raw[o + x + 1] = Nul /\ raw[o + l] = Nul
  <2>1. x + 1 \in 1..l /\ l \in 1..l /\ o + (x + 1) = o + x + 1
    BY <1>a, RecordEnds
  <2>2. raw[o + (x + 1)] = t[x + 1] /\ raw[o + l] = t[l]
    BY <1>2, <2>1, Zenon
  <2>3. t[l] = Nul
    BY <1>1, Zenon
  <2> QED BY <1>1, <2>1, <2>2, <2>3, Zenon
<1>4. ASSUME NEW i \in 1..x PROVE raw[o + i] = h[i]
  <2>1. i \in 1..l
    BY <1>1
  <2> QED BY <1>1, <1>2, <2>1, Zenon
<1>5. ASSUME NEW i \in 1..y PROVE raw[o + x + 1 + i] = p[i]
  <2>1. x + 1 + i \in 1..l /\ o + (x + 1 + i) = o + x + 1 + i
    BY <1>1
  <2>2. raw[o + (x + 1 + i)] = t[x + 1 + i]
    BY <1>2, <2>1, Zenon
  <2> QED BY <1>1, <2>1, <2>2, Zenon
<1>6. o + l = o + x + 1 + y + 1 /\ o + x + 1 \in Nat
  BY <1>1
<1>7. CutAt(raw, h, o, o + x + 1)
  BY <1>1, <1>3, <1>4, Zenon DEF CutAt, x
<1>8. CutAt(raw, p, o + x + 1, o + l)
  BY <1>1, <1>3, <1>5, <1>6, Zenon DEF CutAt, y
<1> QED BY <1>6, <1>7, <1>8, Zenon DEF x, l

(* What git prints is cut by the fields of its changes.                       *)
LEMMA CutsOfPrint ==
  ASSUME NEW files \in Seq(Changes)
  PROVE  /\ PrintRawDiff(files) \in Seq(Byte \cup {Nul})
         /\ \E e : Cuts(PrintRawDiff(files), Fields(files), e)
<1> DEFINE n == Len(files)
           S == Byte \cup {Nul}
           raw == PrintRawDiff(files)
           F == Fields(files)
<1>1. /\ n \in Nat /\ Len(F) = 2 * n
      /\ \A m \in 1..n :
           /\ files[m] \in Changes
           /\ F[2 * m - 1] = files[m].header
           /\ F[2 * m] = Decode(files[m].pathBase64)
  BY FieldsValues, Zenon
<1>2. CASE files = <<>>
  <2>1. raw = <<>>
    BY <1>2 DEF PrintRawDiff, FlattenSeq
  <2>2. Len(F) = 0
    BY <1>1, <1>2
  <2> DEFINE e == [j \in 0..0 |-> 0]
  <2>3. e \in [0..0 -> Nat] /\ e[0] = 0 /\ Len(raw) = 0 /\ raw \in Seq(S)
    BY <2>1
  <2> HIDE DEF e, raw, F
  <2>4. Cuts(raw, F, e)
    BY <2>2, <2>3 DEF Cuts
  <2> QED BY <2>3, <2>4 DEF raw, F
<1>3. CASE files # <<>>
  <2> DEFINE seqs == Records(files)
  <2>1. n \in Nat \ {0} /\ DOMAIN files = 1..n
    BY <1>3, EmptySeq, LenProperties
  <2>2. \A m \in 1..n : seqs[m] = Record(files[m])
    BY <2>1 DEF Records
  <2>3. ASSUME NEW m \in 1..n PROVE Record(files[m]) \in Seq(S)
    <3>1. files[m].header \in Seq(Byte) /\ Decode(files[m].pathBase64) \in Seq(Byte)
      BY <1>1, ChangeFields
    <3>2. Joined(Record(files[m]), files[m].header, Decode(files[m].pathBase64))
      BY DEF Record, Joined
    <3> QED BY <3>1, <3>2, RecordValues, Zenon
  <2>4. seqs \in [1..n -> Seq(S)]
    <3>1. seqs = [m \in 1..n |-> Record(files[m])]
      BY <2>1 DEF Records
    <3> HIDE DEF n, S, seqs
    <3> QED BY <2>3, <3>1
  <2> HIDE DEF n, seqs
  <2>5. seqs \in Seq(Seq(S)) /\ Len(seqs) = n /\ seqs # <<>>
    <3> HIDE DEF S
    <3>1. seqs \in Seq(Seq(S))
      BY <2>1, <2>4, SeqDef
    <3>2. Len(seqs) = n
      BY <2>1, <2>4, <3>1, LenProperties
    <3> QED BY <2>1, <3>1, <3>2, EmptySeq
  <2>6. raw = FlattenSeq(seqs)
    BY DEF PrintRawDiff, Records, Record, seqs
  <2>7. raw \in Seq(S)
    <3> HIDE DEF S, raw
    <3> QED BY <2>5, <2>6, FlattenBlocks
  <2>8. PICK b : Blocks(seqs, b)
    <3> HIDE DEF S, raw
    <3> QED BY <2>5, FlattenBlocks
  <2>9. /\ b \in [0..n -> Nat] /\ b[0] = 0 /\ b[n] = Len(raw)
        /\ \A m \in 1..n :
             /\ b[m] = b[m - 1] + Len(seqs[m])
             /\ \A i \in 1..Len(seqs[m]) : raw[b[m - 1] + i] = seqs[m][i]
    BY <2>5, <2>6, <2>8, Zenon DEF Blocks
  <2> DEFINE middle(m) == b[m - 1] + Len(files[m].header) + 1
             e == [j \in 0..(2 * n) |-> IF j % 2 = 0 THEN b[j \div 2] ELSE middle((j + 1) \div 2)]
  <2>10. \A m \in 0..n : 2 * m \in 0..(2 * n) /\ (2 * m) % 2 = 0 /\ (2 * m) \div 2 = m
    BY <2>1
  <2>11. \A m \in 1..n : /\ 2 * m - 1 \in 0..(2 * n)
                         /\ (2 * m - 1) % 2 # 0 /\ (2 * m - 1 + 1) \div 2 = m
    BY <2>1
  <2>12. \A m \in 0..n : e[2 * m] = b[m]
    <3> HIDE DEF middle
    <3> QED BY <2>10
  <2>13. \A m \in 1..n : e[2 * m - 1] = middle(m)
    <3> HIDE DEF middle
    <3> QED BY <2>11
  <2>14. ASSUME NEW m \in 1..n
         PROVE  /\ CutAt(raw, F[2 * m - 1], e[2 * m - 2], e[2 * m - 1])
                /\ CutAt(raw, F[2 * m], e[2 * m - 1], e[2 * m])
                /\ middle(m) \in Nat
    <3> DEFINE h == files[m].header
               p == Decode(files[m].pathBase64)
               t == Record(files[m])
               o == b[m - 1]
    <3>1. h \in Seq(Byte) /\ p \in Seq(Byte)
      BY <1>1, ChangeFields DEF n
    <3>2. Joined(t, h, p)
      BY DEF Record, Joined
    <3>3. o \in Nat
      <4>1. m - 1 \in 0..n
        BY <2>1
      <4> QED BY <2>9, <4>1
    <3>4. b[m] = o + Len(t) /\ \A i \in 1..Len(t) : raw[o + i] = t[i]
      BY <2>2, <2>9, Zenon DEF n
    <3>5. e[2 * m] = b[m] /\ e[2 * m - 1] = o + Len(h) + 1
      <4>1. m \in 0..n
        BY <2>1
      <4> HIDE DEF e
      <4> QED BY <2>12, <2>13, <4>1, Zenon
    <3>6. e[2 * m - 2] = o
      <4>1. m - 1 \in 0..n /\ 2 * (m - 1) = 2 * m - 2
        BY <2>1
      <4> HIDE DEF e
      <4> QED BY <2>12, <4>1
    <3>7. F[2 * m - 1] = h /\ F[2 * m] = p
      BY <1>1, Zenon DEF n
    <3> HIDE DEF h, p, t, o, raw, e, F
    <3>8. /\ CutAt(raw, h, o, o + Len(h) + 1)
          /\ CutAt(raw, p, o + Len(h) + 1, o + Len(t))
          /\ o + Len(h) + 1 \in Nat
      BY <3>1, <3>2, <3>3, <3>4, TwoCuts, Zenon
    <3>9. middle(m) \in Nat
      BY <3>8, Zenon DEF o, h
    <3> QED BY <3>4, <3>5, <3>6, <3>7, <3>8, <3>9, Zenon
  <2>15. e \in [0..(2 * n) -> Nat]
    <3> SUFFICES ASSUME NEW j \in 0..(2 * n)
                 PROVE  (IF j % 2 = 0 THEN b[j \div 2] ELSE middle((j + 1) \div 2)) \in Nat
      OBVIOUS
    <3> HIDE DEF middle
    <3>1. j = 0 => b[j \div 2] \in Nat
      BY <2>1, <2>9
    <3>2. CASE j # 0
      <4>1. j \in 1..(2 * n)
        BY <2>1, <3>2
      <4>2. \/ \E m \in 1..n : j = 2 * m - 1 /\ j % 2 = 1 /\ (j + 1) \div 2 = m
            \/ \E m \in 1..n : j = 2 * m /\ j % 2 = 0 /\ j \div 2 = m
        BY <2>1, <4>1, Halves, Zenon
      <4>3. \A m \in 1..n : b[m] \in Nat /\ middle(m) \in Nat
        <5> SUFFICES ASSUME NEW m \in 1..n PROVE b[m] \in Nat
          BY <2>14, Zenon
        <5>1. m \in 0..n
          BY <2>1
        <5> QED BY <2>9, <5>1
      <4>4. 1 # 0
        OBVIOUS
      <4> QED BY <4>2, <4>3, <4>4, Zenon
    <3>3. CASE j = 0
      <4>1. j % 2 = 0
        BY <3>3
      <4> QED BY <3>1, <3>3, <4>1
    <3> QED BY <3>2, <3>3
  <2>16. e[0] = 0 /\ e[2 * n] = Len(raw)
    <3>1. 0 \in 0..n /\ n \in 0..n /\ 2 * 0 = 0
      BY <2>1
    <3> HIDE DEF e
    <3> QED BY <2>9, <2>12, <3>1
  <2> HIDE DEF e, raw, F, middle
  <2>17. ASSUME NEW k \in 1..(2 * n) PROVE CutAt(raw, F[k], e[k - 1], e[k])
    <3>1. CASE \E m \in 1..n : k = 2 * m - 1
      <4>1. PICK m \in 1..n : k = 2 * m - 1
        BY <3>1
      <4>2. k - 1 = 2 * m - 2
        BY <4>1
      <4> QED BY <2>14, <4>1, <4>2
    <3>2. CASE \E m \in 1..n : k = 2 * m
      <4>1. PICK m \in 1..n : k = 2 * m
        BY <3>2
      <4> QED BY <2>14, <4>1
    <3>3. n \in Nat
      BY <2>1
    <3> QED BY <3>1, <3>2, <3>3, Halves, Zenon
  <2>18. Len(F) = 2 * n /\ 2 * n \in Nat
    BY <1>1, <2>1 DEF n
  <2>19. Cuts(raw, F, e)
    BY <2>15, <2>16, <2>17, <2>18, Zenon DEF Cuts, CutAt
  <2> QED BY <2>7, <2>19 DEF raw, F
<1> QED BY <1>2, <1>3

(* No two raw diffs are cut into the same fields.                             *)
LEMMA CutsUnique ==
  ASSUME NEW S, NEW raw \in Seq(S), NEW other \in Seq(S), NEW fields, NEW e, NEW d,
         Cuts(raw, fields, e), Cuts(other, fields, d)
  PROVE  raw = other
<1> DEFINE n == Len(fields)
<1>1. /\ n \in Nat
      /\ e \in [0..n -> Nat] /\ e[0] = 0 /\ e[n] = Len(raw)
      /\ d \in [0..n -> Nat] /\ d[0] = 0 /\ d[n] = Len(other)
      /\ \A k \in 1..n :
           /\ CutAt(raw, fields[k], e[k - 1], e[k])
           /\ CutAt(other, fields[k], d[k - 1], d[k])
  BY Zenon DEF Cuts, CutAt
<1> HIDE DEF n
<1>2. \A k \in 0..n : e[k] = d[k]
  <2> DEFINE X == {k \in 0..n : e[k] # d[k]}
  <2> SUFFICES ASSUME X # {} PROVE FALSE
    OBVIOUS
  <2>1. X \subseteq Nat
    BY <1>1
  <2>2. PICK k \in X : \A j \in X : k <= j
    <3> HIDE DEF X
    <3> QED BY <2>1, LeastNat
  <2>3. k \in 1..n /\ k - 1 \in 0..n /\ ~(k <= k - 1)
    BY <1>1
  <2>4. e[k - 1] = d[k - 1] /\ e[k] # d[k]
    BY <2>2, <2>3, Zenon
  <2>5. e[k] = e[k - 1] + Len(fields[k]) + 1 /\ d[k] = d[k - 1] + Len(fields[k]) + 1
    BY <1>1, <2>3, Zenon DEF CutAt
  <2> QED BY <2>4, <2>5, Zenon
<1>3. Len(raw) = Len(other)
  <2>1. n \in 0..n
    BY <1>1
  <2> QED BY <1>1, <1>2, <2>1, Zenon
<1>4. ASSUME NEW i \in 1..Len(raw) PROVE raw[i] = other[i]
  <2>1. i \in 1..e[n]
    BY <1>1, Zenon
  <2>2. PICK k \in 1..n : e[k - 1] < i /\ i <= e[k]
    BY <1>1, <2>1, OffsetsCover
  <2>3. k \in 0..n /\ k - 1 \in 0..n
    BY <1>1
  <2>4. e[k - 1] \in Nat /\ e[k] \in Nat /\ d[k - 1] = e[k - 1] /\ d[k] = e[k] /\ i \in Nat
    BY <1>1, <1>2, <2>3
  <2>5. CutAt(raw, fields[k], e[k - 1], e[k]) /\ CutAt(other, fields[k], e[k - 1], e[k])
    BY <1>1, <2>4, Zenon
  <2>6. CASE i = e[k]
    BY <2>5, <2>6, Zenon DEF CutAt
  <2>7. CASE i # e[k]
    <3> DEFINE j == i - e[k - 1]
    <3>1. Len(fields[k]) \in Nat /\ e[k] = e[k - 1] + Len(fields[k]) + 1
      BY <2>5, Zenon DEF CutAt
    <3>2. j \in 1..Len(fields[k]) /\ e[k - 1] + j = i
      BY <2>2, <2>4, <2>7, <3>1
    <3> HIDE DEF j
    <3>3. raw[e[k - 1] + j] = fields[k][j] /\ other[e[k - 1] + j] = fields[k][j]
      BY <2>5, <3>2, Zenon DEF CutAt
    <3> QED BY <3>2, <3>3, Zenon
  <2> QED BY <2>6, <2>7
<1> QED BY <1>3, <1>4, SeqEqual

LEMMA BytesAreNoNulls ==
  ASSUME NEW fields \in Seq(Seq(Byte))
  PROVE  NoNulls(fields)
<1> SUFFICES ASSUME NEW k \in 1..Len(fields), NEW i \in 1..Len(fields[k])
             PROVE  fields[k][i] # Nul
  BY DEF NoNulls
<1>1. fields[k] \in Seq(Byte)
  BY ElementOfSeq, Zenon
<1>2. fields[k][i] \in Byte
  BY <1>1, ElementOfSeq, Zenon
<1> QED BY <1>2, FormatAssumption DEF Nul

LEMMA SplitOfPrint ==
  ASSUME NEW files \in Seq(Changes)
  PROVE  SplitNull(PrintRawDiff(files)) = Fields(files)
<1> DEFINE raw == PrintRawDiff(files)
           F == Fields(files)
<1>1. Byte \cup {Nul} \subseteq Nat /\ Byte \subseteq Nat
  BY FormatAssumption DEF Nul
<1>2. raw \in Seq(Byte \cup {Nul}) /\ F \in Seq(Seq(Byte))
  BY CutsOfPrint, FieldsValues, Zenon
<1>3. PICK e : Cuts(raw, F, e)
  BY CutsOfPrint, Zenon
<1>4. NoNulls(F)
  BY <1>2, BytesAreNoNulls, Zenon
<1> HIDE DEF raw, F
<1>5. raw \in Seq(Nat)
  BY <1>1, <1>2, SeqMonotonic
<1>6. F \in Seq(Seq(Nat))
  <2>1. Seq(Byte) \subseteq Seq(Nat)
    BY <1>1, SeqMonotonic
  <2> QED BY <1>2, <2>1, SeqMonotonic
<1>7. SplitNull(raw) = F
  BY <1>3, <1>4, <1>5, <1>6, SplitOfCuts, Zenon
<1> QED BY <1>7 DEF raw, F

(* The parser gives back the changes that were printed, and takes them if     *)
(* they are no more than it allows.                                           *)
LEMMA ParseOfPrint ==
  ASSUME NEW files \in Seq(Changes), NEW maxFiles \in Nat
  PROVE  /\ ParseRawDiff(PrintRawDiff(files)) = files
         /\ Parses(PrintRawDiff(files), maxFiles) <=> Len(files) <= maxFiles
<1> DEFINE n == Len(files)
           raw == PrintRawDiff(files)
           F == Fields(files)
<1>1. /\ n \in Nat /\ Len(F) = 2 * n
      /\ \A m \in 1..n :
           /\ files[m] \in Changes
           /\ F[2 * m - 1] = files[m].header
           /\ F[2 * m] = Decode(files[m].pathBase64)
  BY FieldsValues, Zenon
<1>2. SplitNull(raw) = F
  BY SplitOfPrint, Zenon
<1>3. files = [m \in 1..n |-> files[m]]
  BY LenProperties
<1>4. DOMAIN F = 1..(2 * n)
  BY DEF Fields
<1>5. raw \in Seq(Byte \cup {Nul})
  BY CutsOfPrint, Zenon
<1>6. PICK e : Cuts(raw, F, e)
  BY CutsOfPrint, Zenon
<1> HIDE DEF n, raw, F
<1>7. (2 * n) \div 2 = n /\ (2 * n) % 2 = 0
  BY <1>1
<1>8. ParseRawDiff(raw) = files
  <2>1. ParseRawDiff(raw) = [m \in 1..n |->
          [header |-> Ascii(F[2 * m - 1]), pathBase64 |-> Encode(F[2 * m])]]
    BY <1>1, <1>2, <1>7 DEF ParseRawDiff
  <2>2. ASSUME NEW m \in 1..n
        PROVE  [header |-> Ascii(F[2 * m - 1]), pathBase64 |-> Encode(F[2 * m])] = files[m]
    <3>1. files[m] \in Changes /\ F[2 * m - 1] = files[m].header /\ F[2 * m] = Decode(files[m].pathBase64)
      BY <1>1, Zenon
    <3>2. /\ files[m].pathBase64 = Encode(Decode(files[m].pathBase64))
          /\ files[m] = [header |-> files[m].header, pathBase64 |-> files[m].pathBase64]
          /\ files[m].header \in Header
      BY <3>1, ChangeFields, Zenon
    <3>3. Ascii(files[m].header) = files[m].header
      BY <3>2, HeaderBytes, Zenon
    <3> QED BY <3>1, <3>2, <3>3, Zenon
  <2> QED BY <1>3, <2>1, <2>2, Zenon
<1>9. NulTerminated(raw)
  <2> SUFFICES ASSUME raw # <<>> PROVE Last(raw) = Nul
    BY Zenon DEF NulTerminated
  <2>1. e[0] = 0 /\ e[2 * n] = Len(raw) /\ \A k \in 1..(2 * n) : raw[e[k]] = Nul
    BY <1>1, <1>6, Zenon DEF Cuts
  <2>2. Len(raw) # 0
    BY <1>5, EmptySeq, Zenon
  <2>3. 2 * n \in 1..(2 * n)
    BY <1>1, <2>1, <2>2
  <2>4. raw[Len(raw)] = Nul
    BY <2>1, <2>3, Zenon
  <2> QED BY <2>4, Zenon DEF Last
<1>10. ASSUME NEW k \in 1..(2 * n)
       PROVE  IF k % 2 = 1 THEN Ascii(F[k]) \in Header ELSE F[k] # <<>>
  <2>1. \/ \E m \in 1..n : k = 2 * m - 1 /\ k % 2 = 1 /\ (k + 1) \div 2 = m
        \/ \E m \in 1..n : k = 2 * m /\ k % 2 = 0 /\ k \div 2 = m
    BY <1>1, Halves, Zenon
  <2>2. ASSUME NEW m \in 1..n PROVE Ascii(F[2 * m - 1]) \in Header /\ F[2 * m] # <<>>
    <3>1. files[m].header \in Header /\ Decode(files[m].pathBase64) # <<>>
      BY <1>1, ChangeFields
    <3>2. Ascii(files[m].header) = files[m].header
      BY <3>1, HeaderBytes, Zenon
    <3> QED BY <1>1, <3>1, <3>2
  <2>3. 0 # 1
    OBVIOUS
  <2> QED BY <2>1, <2>2, <2>3, Zenon
<1>11. Parses(raw, maxFiles) <=> n <= maxFiles
  BY <1>1, <1>2, <1>4, <1>7, <1>9, <1>10 DEF Parses
<1> QED BY <1>8, <1>11 DEF raw, n

(* The k-th field and its NUL come after k - 1 NULs.                          *)
LEMMA NullsBefore ==
  ASSUME NEW raw \in Seq(Nat), NEW k \in 1..Cardinality(Nulls(raw)), NEW i \in 1..Len(raw),
         Ends(raw)[k - 1] < i, i <= Ends(raw)[k]
  PROVE  Cardinality({j \in Nulls(raw) : j < i}) = k - 1
<1> DEFINE n == Cardinality(Nulls(raw))
           e == Ends(raw)
<1>1. n \in Nat /\ Len(raw) \in Nat /\ Nulls(raw) = {j \in 1..Len(raw) : raw[j] = Nul}
  BY EndsBound, LenProperties DEF Nulls
<1>2. /\ e \in [0..n -> Nat] /\ e[0] = 0
      /\ \A j \in 1..Len(raw) : e[k - 1] < j /\ j < e[k] => raw[j] # Nul
  BY EndsBound, Zenon
<1>3. e[k - 1] \in Nat /\ e[k] \in Nat /\ k - 1 \in 0..n
  <2>1. k - 1 \in 0..n /\ k \in 0..n
    BY <1>1
  <2> HIDE DEF e, n
  <2> QED BY <1>2, <2>1
<1> DEFINE p == e[k - 1]
           q == e[k]
<1>4. p \in Nat /\ q \in Nat /\ p < i /\ i <= q
  BY <1>3
<1>5. {j \in Nulls(raw) : j < i} = Before(raw, p)
  <2>1. ASSUME NEW j \in Nulls(raw) PROVE j < i <=> j <= p
    <3>1. j \in 1..Len(raw) /\ raw[j] = Nul
      BY <1>1
    <3>2. ~(p < j /\ j < q)
      BY <1>2, <3>1, Zenon
    <3> HIDE DEF p, q
    <3> QED BY <1>1, <1>4, <3>1, <3>2
  <2> QED BY <2>1, Zenon DEF Before
<1>6. CASE k - 1 = 0
  <2>1. p = 0
    BY <1>2, <1>6
  <2>2. Before(raw, p) = {}
    BY <1>1, <2>1 DEF Before
  <2> QED BY <1>5, <1>6, <2>2, FS_EmptySet, Zenon
<1>7. CASE k - 1 # 0
  <2>1. k - 1 \in 1..n
    BY <1>3, <1>7
  <2>2. p = NullAt(raw, k - 1)
    BY <1>3, <1>7 DEF Ends
  <2>3. Cardinality(Before(raw, NullAt(raw, k - 1))) = k - 1
    BY <2>1, NullAtExists, Zenon
  <2> QED BY <1>5, <2>2, <2>3, Zenon
<1> QED BY <1>6, <1>7

LEMMA ParityBefore ==
  ASSUME NEW n \in Nat, NEW k \in 1..n
  PROVE  (k - 1) % 2 = 0 <=> k % 2 = 1
OBVIOUS

(* The fields as the parser reads them: headers as ASCII text.                *)
ReadFields(raw) ==
  [k \in DOMAIN SplitNull(raw) |->
     IF k % 2 = 1 THEN Ascii(SplitNull(raw)[k]) ELSE SplitNull(raw)[k]]

LEMMA AsciiValues ==
  ASSUME NEW bytes \in Seq(Nat)
  PROVE  /\ Ascii(bytes) \in Seq(Nat) /\ Len(Ascii(bytes)) = Len(bytes)
         /\ \A i \in 1..Len(bytes) : Ascii(bytes)[i] = bytes[i] % 128
<1>1. /\ Len(bytes) \in Nat /\ DOMAIN bytes = 1..Len(bytes)
      /\ \A i \in 1..Len(bytes) : bytes[i] \in Nat
  BY ElementOfSeq, LenProperties
<1> DEFINE n == Len(bytes)
<1> HIDE DEF n
<1>2. Ascii(bytes) = [i \in 1..n |-> bytes[i] % 128]
  BY <1>1 DEF Ascii, n
<1>3. \A i \in 1..n : bytes[i] % 128 \in Nat
  BY <1>1 DEF n
<1>4. Ascii(bytes) \in [1..n -> Nat] /\ \A i \in 1..n : Ascii(bytes)[i] = bytes[i] % 128
  BY <1>2, <1>3
<1> QED BY <1>1, <1>4, SeqDef, LenProperties DEF n

LEMMA CutsOfRead ==
  ASSUME NEW raw \in Seq(Byte \cup {Nul}), NulTerminated(raw)
  PROVE  /\ Cuts(AsciiHeaders(raw), ReadFields(raw), Ends(raw))
         /\ AsciiHeaders(raw) \in Seq(Nat)
         /\ Len(ReadFields(raw)) = Len(SplitNull(raw))
<1> DEFINE F == SplitNull(raw)
           G == ReadFields(raw)
           e == Ends(raw)
           n == Cardinality(Nulls(raw))
           read == AsciiHeaders(raw)
           odd(i) == Cardinality({j \in Nulls(raw) : j < i}) % 2 = 0
<1>1. Byte \cup {Nul} \subseteq Nat /\ Byte \subseteq Nat
  BY FormatAssumption DEF Nul
<1>2. /\ raw \in Seq(Nat) /\ Len(raw) \in Nat /\ DOMAIN raw = 1..Len(raw)
      /\ \A i \in 1..Len(raw) : raw[i] \in Nat
  BY <1>1, SeqMonotonic, ElementOfSeq, LenProperties
<1>3. Cuts(raw, F, e) /\ F \in Seq(Seq(Byte))
  BY CutsOfSplit, Zenon
<1>4. /\ Len(F) = n /\ n \in Nat /\ DOMAIN F = 1..n
      /\ \A k \in 1..n : F[k] \in Seq(Nat)
  <2>1. n \in Nat
    BY <1>2, EndsBound, Zenon
  <2>2. F \in Seq(Seq(Nat))
    BY <1>1, <1>3, SeqMonotonic
  <2>3. DOMAIN F = 1..n
    BY DEF SplitNull
  <2>4. Len(F) = n
    BY <1>3, <2>1, <2>3, LenProperties
  <2>5. \A k \in 1..Len(F) : F[k] \in Seq(Nat)
    BY <2>2, ElementOfSeq, Zenon
  <2> QED BY <2>1, <2>3, <2>4, <2>5, Zenon
<1>5. /\ e \in [0..n -> Nat] /\ e[0] = 0 /\ e[n] = Len(raw)
      /\ \A k \in 1..n : CutAt(raw, F[k], e[k - 1], e[k])
  BY <1>3, <1>4, Zenon DEF Cuts, CutAt
<1>6. \A k \in 1..n : e[k] \in 1..Len(raw) /\ e[k - 1] < e[k]
  BY <1>2, EndsBound, Zenon
<1>7. /\ DOMAIN read = 1..Len(raw)
      /\ \A i \in 1..Len(raw) : read[i] = IF odd(i) THEN raw[i] % 128 ELSE raw[i]
  BY <1>2 DEF AsciiHeaders
<1>8. read \in Seq(Nat) /\ Len(read) = Len(raw)
  <2>1. \A i \in 1..Len(raw) : read[i] \in Nat
    <3> HIDE DEF odd, read
    <3> QED BY <1>2, <1>7
  <2>2. read = [i \in 1..Len(raw) |-> read[i]]
    BY <1>7 DEF AsciiHeaders
  <2> HIDE DEF read
  <2>3. read \in [1..Len(raw) -> Nat]
    BY <2>1, <2>2
  <2> QED BY <1>2, <2>3, SeqDef, LenProperties
<1>9. /\ DOMAIN G = 1..n /\ Len(G) = n
      /\ \A k \in 1..n : G[k] = IF k % 2 = 1 THEN Ascii(F[k]) ELSE F[k]
  <2>1. G = [k \in 1..n |-> IF k % 2 = 1 THEN Ascii(F[k]) ELSE F[k]]
    BY <1>4, Zenon DEF ReadFields
  <2> HIDE DEF G, F, n
  <2> QED BY <1>4, <2>1, LenProperties
<1>10. \A k \in 1..n : e[k - 1] \in Nat /\ e[k] \in Nat /\ k - 1 \in Nat /\ k \in Nat
  <2> HIDE DEF e, n
  <2> QED BY <1>4, <1>5
<1>11. \A k \in 1..n : \A i \in 1..Len(raw) :
         e[k - 1] < i /\ i <= e[k] => (odd(i) <=> k % 2 = 1)
  <2> SUFFICES ASSUME NEW k \in 1..n, NEW i \in 1..Len(raw), e[k - 1] < i, i <= e[k]
               PROVE  odd(i) <=> k % 2 = 1
    OBVIOUS
  <2>1. Cardinality({j \in Nulls(raw) : j < i}) = k - 1
    BY <1>2, NullsBefore, Zenon
  <2>2. (k - 1) % 2 = 0 <=> k % 2 = 1
    BY <1>4, ParityBefore, Zenon
  <2> QED BY <2>1, <2>2, Zenon
<1> HIDE DEF F, G, e, n, read, odd
<1>12. ASSUME NEW k \in 1..n PROVE CutAt(read, G[k], e[k - 1], e[k])
  <2> DEFINE l == Len(F[k])
             p == e[k - 1]
             q == e[k]
  <2>1. /\ l \in Nat /\ q = p + l + 1 /\ raw[q] = Nul
        /\ \A i \in 1..l : raw[p + i] = F[k][i]
    BY <1>5, Zenon DEF CutAt
  <2>2. p \in Nat /\ q \in 1..Len(raw) /\ F[k] \in Seq(Nat)
    BY <1>4, <1>6, <1>10
  <2>3. Len(G[k]) = l /\ \A i \in 1..l : G[k][i] = IF k % 2 = 1 THEN F[k][i] % 128 ELSE F[k][i]
    <3>1. G[k] = IF k % 2 = 1 THEN Ascii(F[k]) ELSE F[k]
      BY <1>9, Zenon
    <3> QED BY <2>2, <3>1, AsciiValues, Zenon
  <2>4. \A i \in 1..Len(raw) : p < i /\ i <= q => (odd(i) <=> k % 2 = 1)
    BY <1>11, Zenon
  <2> HIDE DEF l, p, q
  <2>5. read[q] = Nul
    <3>1. Nul % 128 = Nul
      BY DEF Nul
    <3> QED BY <1>7, <2>1, <2>2, <3>1, Zenon
  <2>6. ASSUME NEW i \in 1..l PROVE read[p + i] = G[k][i]
    <3>1. p + i \in 1..Len(raw) /\ p < p + i /\ p + i <= q
      BY <1>2, <2>1, <2>2
    <3>2. odd(p + i) <=> k % 2 = 1
      BY <2>4, <3>1, Zenon
    <3>3. read[p + i] = IF odd(p + i) THEN raw[p + i] % 128 ELSE raw[p + i]
      BY <1>7, <3>1, Zenon
    <3>4. raw[p + i] = F[k][i]
      BY <2>1, Zenon
    <3> QED BY <2>3, <3>2, <3>3, <3>4, Zenon
  <2> QED BY <2>1, <2>3, <2>5, <2>6, Zenon DEF CutAt, l, p, q
<1>13. Cuts(read, G, e)
  BY <1>4, <1>5, <1>8, <1>9, <1>12, Zenon DEF Cuts, CutAt
<1> QED BY <1>4, <1>8, <1>9, <1>13 DEF read, G, e, F

(* A raw diff that parses is what git prints of the changes it is parsed to,  *)
(* but for the highest bit of header bytes.                                   *)
LEMMA PrintOfParse ==
  ASSUME NEW raw \in Seq(Byte \cup {Nul}), NEW maxFiles \in Nat, Parses(raw, maxFiles)
  PROVE  /\ ParseRawDiff(raw) \in Seq(Changes)
         /\ Len(ParseRawDiff(raw)) <= maxFiles
         /\ PrintRawDiff(ParseRawDiff(raw)) = AsciiHeaders(raw)
         /\ Nulls(PrintRawDiff(ParseRawDiff(raw))) = Nulls(raw)
<1> DEFINE F == SplitNull(raw)
           G == ReadFields(raw)
           files == ParseRawDiff(raw)
           n == Len(F) \div 2
<1>1. NulTerminated(raw)
  BY Zenon DEF Parses
<1>2. /\ Len(F) % 2 = 0 /\ n <= maxFiles
      /\ \A k \in DOMAIN F : IF k % 2 = 1 THEN Ascii(F[k]) \in Header ELSE F[k] # <<>>
  BY Zenon DEF Parses
<1>3. files = [k \in 1..n |-> [header |-> Ascii(F[2 * k - 1]), pathBase64 |-> Encode(F[2 * k])]]
  BY DEF ParseRawDiff
<1>4. /\ Len(F) \in Nat /\ DOMAIN F = 1..Len(F)
      /\ \A j \in 1..Len(F) : F[j] \in Seq(Byte)
  <2>1. F \in Seq(Seq(Byte))
    BY <1>1, CutsOfSplit, Zenon
  <2> QED BY <2>1, ElementOfSeq, LenProperties
<1>a. G = [k \in DOMAIN F |-> IF k % 2 = 1 THEN Ascii(F[k]) ELSE F[k]]
  BY DEF ReadFields
<1>b. /\ Cuts(AsciiHeaders(raw), G, Ends(raw)) /\ AsciiHeaders(raw) \in Seq(Nat)
      /\ Cuts(raw, F, Ends(raw)) /\ NoNulls(F) /\ Len(G) = Len(F)
  BY <1>1, CutsOfRead, CutsOfSplit, Zenon
<1>c. raw \in Seq(Nat)
  <2>1. Byte \cup {Nul} \subseteq Nat
    BY FormatAssumption DEF Nul
  <2> QED BY <2>1, SeqMonotonic
<1> HIDE DEF F, G, files
<1>5. n \in Nat /\ Len(F) = 2 * n
  <2> DEFINE l == Len(F)
  <2>1. l \in Nat /\ l % 2 = 0
    BY <1>2, <1>4, Zenon
  <2> HIDE DEF l
  <2>2. l \div 2 \in Nat /\ l = 2 * (l \div 2)
    BY <2>1
  <2> QED BY <2>2, Zenon DEF l
<1> HIDE DEF n
<1>6. ASSUME NEW m \in 1..n
      PROVE  /\ Ascii(F[2 * m - 1]) \in Header
             /\ F[2 * m] \in Seq(Byte) \ {<<>>}
             /\ G[2 * m - 1] = Ascii(F[2 * m - 1])
             /\ G[2 * m] = F[2 * m]
  <2>1. /\ 2 * m - 1 \in 1..Len(F) /\ 2 * m \in 1..Len(F)
        /\ (2 * m - 1) % 2 = 1 /\ (2 * m) % 2 # 1
    BY <1>5
  <2>2. G[2 * m - 1] = Ascii(F[2 * m - 1]) /\ G[2 * m] = F[2 * m]
    BY <1>4, <1>a, <2>1
  <2> QED BY <1>2, <1>4, <2>1, <2>2, Zenon
<1>7. files \in [1..n -> Changes]
  <2> SUFFICES ASSUME NEW m \in 1..n
               PROVE  [header |-> Ascii(F[2 * m - 1]), pathBase64 |-> Encode(F[2 * m])] \in Changes
    BY <1>3
  <2> QED BY <1>6 DEF Changes
<1>8. files \in Seq(Changes) /\ Len(files) = n
  BY <1>5, <1>7, SeqDef, LenProperties
<1>9. ASSUME NEW m \in 1..n
      PROVE  files[m].header = G[2 * m - 1] /\ Decode(files[m].pathBase64) = G[2 * m]
  <2>1. files[m] = [header |-> Ascii(F[2 * m - 1]), pathBase64 |-> Encode(F[2 * m])]
    BY <1>3
  <2>2. files[m].header = Ascii(F[2 * m - 1]) /\ Decode(files[m].pathBase64) = F[2 * m]
    BY <2>1 DEF Encode, Decode
  <2> QED BY <1>6, <2>2, Zenon
<1>10. Fields(files) = G
  <2>1. ASSUME NEW j \in 1..(2 * n)
        PROVE  (IF j % 2 = 1 THEN files[(j + 1) \div 2].header
                             ELSE Decode(files[j \div 2].pathBase64)) = G[j]
    <3>1. \/ \E m \in 1..n : j = 2 * m - 1 /\ j % 2 = 1 /\ (j + 1) \div 2 = m
          \/ \E m \in 1..n : j = 2 * m /\ j % 2 = 0 /\ j \div 2 = m
      BY <1>5, Halves, Zenon
    <3>2. 0 # 1
      OBVIOUS
    <3> QED BY <1>9, <3>1, <3>2, Zenon
  <2>2. G = [j \in 1..(2 * n) |-> G[j]]
    BY <1>4, <1>5, <1>a
  <2> QED BY <1>8, <2>1, <2>2, Zenon DEF Fields
<1>11. PICK e : Cuts(PrintRawDiff(files), G, e)
  BY <1>8, <1>10, CutsOfPrint, Zenon
<1>12. PrintRawDiff(files) \in Seq(Nat)
  <2>1. PrintRawDiff(files) \in Seq(Byte \cup {Nul})
    BY <1>8, CutsOfPrint, Zenon
  <2>2. Byte \cup {Nul} \subseteq Nat
    BY FormatAssumption DEF Nul
  <2> QED BY <2>1, <2>2, SeqMonotonic
<1>13. PrintRawDiff(files) = AsciiHeaders(raw)
  BY <1>b, <1>11, <1>12, CutsUnique, Zenon
<1>14. Nulls(AsciiHeaders(raw)) = Nulls(raw)
  <2>1. NoNulls(G)
    <3>1. G \in Seq(Seq(Byte))
      BY <1>8, <1>10, FieldsValues, Zenon
    <3> QED BY <3>1, BytesAreNoNulls, Zenon
  <2>2. Nulls(AsciiHeaders(raw)) = {Ends(raw)[k] : k \in 1..Len(G)}
    BY <1>b, <2>1, NullsOfCuts
  <2>3. Nulls(raw) = {Ends(raw)[k] : k \in 1..Len(F)}
    BY <1>b, <1>c, NullsOfCuts
  <2> QED BY <1>b, <2>2, <2>3, Zenon
<1> QED BY <1>2, <1>8, <1>13, <1>14 DEF files

LEMMA AsciiOfAscii ==
  ASSUME NEW x \in Nat
  PROVE  (x % 128) % 128 = x % 128
<1>1. x % 128 \in 0..127
  OBVIOUS
<1> DEFINE y == x % 128
<1> HIDE DEF y
<1>2. y \in 0..127 => y % 128 = y
  OBVIOUS
<1> QED BY <1>1, <1>2 DEF y

LEMMA CutsHaveFields ==
  ASSUME NEW raw, NEW f \in Seq(Seq(Nat)), NEW g \in Seq(Seq(Nat)), NEW e,
         Cuts(raw, f, e), Cuts(raw, g, e), Len(f) = Len(g)
  PROVE  f = g
<1> DEFINE n == Len(f)
<1>a. /\ n \in Nat /\ e \in [0..n -> Nat]
      /\ \A k \in 1..n : CutAt(raw, f[k], e[k - 1], e[k])
  BY Zenon DEF Cuts, CutAt
<1>b. \A k \in 1..Len(g) : CutAt(raw, g[k], e[k - 1], e[k])
  BY Zenon DEF Cuts, CutAt
<1>c. n = Len(g)
  OBVIOUS
<1>2. \A k \in 1..n : f[k] \in Seq(Nat) /\ g[k] \in Seq(Nat)
  <2>1. \A k \in 1..n : f[k] \in Seq(Nat)
    BY ElementOfSeq, Zenon
  <2>2. \A k \in 1..Len(g) : g[k] \in Seq(Nat)
    BY ElementOfSeq, Zenon
  <2> QED BY <1>c, <2>1, <2>2, Zenon
<1> HIDE DEF n
<1>1. \A k \in 1..n : CutAt(raw, f[k], e[k - 1], e[k]) /\ CutAt(raw, g[k], e[k - 1], e[k])
  BY <1>a, <1>b, <1>c, Zenon
<1>3. \A k \in 1..n : e[k - 1] \in Nat
  <2>1. \A k \in 1..n : k - 1 \in 0..n
    BY <1>a
  <2>2. n \in Nat /\ e \in [0..n -> Nat]
    BY <1>a, Zenon
  <2> QED BY <2>1, <2>2
<1>4. ASSUME NEW k \in 1..n PROVE f[k] = g[k]
  <2> DEFINE l == Len(f[k])
             m == Len(g[k])
             p == e[k - 1]
  <2>1. /\ l \in Nat /\ e[k] = p + l + 1 /\ \A i \in 1..l : raw[p + i] = f[k][i]
        /\ m \in Nat /\ e[k] = p + m + 1 /\ \A i \in 1..m : raw[p + i] = g[k][i]
    BY <1>1, Zenon DEF CutAt
  <2>2. p \in Nat
    BY <1>3, Zenon
  <2>3. f[k] \in Seq(Nat) /\ g[k] \in Seq(Nat)
    BY <1>2, Zenon
  <2> HIDE DEF p
  <2>4. l = m
    <3> HIDE DEF l, m
    <3> QED BY <2>1, <2>2
  <2>5. \A i \in 1..l : f[k][i] = g[k][i]
    BY <2>1, <2>4, Zenon
  <2> QED BY <2>3, <2>4, <2>5, SeqEqual
<1> QED BY <1>c, <1>4, SeqEqual DEF n

(* Conversely, raw parses if it differs in no more than that from what git    *)
(* prints of a list that is not too long.                                     *)
LEMMA ParsesIfRead ==
  ASSUME NEW raw \in Seq(Byte \cup {Nul}), NEW maxFiles \in Nat,
         NEW files \in Seq(Changes), Len(files) <= maxFiles,
         PrintRawDiff(files) = AsciiHeaders(raw), Nulls(PrintRawDiff(files)) = Nulls(raw)
  PROVE  Parses(raw, maxFiles)
<1> DEFINE print == PrintRawDiff(files)
           F == SplitNull(raw)
           P == SplitNull(print)
<1>1. Byte \cup {Nul} \subseteq Nat
  BY FormatAssumption DEF Nul
<1>2. print \in Seq(Byte \cup {Nul}) /\ Parses(print, maxFiles)
  BY CutsOfPrint, ParseOfPrint, Zenon
<1>3. /\ NulTerminated(print) /\ Len(P) % 2 = 0 /\ Len(P) \div 2 <= maxFiles
      /\ \A k \in DOMAIN P : IF k % 2 = 1 THEN Ascii(P[k]) \in Header ELSE P[k] # <<>>
  BY <1>2, Zenon DEF Parses
<1>4. /\ Len(raw) \in Nat /\ DOMAIN raw = 1..Len(raw)
      /\ Len(print) \in Nat /\ DOMAIN print = 1..Len(print)
  BY <1>2, LenProperties, Zenon
<1>5. Len(raw) = Len(print)
  <2>1. DOMAIN print = DOMAIN raw
    BY DEF AsciiHeaders
  <2> DEFINE x == Len(raw)
             y == Len(print)
  <2>2. x \in Nat /\ y \in Nat /\ 1..x = 1..y
    BY <1>4, <2>1, Zenon
  <2> HIDE DEF x, y
  <2>3. x = y
    BY <2>2
  <2> QED BY <2>3 DEF x, y
<1>6. NulTerminated(raw)
  <2> SUFFICES ASSUME raw # <<>> PROVE Last(raw) = Nul
    BY Zenon DEF NulTerminated
  <2>1. Len(print) \in DOMAIN print /\ print # <<>>
    <3> HIDE DEF print
    <3> QED BY <1>2, <1>4, <1>5, EmptySeq
  <2>2. Len(print) \in Nulls(print)
    BY <1>3, <2>1, Zenon DEF NulTerminated, Last, Nulls
  <2>3. Len(raw) \in Nulls(raw)
    BY <1>5, <2>2, Zenon
  <2> QED BY <2>3, Zenon DEF Last, Nulls
<1>7. Ends(print) = Ends(raw)
  BY DEF Ends, NullAt
<1>8. Cuts(print, P, Ends(raw)) /\ P \in Seq(Seq(Byte))
  BY <1>2, <1>3, <1>7, CutsOfSplit, Zenon
<1>9. Cuts(print, ReadFields(raw), Ends(raw)) /\ F \in Seq(Seq(Byte)) /\ Len(ReadFields(raw)) = Len(F)
  BY <1>6, CutsOfRead, CutsOfSplit, Zenon
<1>10. /\ \A k \in DOMAIN F : F[k] \in Seq(Nat)
       /\ P \in Seq(Seq(Nat)) /\ DOMAIN P = DOMAIN F /\ Len(P) = Len(F)
       /\ DOMAIN F = 1..Len(F) /\ Len(F) \in Nat
  <2>1. Seq(Byte) \subseteq Seq(Nat)
    BY <1>1, SeqMonotonic
  <2>2. F \in Seq(Seq(Nat)) /\ P \in Seq(Seq(Nat))
    BY <1>8, <1>9, <2>1, SeqMonotonic
  <2>3. DOMAIN P = DOMAIN F
    BY DEF SplitNull
  <2> HIDE DEF F, P
  <2> QED BY <2>2, <2>3, ElementOfSeq, LenProperties
<1>11. /\ DOMAIN ReadFields(raw) = DOMAIN F
       /\ \A k \in DOMAIN F : ReadFields(raw)[k] = IF k % 2 = 1 THEN Ascii(F[k]) ELSE F[k]
  BY DEF ReadFields
<1>12. \A k \in DOMAIN F : Ascii(F[k]) \in Seq(Nat) /\ Ascii(Ascii(F[k])) = Ascii(F[k])
  <2> SUFFICES ASSUME NEW bytes \in Seq(Nat)
               PROVE  Ascii(bytes) \in Seq(Nat) /\ Ascii(Ascii(bytes)) = Ascii(bytes)
    BY <1>10, Zenon
  <2> DEFINE a == Ascii(bytes)
             b == Ascii(a)
             n == Len(bytes)
  <2>1. /\ a \in Seq(Nat) /\ Len(a) = n
        /\ \A i \in 1..n : a[i] = bytes[i] % 128
    BY AsciiValues, Zenon
  <2>2. /\ b \in Seq(Nat) /\ Len(b) = n
        /\ \A i \in 1..n : b[i] = a[i] % 128
    BY <2>1, AsciiValues, Zenon
  <2>3. \A i \in 1..n : bytes[i] \in Nat
    BY ElementOfSeq, Zenon
  <2> HIDE DEF a, b, n
  <2>4. \A x \in Nat : (x % 128) % 128 = x % 128
    BY AsciiOfAscii, Zenon
  <2>5. ASSUME NEW i \in 1..n PROVE b[i] = a[i]
    <3>1. a[i] = bytes[i] % 128 /\ b[i] = a[i] % 128
      BY <2>1, <2>2, Zenon
    <3>2. (bytes[i] % 128) % 128 = bytes[i] % 128
      BY <2>3, <2>4, Zenon
    <3> QED BY <3>1, <3>2, Zenon
  <2>6. Len(b) = Len(a) /\ \A i \in 1..Len(b) : b[i] = a[i]
    BY <2>1, <2>2, <2>5, Zenon
  <2>7. b = a
    BY <2>1, <2>2, <2>6, SeqEqual, Zenon
  <2> QED BY <2>1, <2>7 DEF a, b
<1>13. P = ReadFields(raw)
  <2> DEFINE G == ReadFields(raw)
  <2>1. \A k \in 1..Len(F) : G[k] \in Seq(Nat)
    BY <1>10, <1>11, <1>12, Zenon
  <2>2. G = [k \in 1..Len(F) |-> G[k]]
    BY <1>10 DEF ReadFields
  <2>3. G \in Seq(Seq(Nat))
    <3> HIDE DEF G, F
    <3> QED BY <1>10, <2>1, <2>2, SeqDef
  <2> HIDE DEF G, F, P, print
  <2> QED BY <1>8, <1>9, <1>10, <2>3, CutsHaveFields, Zenon DEF G
<1>14. \A k \in DOMAIN F : IF k % 2 = 1 THEN Ascii(F[k]) \in Header ELSE F[k] # <<>>
  BY <1>3, <1>10, <1>11, <1>12, <1>13, Zenon
<1> QED BY <1>3, <1>6, <1>10, <1>14, Zenon DEF Parses

LEMMA SeqOfIsSeq ==
  ASSUME NEW S, NEW n \in Nat, NEW s \in SeqOf(S, n)
  PROVE  s \in Seq(S)
<1>1. PICK m \in 0..n : s \in [1..m -> S]
  BY DEF SeqOf
<1> QED BY <1>1, SeqDef

(* The parser's framing is exact for raw diffs of any length, any number of   *)
(* files and any bound on it: it takes all that git may print of no more      *)
(* files than allowed, and gives back the changes it was printed of; and what *)
(* it takes beside that differs from it in the highest bit of header bytes    *)
(* only, so that no byte of a path is lost or changed (raw-diff.ts:12-70).    *)
THEOREM FramingExact ==
  ASSUME NEW maxFiles \in Nat
  PROVE  /\ \A raw \in Seq(Byte \cup {Nul}) :
              Parses(raw, maxFiles) <=>
                \E files \in Seq(Changes) :
                  /\ Len(files) <= maxFiles
                  /\ PrintRawDiff(files) = AsciiHeaders(raw)
                  /\ Nulls(PrintRawDiff(files)) = Nulls(raw)
         /\ \A raw \in Seq(Byte \cup {Nul}) :
              Parses(raw, maxFiles) => PrintRawDiff(ParseRawDiff(raw)) = AsciiHeaders(raw)
         /\ \A files \in Seq(Changes) :
              /\ Parses(PrintRawDiff(files), maxFiles) <=> Len(files) <= maxFiles
              /\ ParseRawDiff(PrintRawDiff(files)) = files
<1>1. ASSUME NEW raw \in Seq(Byte \cup {Nul}), Parses(raw, maxFiles)
      PROVE  /\ \E files \in Seq(Changes) :
                   /\ Len(files) <= maxFiles
                   /\ PrintRawDiff(files) = AsciiHeaders(raw)
                   /\ Nulls(PrintRawDiff(files)) = Nulls(raw)
             /\ PrintRawDiff(ParseRawDiff(raw)) = AsciiHeaders(raw)
  BY <1>1, PrintOfParse, Zenon
<1>2. ASSUME NEW raw \in Seq(Byte \cup {Nul}), NEW files \in Seq(Changes),
             Len(files) <= maxFiles,
             PrintRawDiff(files) = AsciiHeaders(raw),
             Nulls(PrintRawDiff(files)) = Nulls(raw)
      PROVE  Parses(raw, maxFiles)
  BY <1>2, ParsesIfRead, Zenon
<1>3. \A files \in Seq(Changes) :
        /\ Parses(PrintRawDiff(files), maxFiles) <=> Len(files) <= maxFiles
        /\ ParseRawDiff(PrintRawDiff(files)) = files
  BY ParseOfPrint, Zenon
<1> QED BY <1>1, <1>2, <1>3, Zenon

LEMMA FramingHolds == ExactFraming
<1> SUFFICES ASSUME NEW maxFiles \in 1..MaxFiles
             PROVE  /\ \A raw \in RawDiffs :
                         Parses(raw, maxFiles) =>
                           /\ PrintRawDiff(ParseRawDiff(raw)) = AsciiHeaders(raw)
                           /\ Len(ParseRawDiff(raw)) <= maxFiles
                    /\ \A files \in SeqOf(Printable, MaxFiles) :
                         LET raw == PrintRawDiff(files) IN
                         /\ Parses(raw, maxFiles) <=> Len(files) <= maxFiles
                         /\ ParseRawDiff(raw) = files
  BY DEF ExactFraming
<1>1. maxFiles \in Nat /\ MaxFiles \in Nat /\ MaxLength \in Nat /\ MaxPath \in Nat
  BY FormatAssumption
<1>2. \A raw \in RawDiffs : raw \in Seq(Byte \cup {Nul})
  BY <1>1, SeqOfIsSeq, Zenon DEF RawDiffs
<1>3. \A files \in SeqOf(Printable, MaxFiles) : files \in Seq(Changes)
  <2>1. Printable \subseteq Changes
    <3>1. Paths \subseteq Seq(Byte)
      BY <1>1, SeqOfIsSeq DEF Paths
    <3> QED BY <3>1 DEF Printable, Changes
  <2>2. \A files \in SeqOf(Printable, MaxFiles) : files \in Seq(Printable)
    BY <1>1, SeqOfIsSeq, Zenon
  <2> QED BY <2>1, <2>2, SeqMonotonic
<1>4. \A raw \in RawDiffs :
        Parses(raw, maxFiles) =>
          /\ PrintRawDiff(ParseRawDiff(raw)) = AsciiHeaders(raw)
          /\ Len(ParseRawDiff(raw)) <= maxFiles
  BY <1>1, <1>2, PrintOfParse, Zenon
<1>5. \A files \in SeqOf(Printable, MaxFiles) :
        /\ Parses(PrintRawDiff(files), maxFiles) <=> Len(files) <= maxFiles
        /\ ParseRawDiff(PrintRawDiff(files)) = files
  BY <1>1, <1>3, ParseOfPrint, Zenon
<1> QED BY <1>4, <1>5, Zenon

(* The validator's parser reads the bytes of every run exactly.               *)
THEOREM FramingIsExactAlways == Spec => []FramingIsExact
<1>1. FramingIsExact
  BY FramingHolds, Zenon DEF FramingIsExact
<1> QED BY <1>1, PTL

-----------------------------------------------------------------------------
(* The order of texts and of files *)

(* a comes before b: it is cut off, or has the smaller byte, at offset n.     *)
DiffersAt(a, b, n) ==
  /\ n \in Nat /\ n <= Len(a) /\ n < Len(b)
  /\ \A i \in 1..n : a[i] = b[i]
  /\ n = Len(a) \/ a[n + 1] < b[n + 1]

LEMMA CommonPrefix ==
  ASSUME NEW a \in Seq(Nat), NEW b \in Seq(Nat), NEW n \in Nat, n <= Len(a), n <= Len(b)
  PROVE  SubSeq(a, 1, n) = SubSeq(b, 1, n) <=> \A i \in 1..n : a[i] = b[i]
<1>1. Len(a) \in Nat /\ Len(b) \in Nat
  OBVIOUS
<1>2. SubSeq(a, 1, n) = [i \in 1..n |-> a[i]] /\ SubSeq(b, 1, n) = [i \in 1..n |-> b[i]]
  BY <1>1
<1> QED BY <1>2, Zenon

LEMMA PrecedesDiffers ==
  ASSUME NEW a \in Seq(Nat), NEW b \in Seq(Nat)
  PROVE  Precedes(a, b) <=> \E n \in Nat : DiffersAt(a, b, n)
<1>1. Len(a) \in Nat /\ Len(b) \in Nat
  OBVIOUS
<1>2. \A n \in 0..Len(a) : n < Len(b) =>
        (SubSeq(a, 1, n) = SubSeq(b, 1, n) <=> \A i \in 1..n : a[i] = b[i])
  <2> SUFFICES ASSUME NEW n \in 0..Len(a), n < Len(b)
               PROVE  SubSeq(a, 1, n) = SubSeq(b, 1, n) <=> \A i \in 1..n : a[i] = b[i]
    OBVIOUS
  <2>1. n \in Nat /\ n <= Len(a) /\ n <= Len(b)
    BY <1>1
  <2> QED BY <2>1, CommonPrefix, Zenon
<1>3. \A n : n \in 0..Len(a) <=> n \in Nat /\ n <= Len(a)
  BY <1>1
<1>4. ASSUME Precedes(a, b) PROVE \E n \in Nat : DiffersAt(a, b, n)
  <2>1. PICK n \in 0..Len(a) : n < Len(b) /\ SubSeq(a, 1, n) = SubSeq(b, 1, n)
                               /\ (n = Len(a) \/ a[n + 1] < b[n + 1])
    BY <1>4, Zenon DEF Precedes
  <2> QED BY <1>2, <1>3, <2>1, Zenon DEF DiffersAt
<1>5. ASSUME NEW n \in Nat, DiffersAt(a, b, n) PROVE Precedes(a, b)
  BY <1>2, <1>3, <1>5, Zenon DEF Precedes, DiffersAt
<1> QED BY <1>4, <1>5, Zenon

LEMMA PrecedesTotal ==
  ASSUME NEW a \in Seq(Nat), NEW b \in Seq(Nat), a # b
  PROVE  Precedes(a, b) \/ Precedes(b, a)
<1> DEFINE x == Len(a)
           y == Len(b)
           D == {i \in Nat \ {0} : i > x \/ i > y \/ a[i] # b[i]}
<1>1. x \in Nat /\ y \in Nat
  OBVIOUS
<1>2. /\ \A i \in 1..x : a[i] \in Nat
      /\ \A i \in 1..y : b[i] \in Nat
  BY ElementOfSeq
<1>3. x + 1 \in D
  BY <1>1
<1>4. PICK m \in D : \A i \in D : m <= i
  <2>1. D \subseteq Nat /\ D # {}
    BY <1>3
  <2> HIDE DEF D
  <2> QED BY <2>1, LeastNat
<1>5. m \in Nat \ {0} /\ (m > x \/ m > y \/ a[m] # b[m])
  OBVIOUS
<1> DEFINE n == m - 1
<1>6. n \in Nat /\ n + 1 = m
  BY <1>5
<1>7. ASSUME NEW i \in 1..n PROVE i <= x /\ i <= y /\ a[i] = b[i]
  <2>1. i \in Nat \ {0} /\ ~(m <= i)
    BY <1>5
  <2>2. i \notin D
    BY <1>4, <2>1, Zenon
  <2> HIDE DEF x, y
  <2> QED BY <1>1, <2>1, <2>2
<1>8. n <= x /\ n <= y
  <2>1. n # 0 => n \in 1..n
    BY <1>6
  <2>2. n # 0 => n <= x /\ n <= y
    BY <1>7, <2>1, Zenon
  <2> HIDE DEF x, y, n
  <2> QED BY <1>1, <1>6, <2>2
<1> HIDE DEF D, n
<1>9. CASE n = x
  <2>1. n # y
    <3> SUFFICES ASSUME n = y PROVE a = b
      OBVIOUS
    <3>1. Len(a) = Len(b) /\ \A i \in 1..Len(a) : a[i] = b[i]
      BY <1>7, <1>9
    <3> QED BY <3>1, SeqEqual
  <2>2. n < y
    <3> HIDE DEF x, y
    <3> QED BY <1>1, <1>6, <1>8, <2>1
  <2>3. DiffersAt(a, b, n)
    BY <1>6, <1>7, <1>8, <1>9, <2>2, Zenon DEF DiffersAt
  <2> QED BY <1>6, <2>3, PrecedesDiffers, Zenon
<1>10. CASE n # x /\ n = y
  <2>1. n < x
    <3> HIDE DEF x, y
    <3> QED BY <1>1, <1>6, <1>8, <1>10
  <2>2. DiffersAt(b, a, n)
    BY <1>6, <1>7, <1>8, <1>10, <2>1, Zenon DEF DiffersAt
  <2> QED BY <1>6, <2>2, PrecedesDiffers, Zenon
<1>11. CASE n # x /\ n # y
  <2>1. n < x /\ n < y /\ m \in 1..x /\ m \in 1..y /\ ~(m > x) /\ ~(m > y)
    <3> HIDE DEF x, y
    <3> QED BY <1>1, <1>5, <1>6, <1>8, <1>11
  <2>2. a[m] \in Nat /\ b[m] \in Nat /\ a[m] # b[m]
    BY <1>2, <1>5, <2>1, Zenon
  <2>3. CASE a[m] < b[m]
    <3>1. DiffersAt(a, b, n)
      BY <1>6, <1>7, <1>8, <2>1, <2>3, Zenon DEF DiffersAt
    <3> QED BY <1>6, <3>1, PrecedesDiffers, Zenon
  <2>4. CASE b[m] < a[m]
    <3>1. DiffersAt(b, a, n)
      BY <1>6, <1>7, <1>8, <2>1, <2>4, Zenon DEF DiffersAt
    <3> QED BY <1>6, <3>1, PrecedesDiffers, Zenon
  <2> QED BY <2>2, <2>3, <2>4
<1> QED BY <1>9, <1>10, <1>11

LEMMA PrecedesAsymmetric ==
  ASSUME NEW a \in Seq(Nat), NEW b \in Seq(Nat), Precedes(a, b)
  PROVE  ~Precedes(b, a)
<1> SUFFICES ASSUME NEW n \in Nat, NEW m \in Nat, DiffersAt(a, b, n), DiffersAt(b, a, m)
             PROVE  FALSE
  BY PrecedesDiffers, Zenon
<1>1. Len(a) \in Nat /\ Len(b) \in Nat /\ \A i \in 1..Len(a) : a[i] \in Nat
  BY ElementOfSeq
<1>2. \A i \in 1..Len(b) : b[i] \in Nat
  BY ElementOfSeq
<1> DEFINE x == Len(a)
           y == Len(b)
<1>3. /\ x \in Nat /\ y \in Nat
      /\ n <= x /\ n < y /\ (n = x \/ a[n + 1] < b[n + 1]) /\ \A i \in 1..n : a[i] = b[i]
      /\ m <= y /\ m < x /\ (m = y \/ b[m + 1] < a[m + 1]) /\ \A i \in 1..m : b[i] = a[i]
  BY <1>1, Zenon DEF DiffersAt
<1>4. /\ \A i \in 1..x : a[i] \in Nat
      /\ \A i \in 1..y : b[i] \in Nat
  BY <1>1, <1>2
<1> HIDE DEF x, y
<1>5. CASE n < m
  <2>1. n + 1 \in 1..m /\ n + 1 \in 1..x /\ n # x
    BY <1>3, <1>5
  <2>2. a[n + 1] < b[n + 1] /\ b[n + 1] = a[n + 1] /\ a[n + 1] \in Nat
    BY <1>3, <1>4, <2>1, Zenon
  <2> QED BY <2>2
<1>6. CASE m < n
  <2>1. m + 1 \in 1..n /\ m + 1 \in 1..y /\ m # y
    BY <1>3, <1>6
  <2>2. b[m + 1] < a[m + 1] /\ b[m + 1] = a[m + 1] /\ b[m + 1] \in Nat
    BY <1>3, <1>4, <2>1, Zenon
  <2> QED BY <2>2
<1>7. CASE n = m
  <2>1. n + 1 \in 1..x /\ n + 1 \in 1..y /\ n # x /\ m # y
    BY <1>3, <1>7
  <2>2. a[n + 1] < b[n + 1] /\ b[n + 1] < a[n + 1] /\ a[n + 1] \in Nat /\ b[n + 1] \in Nat
    BY <1>3, <1>4, <1>7, <2>1, Zenon
  <2> QED BY <2>2
<1> QED BY <1>5, <1>6, <1>7

LEMMA PrecedesTransitive ==
  ASSUME NEW a \in Seq(Nat), NEW b \in Seq(Nat), NEW c \in Seq(Nat),
         Precedes(a, b), Precedes(b, c)
  PROVE  Precedes(a, c)
<1> DEFINE x == Len(a)
           y == Len(b)
           z == Len(c)
<1>1. PICK n \in Nat : DiffersAt(a, b, n)
  BY PrecedesDiffers, Zenon
<1>2. PICK m \in Nat : DiffersAt(b, c, m)
  BY PrecedesDiffers, Zenon
<1>3. x \in Nat /\ y \in Nat /\ z \in Nat
  OBVIOUS
<1>4. /\ \A i \in 1..x : a[i] \in Nat
      /\ \A i \in 1..y : b[i] \in Nat
      /\ \A i \in 1..z : c[i] \in Nat
  BY ElementOfSeq, Zenon
<1>5. /\ n <= x /\ n < y /\ (n = x \/ a[n + 1] < b[n + 1]) /\ \A i \in 1..n : a[i] = b[i]
      /\ m <= y /\ m < z /\ (m = y \/ b[m + 1] < c[m + 1]) /\ \A i \in 1..m : b[i] = c[i]
  BY <1>1, <1>2, Zenon DEF DiffersAt
<1> HIDE DEF x, y, z
<1>6. CASE n < m
  <2>1. n < z /\ n + 1 \in 1..m /\ \A i \in 1..n : i \in 1..m
    BY <1>3, <1>5, <1>6
  <2>2. b[n + 1] = c[n + 1] /\ \A i \in 1..n : a[i] = c[i]
    BY <1>5, <2>1, Zenon
  <2>3. DiffersAt(a, c, n)
    BY <1>5, <2>1, <2>2, Zenon DEF DiffersAt, x, z
  <2> QED BY <2>3, PrecedesDiffers, Zenon
<1>7. CASE m < n
  <2>1. m <= x /\ m < y /\ m # y /\ m + 1 \in 1..n /\ \A i \in 1..m : i \in 1..n
    BY <1>3, <1>5, <1>7
  <2>2. b[m + 1] < c[m + 1] /\ a[m + 1] = b[m + 1] /\ \A i \in 1..m : a[i] = c[i]
    BY <1>5, <2>1, Zenon
  <2>3. DiffersAt(a, c, m)
    BY <1>5, <2>1, <2>2, Zenon DEF DiffersAt, x, z
  <2> QED BY <2>3, PrecedesDiffers, Zenon
<1>8. CASE m = n
  <2>1. n < z /\ m # y /\ n + 1 \in 1..y /\ n + 1 \in 1..z /\ (n # x => n + 1 \in 1..x)
    BY <1>3, <1>5, <1>8
  <2>2. \A i \in 1..n : a[i] = c[i]
    BY <1>5, <1>8, Zenon
  <2>3. n = x \/ a[n + 1] < c[n + 1]
    <3> SUFFICES ASSUME n # x PROVE a[n + 1] < c[n + 1]
      OBVIOUS
    <3>1. /\ a[n + 1] < b[n + 1] /\ b[n + 1] < c[n + 1]
          /\ a[n + 1] \in Nat /\ b[n + 1] \in Nat /\ c[n + 1] \in Nat
      BY <1>4, <1>5, <1>8, <2>1, Zenon
    <3> QED BY <3>1
  <2>4. DiffersAt(a, c, n)
    BY <1>5, <2>1, <2>2, <2>3, Zenon DEF DiffersAt, x, z
  <2> QED BY <2>4, PrecedesDiffers, Zenon
<1> QED BY <1>6, <1>7, <1>8

(* A strict total order on 1..n has an enumeration.                           *)
Total(R, D) ==
  /\ \A i \in D : <<i, i>> \notin R
  /\ \A i, j \in D : i # j => <<i, j>> \in R \/ <<j, i>> \in R
  /\ \A i, j, k \in D : <<i, j>> \in R /\ <<j, k>> \in R => <<i, k>> \in R

LEMMA Enumeration ==
  ASSUME NEW n \in Nat, NEW R, Total(R, 1..n)
  PROVE  \E p \in Bijection(1..n, 1..n) :
           \A i, j \in 1..n : i < j => <<p[j], p[i]>> \notin R
<1> DEFINE D == 1..n
           upto(i) == {j \in D : <<j, i>> \in R \/ j = i}
           rank == [i \in D |-> Cardinality(upto(i))]
<1>1. IsFiniteSet(D) /\ Cardinality(D) = n
  BY FS_Interval
<1>2. /\ \A i \in D : <<i, i>> \notin R
      /\ \A i, j \in D : i # j => <<i, j>> \in R \/ <<j, i>> \in R
      /\ \A i, j, k \in D : <<i, j>> \in R /\ <<j, k>> \in R => <<i, k>> \in R
  BY Zenon DEF Total
<1>3. ASSUME NEW i \in D
      PROVE  /\ IsFiniteSet(upto(i)) /\ Cardinality(upto(i)) \in 1..n
  <2>1. upto(i) \in SUBSET D /\ {i} \in SUBSET upto(i)
    OBVIOUS
  <2> HIDE DEF D, upto
  <2>2. IsFiniteSet(upto(i)) /\ Cardinality(upto(i)) <= n
    BY <1>1, <2>1, FS_Subset
  <2>3. Cardinality({i}) = 1 /\ Cardinality({i}) <= Cardinality(upto(i))
    BY <2>1, <2>2, FS_Subset, FS_Singleton
  <2>4. Cardinality(upto(i)) \in Nat
    BY <2>2, FS_CardinalityType
  <2> QED BY <2>2, <2>3, <2>4
<1>4. ASSUME NEW i \in D, NEW j \in D, <<i, j>> \in R
      PROVE  Cardinality(upto(i)) < Cardinality(upto(j))
  <2>1. upto(i) \in SUBSET upto(j) /\ j \in upto(j) /\ j \notin upto(i)
    BY <1>2, <1>4
  <2>2. /\ IsFiniteSet(upto(j))
        /\ Cardinality(upto(i)) \in Nat /\ Cardinality(upto(j)) \in Nat
    <3>1. 1..n \subseteq Nat
      OBVIOUS
    <3> HIDE DEF upto, D
    <3> QED BY <1>3, <3>1, Zenon
  <2> HIDE DEF upto, D
  <2>3. Cardinality(upto(i)) <= Cardinality(upto(j)) /\ Cardinality(upto(j)) # Cardinality(upto(i))
    BY <2>1, <2>2, FS_Subset
  <2> QED BY <2>2, <2>3
<1>5. /\ rank \in [D -> D]
      /\ \A i, j \in D : <<i, j>> \in R => rank[i] < rank[j]
  <2> HIDE DEF upto
  <2> QED BY <1>3, <1>4
<1> HIDE DEF rank, upto, D
<1>6. ASSUME NEW i \in D, NEW j \in D, rank[i] = rank[j] PROVE i = j
  <2>1. rank[i] \in Nat /\ rank[j] \in Nat
    BY <1>5 DEF D
  <2>2. ~(rank[i] < rank[j]) /\ ~(rank[j] < rank[i])
    BY <1>6, <2>1
  <2> QED BY <1>2, <1>5, <2>2, Zenon
<1>7. \A k \in D : \E i \in D : rank[i] = k
  <2>1. rank \in Injection(D, D)
    BY <1>5, <1>6 DEF Injection, IsInjective
  <2>2. rank \in Surjection(D, D)
    BY <1>1, <2>1, FS_Injection
  <2> QED BY <2>2, Zenon DEF Surjection
<1> DEFINE p == [k \in D |-> CHOOSE i \in D : rank[i] = k]
<1>8. \A k \in D : p[k] \in D /\ rank[p[k]] = k
  BY <1>7
<1>9. p \in [D -> D]
  BY <1>7
<1> HIDE DEF p
<1>10. p \in Bijection(D, D)
  <2>1. \A i, j \in D : p[i] = p[j] => i = j
    BY <1>8, Zenon
  <2>2. \A i \in D : rank[i] \in D
    BY <1>5
  <2>3. \A i \in D : p[rank[i]] = i
    BY <1>6, <1>8, <2>2, Zenon
  <2> QED BY <1>9, <2>1, <2>2, <2>3 DEF Bijection, Injection, Surjection, IsInjective
<1>11. ASSUME NEW i \in D, NEW j \in D, i < j PROVE <<p[j], p[i]>> \notin R
  <2>1. rank[p[i]] = i /\ rank[p[j]] = j /\ ~(j < i)
    BY <1>8, <1>11 DEF D
  <2> QED BY <1>5, <1>8, <2>1, Zenon
<1> QED BY <1>10, <1>11 DEF D

(* What may be reported: any header, any text of a path.                      *)
Reports == [header : Header, pathBase64 : [bytes : Seq(Byte), canonical : BOOLEAN]]

PathOf(f) == Decode(f.pathBase64)

LEMMA ReportFields ==
  ASSUME NEW f \in Reports
  PROVE  PathOf(f) \in Seq(Nat) /\ f.header \in Seq(Nat)
<1>1. Byte \subseteq Nat
  BY FormatAssumption
<1>2. f.header \in Seq(Byte) /\ PathOf(f) \in Seq(Byte)
  BY HeaderBytes DEF Reports, PathOf, Decode
<1> QED BY <1>1, <1>2, SeqMonotonic

(* Files that are not ordered have the same path and the same header.         *)
LEMMA FileOrder ==
  /\ \A f \in Reports : ~FilePrecedes(f, f)
  /\ \A f, g \in Reports : FilePrecedes(f, g) => ~FilePrecedes(g, f)
  /\ \A f, g \in Reports :
       \/ FilePrecedes(f, g)
       \/ FilePrecedes(g, f)
       \/ PathOf(f) = PathOf(g) /\ f.header = g.header
  /\ \A f, g, h \in Reports : FilePrecedes(f, g) /\ FilePrecedes(g, h) => FilePrecedes(f, h)
  /\ \A f, g, h : PathOf(f) = PathOf(g) /\ f.header = g.header =>
       /\ FilePrecedes(f, h) => FilePrecedes(g, h)
       /\ FilePrecedes(h, f) => FilePrecedes(h, g)
<1>1. \A f, g : FilePrecedes(f, g) <=>
        \/ Precedes(PathOf(f), PathOf(g))
        \/ PathOf(f) = PathOf(g) /\ Precedes(f.header, g.header)
  BY DEF FilePrecedes, PathOf
<1>2. /\ \A a, b \in Seq(Nat) : a # b => Precedes(a, b) \/ Precedes(b, a)
      /\ \A a, b \in Seq(Nat) : Precedes(a, b) => ~Precedes(b, a)
      /\ \A a, b, c \in Seq(Nat) : Precedes(a, b) /\ Precedes(b, c) => Precedes(a, c)
  BY PrecedesTotal, PrecedesAsymmetric, PrecedesTransitive, Zenon
<1>3. \A f \in Reports : PathOf(f) \in Seq(Nat) /\ f.header \in Seq(Nat)
  BY ReportFields, Zenon
<1>4. \A f, g \in Reports : FilePrecedes(f, g) => ~FilePrecedes(g, f)
  BY <1>1, <1>2, <1>3, Zenon
<1>5. \A f, g \in Reports :
        \/ FilePrecedes(f, g)
        \/ FilePrecedes(g, f)
        \/ PathOf(f) = PathOf(g) /\ f.header = g.header
  BY <1>1, <1>2, <1>3, Zenon
<1>6. ASSUME NEW f \in Reports, NEW g \in Reports, NEW h \in Reports,
             FilePrecedes(f, g), FilePrecedes(g, h)
      PROVE  FilePrecedes(f, h)
  <2> DEFINE p == PathOf(f)
             q == PathOf(g)
             r == PathOf(h)
  <2>1. p \in Seq(Nat) /\ q \in Seq(Nat) /\ r \in Seq(Nat)
    BY <1>3, Zenon
  <2>2. /\ Precedes(p, q) \/ (p = q /\ Precedes(f.header, g.header))
        /\ Precedes(q, r) \/ (q = r /\ Precedes(g.header, h.header))
    BY <1>1, <1>6, Zenon
  <2>3. FilePrecedes(f, h) <=> Precedes(p, r) \/ (p = r /\ Precedes(f.header, h.header))
    BY <1>1, Zenon
  <2>4. f.header \in Seq(Nat) /\ g.header \in Seq(Nat) /\ h.header \in Seq(Nat)
    BY <1>3, Zenon
  <2> HIDE DEF p, q, r
  <2>5. CASE Precedes(p, q) /\ Precedes(q, r)
    BY <1>2, <2>1, <2>3, <2>5, Zenon
  <2>6. CASE Precedes(p, q) /\ q = r
    BY <2>3, <2>6, Zenon
  <2>7. CASE p = q /\ Precedes(q, r)
    BY <2>3, <2>7, Zenon
  <2>8. CASE p = q /\ q = r /\ Precedes(f.header, g.header) /\ Precedes(g.header, h.header)
    BY <1>2, <2>3, <2>4, <2>8, Zenon
  <2> QED BY <2>2, <2>5, <2>6, <2>7, <2>8, Zenon
<1>7. \A f \in Reports : ~FilePrecedes(f, f)
  BY <1>4, Zenon
<1>8. ASSUME NEW f, NEW g, NEW h, PathOf(f) = PathOf(g), f.header = g.header
      PROVE  /\ FilePrecedes(f, h) => FilePrecedes(g, h)
             /\ FilePrecedes(h, f) => FilePrecedes(h, g)
  BY <1>1, <1>8, Zenon
<1> QED BY <1>4, <1>5, <1>6, <1>7, <1>8, Zenon

-----------------------------------------------------------------------------
(* The canonical list *)

(* The order that the sort chooses.                                           *)
Sorts(files, p) ==
  /\ p \in Bijection(DOMAIN files, DOMAIN files)
  /\ \A i, j \in DOMAIN files : i < j => ~FilePrecedes(files[p[j]], files[p[i]])

LEMMA SortExists ==
  ASSUME NEW files \in Seq(Reports)
  PROVE  \E p : Sorts(files, p)
<1> DEFINE n == Len(files)
           D == 1..n
           tie(i, j) == ~FilePrecedes(files[i], files[j]) /\ ~FilePrecedes(files[j], files[i])
           R == {q \in D \X D : \/ FilePrecedes(files[q[1]], files[q[2]])
                                \/ tie(q[1], q[2]) /\ q[1] < q[2]}
<1>1. n \in Nat /\ DOMAIN files = D
  BY LenProperties
<1>2. \A i \in D : files[i] \in Reports
  BY ElementOfSeq, Zenon
<1>3. \A i, j \in D : <<i, j>> \in R <=>
        FilePrecedes(files[i], files[j]) \/ (tie(i, j) /\ i < j)
  <2> HIDE DEF D, tie
  <2> QED OBVIOUS
<1>4. \A i, j \in D : tie(i, j) =>
        PathOf(files[i]) = PathOf(files[j]) /\ files[i].header = files[j].header
  BY <1>2, FileOrder, Zenon
<1> HIDE DEF n, R
<1>5. /\ \A i \in D : ~(i < i)
      /\ \A i, j \in D : i # j => i < j \/ j < i
      /\ \A i, j, k \in D : i < j /\ j < k => i < k
  BY <1>1
<1> HIDE DEF D
<1>6. \A i \in D : <<i, i>> \notin R
  BY <1>2, <1>3, <1>5, FileOrder, Zenon
<1>7. \A i, j \in D : i # j => <<i, j>> \in R \/ <<j, i>> \in R
  BY <1>3, <1>5, Zenon
<1>8. ASSUME NEW i \in D, NEW j \in D, NEW k \in D, <<i, j>> \in R, <<j, k>> \in R
      PROVE  <<i, k>> \in R
  <2> DEFINE f == files[i]
             g == files[j]
             h == files[k]
  <2>1. f \in Reports /\ g \in Reports /\ h \in Reports
    BY <1>2, Zenon
  <2>2. /\ FilePrecedes(f, g) \/ (tie(i, j) /\ i < j)
        /\ FilePrecedes(g, h) \/ (tie(j, k) /\ j < k)
    BY <1>3, <1>8, Zenon
  <2>3. /\ tie(i, j) => PathOf(f) = PathOf(g) /\ f.header = g.header
        /\ tie(j, k) => PathOf(g) = PathOf(h) /\ g.header = h.header
    BY <1>4, Zenon
  <2>4. \A x, y, z : PathOf(x) = PathOf(y) /\ x.header = y.header =>
          /\ FilePrecedes(x, z) => FilePrecedes(y, z)
          /\ FilePrecedes(z, x) => FilePrecedes(z, y)
    BY FileOrder, Zenon
  <2>5. CASE FilePrecedes(f, h)
    BY <1>3, <2>5, Zenon
  <2>6. CASE ~FilePrecedes(f, h)
    <3>1. ~(FilePrecedes(f, g) /\ FilePrecedes(g, h))
      BY <2>1, <2>6, FileOrder, Zenon
    <3>2. ~(FilePrecedes(f, g) /\ tie(j, k))
      <4> HIDE DEF f, g, h, tie
      <4> QED BY <2>3, <2>4, <2>6, Zenon
    <3>3. ~(tie(i, j) /\ FilePrecedes(g, h))
      <4> HIDE DEF f, g, h, tie
      <4> QED BY <2>3, <2>4, <2>6, Zenon
    <3>4. tie(i, j) /\ tie(j, k) /\ i < k
      <4> HIDE DEF f, g, h, tie
      <4> QED BY <1>5, <2>2, <3>1, <3>2, <3>3, Zenon
    <3>5. ~FilePrecedes(h, f)
      <4> SUFFICES ASSUME FilePrecedes(h, f) PROVE FALSE
        OBVIOUS
      <4>1. FilePrecedes(h, g)
        <5> HIDE DEF f, g, h, tie
        <5> QED BY <2>3, <2>4, <3>4, Zenon
      <4> QED BY <3>4, <4>1, Zenon
    <3>6. tie(i, k)
      BY <2>6, <3>5, Zenon
    <3> HIDE DEF tie
    <3> QED BY <1>3, <3>4, <3>6, Zenon
  <2> QED BY <2>5, <2>6
<1>9. Total(R, D)
  BY <1>6, <1>7, <1>8, Zenon DEF Total
<1>10. PICK p \in Bijection(D, D) : \A i, j \in D : i < j => <<p[j], p[i]>> \notin R
  BY <1>1, <1>9, Enumeration, Zenon DEF D
<1>11. \A i \in D : p[i] \in D
  BY <1>10, Fun_BijectionProperties
<1>12. \A i, j \in D : i < j => ~FilePrecedes(files[p[j]], files[p[i]])
  BY <1>3, <1>10, <1>11, Zenon
<1> QED BY <1>1, <1>10, <1>12, Zenon DEF Sorts

(* The canonical list holds the same files, in an order in which none comes   *)
(* before one it follows.                                                     *)
LEMMA CanonicalList ==
  ASSUME NEW files \in Seq(Reports)
  PROVE  LET list == CanonicalizeFiles(files) IN
         /\ list \in Seq(Reports) /\ Len(list) = Len(files)
         /\ ToSet(list) = ToSet(files)
         /\ \A i, j \in 1..Len(list) : i < j => ~FilePrecedes(list[j], list[i])
         /\ \E p \in Bijection(1..Len(files), 1..Len(files)) :
              \A i \in 1..Len(files) : list[i] = files[p[i]]
<1> DEFINE n == Len(files)
           p == CHOOSE q : Sorts(files, q)
           list == [i \in DOMAIN files |-> files[p[i]]]
<1>1. n \in Nat /\ DOMAIN files = 1..n
  BY LenProperties
<1>2. Sorts(files, p)
  BY SortExists, Zenon
<1>3. \A q : Sorts(files, q) <=>
        /\ q \in Bijection(DOMAIN files, DOMAIN files)
        /\ \A i, j \in DOMAIN files : i < j => ~FilePrecedes(files[q[j]], files[q[i]])
  BY Zenon DEF Sorts
<1>4. p = CHOOSE q \in Bijection(DOMAIN files, DOMAIN files) :
            \A i, j \in DOMAIN files : i < j => ~FilePrecedes(files[q[j]], files[q[i]])
  BY Zenon DEF Sorts
<1>5. CanonicalizeFiles(files) = list
  <2> DEFINE order == CHOOSE q \in Bijection(DOMAIN files, DOMAIN files) :
                        \A i, j \in DOMAIN files : i < j => ~FilePrecedes(files[q[j]], files[q[i]])
  <2>1. CanonicalizeFiles(files) = [i \in DOMAIN files |-> files[order[i]]]
    BY DEF CanonicalizeFiles
  <2>2. p = order
    BY <1>4, Zenon
  <2> HIDE DEF p, order
  <2> QED BY <2>1, <2>2
<1> HIDE DEF p
<1>6. /\ p \in Bijection(1..n, 1..n)
      /\ \A i, j \in 1..n : i < j => ~FilePrecedes(files[p[j]], files[p[i]])
  BY <1>1, <1>2, <1>3, Zenon
<1>7. \A i \in 1..n : p[i] \in 1..n /\ files[i] \in Reports
  <2>1. p \in [1..n -> 1..n]
    BY <1>6, Fun_BijectionProperties, Zenon
  <2>2. \A i \in 1..n : files[i] \in Reports
    BY ElementOfSeq, Zenon
  <2> HIDE DEF n
  <2> QED BY <2>1, <2>2
<1>8. list \in [1..n -> Reports] /\ \A i \in 1..n : list[i] = files[p[i]]
  <2> HIDE DEF n
  <2> QED BY <1>1, <1>7
<1> HIDE DEF n, list
<1>9. list \in Seq(Reports) /\ Len(list) = n /\ DOMAIN list = 1..n
  BY <1>1, <1>8, SeqDef, LenProperties
<1>10. ToSet(list) = ToSet(files)
  <2>1. \A k \in 1..n : \E i \in 1..n : p[i] = k
    BY <1>6, Zenon DEF Bijection, Surjection
  <2>2. ToSet(list) = {list[i] : i \in 1..n} /\ ToSet(files) = {files[i] : i \in 1..n}
    <3>1. ToSet(list) = {list[i] : i \in DOMAIN list} /\ ToSet(files) = {files[i] : i \in DOMAIN files}
      BY DEF ToSet
    <3> QED BY <1>1, <1>9, <3>1, Zenon
  <2>3. {list[i] : i \in 1..n} = {files[i] : i \in 1..n}
    <3>1. ASSUME NEW i \in 1..n PROVE list[i] \in {files[k] : k \in 1..n}
      <4>1. p[i] \in 1..n /\ list[i] = files[p[i]]
        BY <1>7, <1>8, Zenon
      <4> HIDE DEF list
      <4> QED BY <4>1, Zenon
    <3>2. ASSUME NEW k \in 1..n PROVE files[k] \in {list[i] : i \in 1..n}
      <4>1. PICK i \in 1..n : p[i] = k
        BY <2>1, Zenon
      <4>2. list[i] = files[k]
        BY <1>8, <4>1, Zenon
      <4> QED BY <4>2, Zenon
    <3> QED BY <3>1, <3>2, Zenon
  <2> QED BY <2>2, <2>3, Zenon
<1> QED BY <1>5, <1>6, <1>8, <1>9, <1>10, Zenon DEF n

(* A list of files whose paths' bytes grow strictly.                          *)
StrictlySorted(list) ==
  \A i, j \in 1..Len(list) : i < j => Precedes(PathOf(list[i]), PathOf(list[j]))

LEMMA NeighboursSuffice ==
  ASSUME NEW list \in Seq(Reports),
         \A k \in 2..Len(list) : Precedes(PathOf(list[k - 1]), PathOf(list[k]))
  PROVE  StrictlySorted(list)
<1> DEFINE n == Len(list)
           X == {j \in 1..n : \E i \in 1..n : i < j /\ ~Precedes(PathOf(list[i]), PathOf(list[j]))}
<1>1. n \in Nat
  BY LenProperties
<1>2. \A i \in 1..n : PathOf(list[i]) \in Seq(Nat)
  BY ElementOfSeq, ReportFields, Zenon
<1>3. \A k \in 2..n : Precedes(PathOf(list[k - 1]), PathOf(list[k]))
  OBVIOUS
<1> HIDE DEF n
<1>4. X = {}
  <2> SUFFICES ASSUME X # {} PROVE FALSE
    OBVIOUS
  <2>1. X \subseteq Nat
    BY <1>1
  <2>2. PICK j \in X : \A k \in X : j <= k
    <3> HIDE DEF X
    <3> QED BY <2>1, LeastNat
  <2>3. PICK i \in 1..n : i < j /\ ~Precedes(PathOf(list[i]), PathOf(list[j]))
    OBVIOUS
  <2>4. j \in 1..n
    OBVIOUS
  <2> DEFINE k == j - 1
  <2>5. j \in 2..n /\ k \in 1..n /\ ~(j <= k) /\ (i # k => i < k)
    BY <1>1, <2>3, <2>4
  <2>6. Precedes(PathOf(list[k]), PathOf(list[j]))
    BY <1>3, <2>5, Zenon
  <2> HIDE DEF k
  <2>7. i < k
    BY <2>3, <2>5, <2>6
  <2>8. k \notin X
    BY <2>2, <2>5, Zenon
  <2>9. Precedes(PathOf(list[i]), PathOf(list[k]))
    BY <2>5, <2>7, <2>8, Zenon
  <2>10. Precedes(PathOf(list[i]), PathOf(list[j]))
    <3>1. /\ PathOf(list[i]) \in Seq(Nat) /\ PathOf(list[j]) \in Seq(Nat)
          /\ PathOf(list[k]) \in Seq(Nat)
      BY <1>2, <2>4, <2>5, Zenon
    <3> QED BY <2>6, <2>9, <3>1, PrecedesTransitive, Zenon
  <2> QED BY <2>3, <2>10
<1> QED BY <1>4 DEF StrictlySorted, n

(* A list that is not refused is put in strict order.                         *)
LEMMA ManifestSorted ==
  ASSUME NEW files \in Seq(Reports), Canonicalizes(files)
  PROVE  /\ \A k \in 2..Len(CanonicalizeFiles(files)) :
              Precedes(PathOf(CanonicalizeFiles(files)[k - 1]), PathOf(CanonicalizeFiles(files)[k]))
         /\ StrictlySorted(CanonicalizeFiles(files))
<1> DEFINE list == CanonicalizeFiles(files)
           n == Len(files)
<1>1. /\ list \in Seq(Reports) /\ Len(list) = n
      /\ \A i, j \in 1..Len(list) : i < j => ~FilePrecedes(list[j], list[i])
      /\ \E p \in Bijection(1..n, 1..n) : \A i \in 1..n : list[i] = files[p[i]]
  BY CanonicalList, Zenon
<1>2. PICK p \in Bijection(1..n, 1..n) : \A i \in 1..n : list[i] = files[p[i]]
  BY <1>1, Zenon
<1>3. n \in Nat /\ DOMAIN files = 1..n /\ DOMAIN list = 1..n
  BY <1>1, LenProperties
<1>4. \A i \in 1..n : p[i] \in 1..n
  <2>1. p \in [1..n -> 1..n]
    BY Zenon DEF Bijection, Injection
  <2> HIDE DEF n
  <2> QED BY <2>1
<1>5. /\ \A k \in 1..n : CanonicalBase64(files[k].pathBase64)
      /\ \A k \in 1..n : k > 1 => list[k - 1].pathBase64 # list[k].pathBase64
  BY <1>3, Zenon DEF Canonicalizes, FitsSchema
<1> HIDE DEF list, n
<1>6. \A i \in 1..n : list[i].pathBase64 = Encode(PathOf(list[i]))
  <2> SUFFICES ASSUME NEW i \in 1..n PROVE list[i].pathBase64 = Encode(PathOf(list[i]))
    OBVIOUS
  <2>1. list[i] = files[p[i]] /\ CanonicalBase64(files[p[i]].pathBase64)
    BY <1>2, <1>4, <1>5, Zenon
  <2>2. CanonicalBase64(list[i].pathBase64)
    BY <2>1, Zenon
  <2> QED BY <2>2, Zenon DEF CanonicalBase64, PathOf
<1>7. \A i \in 1..n : list[i] \in Reports /\ PathOf(list[i]) \in Seq(Nat)
  BY <1>1, ElementOfSeq, ReportFields, Zenon
<1>8. ASSUME NEW k \in 2..n PROVE Precedes(PathOf(list[k - 1]), PathOf(list[k]))
  <2>1. k \in 1..n /\ k - 1 \in 1..n /\ k > 1 /\ k - 1 < k
    BY <1>3
  <2>2. PathOf(list[k - 1]) # PathOf(list[k])
    BY <1>5, <1>6, <2>1, Zenon
  <2>3. ~FilePrecedes(list[k], list[k - 1])
    BY <1>1, <2>1, Zenon
  <2>4. ~Precedes(PathOf(list[k]), PathOf(list[k - 1]))
    BY <2>3, Zenon DEF FilePrecedes, PathOf
  <2> QED BY <1>7, <2>1, <2>2, <2>4, PrecedesTotal, Zenon
<1>9. StrictlySorted(list)
  BY <1>1, <1>8, NeighboursSuffice, Zenon
<1> QED BY <1>1, <1>8, <1>9, Zenon DEF list

(* A strictly sorted list is determined by its elements: where one of two     *)
(* such lists has an element, the other has it too.                           *)
LEMMA SortedPrefix ==
  ASSUME NEW s \in Seq(Reports), NEW t \in Seq(Reports),
         StrictlySorted(s), StrictlySorted(t), ToSet(s) = ToSet(t)
  PROVE  \A i \in 1..Len(s) : i \in 1..Len(t) /\ s[i] = t[i]
<1> DEFINE x == Len(s)
           y == Len(t)
           X == {i \in 1..x : ~(i \in 1..y /\ s[i] = t[i])}
<1>1. x \in Nat /\ y \in Nat /\ DOMAIN s = 1..x /\ DOMAIN t = 1..y
  BY LenProperties
<1>2. /\ \A i \in 1..x : PathOf(s[i]) \in Seq(Nat)
      /\ \A i \in 1..y : PathOf(t[i]) \in Seq(Nat)
  BY ElementOfSeq, ReportFields, Zenon
<1>3. /\ \A i, j \in 1..x : i < j => Precedes(PathOf(s[i]), PathOf(s[j]))
      /\ \A i, j \in 1..y : i < j => Precedes(PathOf(t[i]), PathOf(t[j]))
  BY Zenon DEF StrictlySorted
<1>4. \A a, b \in Seq(Nat) : Precedes(a, b) => ~Precedes(b, a)
  BY PrecedesAsymmetric, Zenon
<1>5. /\ \A i \in 1..x : \E j \in 1..y : s[i] = t[j]
      /\ \A j \in 1..y : \E i \in 1..x : t[j] = s[i]
  <2>1. {s[i] : i \in DOMAIN s} = {t[j] : j \in DOMAIN t}
    BY Zenon DEF ToSet
  <2> HIDE DEF x, y
  <2>2. {s[i] : i \in 1..x} = {t[j] : j \in 1..y}
    BY <1>1, <2>1, Zenon
  <2>3. \A i \in 1..x : s[i] \in {t[j] : j \in 1..y}
    BY <2>2, Zenon
  <2>4. \A j \in 1..y : t[j] \in {s[i] : i \in 1..x}
    BY <2>2, Zenon
  <2> QED BY <2>3, <2>4, Zenon
<1> HIDE DEF x, y
<1>6. X = {}
  <2> SUFFICES ASSUME X # {} PROVE FALSE
    OBVIOUS
  <2>1. X \subseteq Nat
    BY <1>1
  <2>2. PICK m \in X : \A i \in X : m <= i
    <3> HIDE DEF X
    <3> QED BY <2>1, LeastNat
  <2>3. m \in 1..x /\ ~(m \in 1..y /\ s[m] = t[m])
    OBVIOUS
  <2>4. \A i \in 1..x : i < m => i \in 1..y /\ s[i] = t[i]
    <3> SUFFICES ASSUME NEW i \in 1..x, i < m PROVE i \notin X
      OBVIOUS
    <3>1. ~(m <= i)
      BY <1>1, <2>3
    <3> HIDE DEF X
    <3> QED BY <2>2, <3>1, Zenon
  <2> HIDE DEF X
  <2>5. PICK q \in 1..y : s[m] = t[q]
    BY <1>5, <2>3, Zenon
  <2>6. ~(q < m)
    <3> SUFFICES ASSUME q < m PROVE FALSE
      OBVIOUS
    <3>1. q \in 1..x
      BY <1>1, <2>3
    <3>2. s[q] = t[q] /\ Precedes(PathOf(s[q]), PathOf(s[m]))
      BY <1>3, <2>3, <2>4, <3>1, Zenon
    <3>3. Precedes(PathOf(s[m]), PathOf(s[m])) /\ PathOf(s[m]) \in Seq(Nat)
      BY <1>2, <2>3, <2>5, <3>2, Zenon
    <3> QED BY <1>4, <3>3, Zenon
  <2>7. m \in 1..y /\ m < q
    <3>1. q # m
      BY <2>3, <2>5
    <3> QED BY <1>1, <2>3, <2>6, <3>1
  <2>8. PICK r \in 1..x : t[m] = s[r]
    BY <1>5, <2>7, Zenon
  <2>9. ~(r < m)
    <3> SUFFICES ASSUME r < m PROVE FALSE
      OBVIOUS
    <3>1. r \in 1..y /\ s[r] = t[r]
      BY <2>4, Zenon
    <3>2. Precedes(PathOf(t[r]), PathOf(t[m]))
      BY <1>3, <2>7, <3>1, Zenon
    <3>3. Precedes(PathOf(t[m]), PathOf(t[m])) /\ PathOf(t[m]) \in Seq(Nat)
      BY <1>2, <2>7, <2>8, <3>1, <3>2, Zenon
    <3> QED BY <1>4, <3>3, Zenon
  <2>10. m < r
    <3>1. r # m
      BY <2>3, <2>7, <2>8
    <3> QED BY <1>1, <2>3, <2>9, <3>1
  <2>11. Precedes(PathOf(t[m]), PathOf(s[m])) /\ Precedes(PathOf(s[m]), PathOf(t[m]))
    BY <1>3, <2>3, <2>5, <2>7, <2>8, <2>10, Zenon
  <2> QED BY <1>2, <1>4, <2>3, <2>7, <2>11, Zenon
<1> QED BY <1>6 DEF x, y

(* However two validators list the same changes, and whichever order the sort *)
(* gives to files it cannot tell apart, they get the same manifest: a second  *)
(* validation of a change has the digest of the first (crf.ts:152-173,        *)
(* exact-revalidator.ts:48).                                                  *)
THEOREM OneManifest ==
  ASSUME NEW files \in Seq(Reports), NEW others \in Seq(Reports),
         Canonicalizes(files), Canonicalizes(others), ToSet(files) = ToSet(others)
  PROVE  CanonicalizeFiles(files) = CanonicalizeFiles(others)
<1> DEFINE s == CanonicalizeFiles(files)
           t == CanonicalizeFiles(others)
<1>1. s \in Seq(Reports) /\ t \in Seq(Reports) /\ ToSet(s) = ToSet(t)
  BY CanonicalList, Zenon
<1>2. StrictlySorted(s) /\ StrictlySorted(t)
  BY ManifestSorted, Zenon
<1> HIDE DEF s, t
<1>3. /\ \A i \in 1..Len(s) : i \in 1..Len(t) /\ s[i] = t[i]
      /\ \A i \in 1..Len(t) : i \in 1..Len(s)
  BY <1>1, <1>2, SortedPrefix, Zenon
<1>4. Len(s) \in Nat /\ Len(t) \in Nat
  BY <1>1, LenProperties
<1>5. Len(s) = Len(t)
  <2> DEFINE x == Len(s)
             y == Len(t)
  <2>1. x \in Nat /\ y \in Nat /\ (\A i \in 1..x : i \in 1..y) /\ (\A i \in 1..y : i \in 1..x)
    BY <1>3, <1>4, Zenon
  <2> HIDE DEF x, y
  <2>2. (x # 0 => x \in 1..x) /\ (y # 0 => y \in 1..y)
    BY <2>1
  <2>3. (x # 0 => x \in 1..y) /\ (y # 0 => y \in 1..x)
    BY <2>1, <2>2, Zenon
  <2>4. x = y
    BY <2>1, <2>3
  <2> QED BY <2>4 DEF x, y
<1>6. s = t
  BY <1>1, <1>3, <1>5, SeqEqual
<1> QED BY <1>6 DEF s, t

LEMMA ManifestsHold == CanonicalManifests
<1>1. MaxFiles \in Nat /\ MaxPath \in Nat
  BY FormatAssumption
<1>2. Paths \subseteq Seq(Byte)
  BY <1>1, SeqOfIsSeq DEF Paths
<1>3. \A files \in SeqOf(Reported, MaxFiles) : files \in Seq(Reports)
  <2>1. Reported \subseteq Reports
    BY <1>2 DEF Reported, Reports
  <2>2. \A files \in SeqOf(Reported, MaxFiles) : files \in Seq(Reported)
    BY <1>1, SeqOfIsSeq, Zenon
  <2> QED BY <2>1, <2>2, SeqMonotonic
<1>4. \A files \in SeqOf(Printable, MaxFiles) : files \in Seq(Changes) /\ files \in Seq(Reports)
  <2>1. Printable \subseteq Changes /\ Printable \subseteq Reports
    <3> DEFINE T == {Encode(p) : p \in Paths \ {<<>>}}
               U == {Encode(p) : p \in Seq(Byte) \ {<<>>}}
               V == [bytes : Seq(Byte), canonical : BOOLEAN]
    <3>1. T \subseteq U
      BY <1>2
    <3>2. T \subseteq V
      <4> SUFFICES ASSUME NEW p \in Paths \ {<<>>} PROVE Encode(p) \in V
        OBVIOUS
      <4>1. p \in Seq(Byte) /\ TRUE \in BOOLEAN
        BY <1>2
      <4> QED BY <4>1 DEF Encode
    <3> HIDE DEF T, U, V
    <3>3. [header : Header, pathBase64 : T] \subseteq [header : Header, pathBase64 : U]
      BY <3>1
    <3>4. [header : Header, pathBase64 : T] \subseteq [header : Header, pathBase64 : V]
      BY <3>2
    <3> QED BY <3>3, <3>4 DEF Printable, Changes, Reports, T, U, V
  <2>2. \A files \in SeqOf(Printable, MaxFiles) : files \in Seq(Printable)
    BY <1>1, SeqOfIsSeq, Zenon
  <2> QED BY <2>1, <2>2, SeqMonotonic
<1>5. ASSUME NEW files \in SeqOf(Reported, MaxFiles), Canonicalizes(files)
      PROVE  LET manifest == CanonicalizeFiles(files) IN
             /\ ToSet(manifest) = ToSet(files) /\ Len(manifest) = Len(files)
             /\ \A k \in DOMAIN manifest : k > 1 =>
                  Precedes(Decode(manifest[k - 1].pathBase64), Decode(manifest[k].pathBase64))
  <2> DEFINE list == CanonicalizeFiles(files)
  <2>1. files \in Seq(Reports)
    BY <1>3, Zenon
  <2>2. list \in Seq(Reports) /\ ToSet(list) = ToSet(files) /\ Len(list) = Len(files)
    BY <2>1, CanonicalList, Zenon
  <2>3. \A k \in 2..Len(list) : Precedes(PathOf(list[k - 1]), PathOf(list[k]))
    BY <1>5, <2>1, ManifestSorted, Zenon
  <2> HIDE DEF list
  <2>4. \A k \in DOMAIN list : k > 1 => k \in 2..Len(list)
    BY <2>2
  <2>5. \A k \in DOMAIN list : k > 1 => Precedes(Decode(list[k - 1].pathBase64), Decode(list[k].pathBase64))
    BY <2>3, <2>4, Zenon DEF PathOf
  <2> QED BY <2>2, <2>5, Zenon DEF list
<1>6. ASSUME NEW files \in SeqOf(Printable, MaxFiles)
      PROVE  Canonicalizes(ParseRawDiff(PrintRawDiff(files))) <=>
               /\ DistinctPaths(files)
               /\ \A k \in DOMAIN files : files[k].header \in FullHeader
  <2> DEFINE list == CanonicalizeFiles(files)
             n == Len(files)
  <2>1. files \in Seq(Changes) /\ files \in Seq(Reports)
    BY <1>4, Zenon
  <2>2. ParseRawDiff(PrintRawDiff(files)) = files
    BY <1>1, <2>1, ParseOfPrint, Zenon
  <2>3. /\ list \in Seq(Reports) /\ Len(list) = n
        /\ \E p \in Bijection(1..n, 1..n) : \A i \in 1..n : list[i] = files[p[i]]
    BY <2>1, CanonicalList, Zenon
  <2>4. PICK p \in Bijection(1..n, 1..n) : \A i \in 1..n : list[i] = files[p[i]]
    BY <2>3, Zenon
  <2>5. n \in Nat /\ DOMAIN files = 1..n /\ DOMAIN list = 1..n
    BY <2>1, <2>3, LenProperties, Zenon
  <2>6. p \in [1..n -> 1..n] /\ \A i, j \in DOMAIN p : p[i] = p[j] => i = j
    BY Zenon DEF Bijection, Injection, IsInjective
  <2>s. \A t \in 1..n : \E i \in 1..n : p[i] = t
    BY Zenon DEF Bijection, Surjection
  <2>o. Canonicalizes(files) => StrictlySorted(list)
    BY <2>1, ManifestSorted, Zenon
  <2>c. Canonicalizes(files) <=>
          /\ \A k \in 1..n : FitsSchema(files[k])
          /\ \A k \in 1..n : k > 1 => list[k - 1].pathBase64 # list[k].pathBase64
    BY <2>5, Zenon DEF Canonicalizes
  <2> HIDE DEF list, n
  <2>7. \A i \in 1..n : p[i] \in 1..n
    BY <2>6
  <2>8. \A i, j \in 1..n : p[i] = p[j] => i = j
    BY <2>6
  <2>9. ASSUME NEW k \in 1..n PROVE FitsSchema(files[k]) <=> files[k].header \in FullHeader
    <3>1. files[k] \in Changes
      BY <2>1, ElementOfSeq, Zenon DEF n
    <3>2. CanonicalBase64(files[k].pathBase64)
      BY <3>1, ChangeFields DEF CanonicalBase64
    <3> QED BY <3>2, Zenon DEF FitsSchema
  <2>10. ASSUME DistinctPaths(files), NEW k \in 1..n, k > 1
         PROVE  list[k - 1].pathBase64 # list[k].pathBase64
    <3> SUFFICES ASSUME list[k - 1].pathBase64 = list[k].pathBase64 PROVE FALSE
      OBVIOUS
    <3>1. k - 1 \in 1..n /\ k - 1 # k
      BY <2>5, <2>10
    <3>2. files[p[k - 1]].pathBase64 = files[p[k]].pathBase64
      BY <2>4, <3>1, Zenon
    <3>3. p[k - 1] = p[k]
      BY <2>5, <2>7, <2>10, <3>1, <3>2, Zenon DEF DistinctPaths
    <3> QED BY <2>8, <3>1, <3>3, Zenon
  <2>11. ASSUME StrictlySorted(list), NEW i \in 1..n, NEW j \in 1..n,
                PathOf(files[i]) = PathOf(files[j])
         PROVE  i = j
    <3>1. PICK x \in 1..n : p[x] = i
      BY <2>s, Zenon
    <3>2. PICK y \in 1..n : p[y] = j
      BY <2>s, Zenon
    <3>3. PathOf(list[x]) = PathOf(list[y])
      BY <2>4, <2>11, <3>1, <3>2, Zenon
    <3>4. PathOf(list[x]) \in Seq(Nat)
      <4>1. list[x] \in Reports
        BY <2>3, <2>5, ElementOfSeq
      <4> QED BY <4>1, ReportFields, Zenon
    <3>5. \A a, b \in 1..n : a < b => Precedes(PathOf(list[a]), PathOf(list[b]))
      BY <2>3, <2>11, Zenon DEF StrictlySorted
    <3>6. ~(x < y) /\ ~(y < x)
      BY <3>3, <3>4, <3>5, PrecedesAsymmetric, Zenon
    <3>7. x = y
      BY <2>5, <3>6
    <3> QED BY <3>1, <3>2, <3>7, Zenon
  <2>12. Canonicalizes(files) => DistinctPaths(files)
    <3> SUFFICES ASSUME Canonicalizes(files), NEW i \in 1..n, NEW j \in 1..n,
                        Decode(files[i].pathBase64) = Decode(files[j].pathBase64)
                 PROVE  i = j
      BY <2>5, Zenon DEF DistinctPaths
    <3> QED BY <2>o, <2>11, Zenon DEF PathOf
  <2>13. Canonicalizes(files) <=>
           DistinctPaths(files) /\ \A k \in 1..n : files[k].header \in FullHeader
    BY <2>c, <2>9, <2>10, <2>12, Zenon
  <2> QED BY <2>2, <2>5, <2>13, Zenon
<1> QED BY <1>5, <1>6, Zenon DEF CanonicalManifests

(* Every stored review has a canonical manifest, and the list the parser made *)
(* is refused only for a repeated path or a blob that is not a full id.       *)
THEOREM ManifestIsCanonicalAlways == Spec => []ManifestIsCanonical
<1>1. ManifestIsCanonical
  BY ManifestsHold, Zenon DEF ManifestIsCanonical
<1> QED BY <1>1, PTL
=============================================================================
