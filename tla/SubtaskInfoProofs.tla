-------------------------- MODULE SubtaskInfoProofs --------------------------
(***************************************************************************)
(* Lemmas about the operators of SubtaskInfo, for the proofs of the        *)
(* modules that are built from them: induction and totals, the number of   *)
(* subtasks, the chunks, and what subtasks.py makes of a row.              *)
(***************************************************************************)
EXTENDS SubtaskInfo, FiniteSetsExt, SequenceTheorems, FiniteSetTheorems, WellFoundedInduction,
        TLAPS

-----------------------------------------------------------------------------
(***************************************************************************)
(* Induction, for sets of naturals and sets of subsets.                    *)
(***************************************************************************)
\* Every set of naturals that is not empty has a least element.
LEMMA Least ==
  ASSUME NEW T \in SUBSET Nat, T # {}
  PROVE \E n \in T : \A m \in T : n <= m
<1> DEFINE R == OpToRel(<, Nat)
<1>1. IsWellFoundedOn(R, Nat)
  BY NatLessThanWellFounded
<1>2. \E x \in T : \A y \in T : ~(<<y, x>> \in R)
  <2> HIDE DEF R
  <2> QED BY <1>1, WFMin, Zenon
<1>3. \A x, y \in Nat : <<y, x>> \in R <=> y < x
  BY DEF OpToRel
<1> HIDE DEF R
<1>4. PICK n \in T : \A y \in T : ~(<<y, n>> \in R)
  BY <1>2
<1>5. \A m \in T : ~(m < n)
  BY <1>3, <1>4
<1>6. \A m \in T : n <= m
  BY <1>5
<1> QED BY <1>6

LEMMA Induct ==
  ASSUME NEW T, 0 \in T, \A n \in Nat : n \in T => n + 1 \in T
  PROVE  Nat \subseteq T
<1> SUFFICES ASSUME NEW k \in Nat, k \notin T PROVE FALSE
  OBVIOUS
<1>1. PICK n \in Nat \ T : \A m \in Nat \ T : n <= m
  BY Least
<1>2. n # 0 /\ n - 1 \in Nat /\ ~(n <= n - 1) /\ (n - 1) + 1 = n
  BY <1>1
<1>3. n - 1 \in T
  BY <1>1, <1>2
<1> QED BY <1>1, <1>2, <1>3

LEMMA InductOnSubsets ==
  ASSUME NEW S, IsFiniteSet(S), NEW T, {} \in T,
         \A s \in SUBSET S, x \in S : s \in T /\ x \notin s => s \cup {x} \in T
  PROVE  SUBSET S \subseteq T
<1> DEFINE N == {n \in Nat : \A s \in SUBSET S : Cardinality(s) = n => s \in T}
<1>1. \A s \in SUBSET S : IsFiniteSet(s) /\ Cardinality(s) \in Nat
  BY FS_Subset, FS_CardinalityType
<1>2. 0 \in N
  BY <1>1, FS_EmptySet
<1>3. ASSUME NEW n \in Nat, n \in N PROVE n + 1 \in N
  <2> SUFFICES ASSUME NEW s \in SUBSET S, Cardinality(s) = n + 1 PROVE s \in T
    OBVIOUS
  <2>1. PICK x : x \in s
    BY <1>1, FS_EmptySet
  <2>2. IsFiniteSet(s) /\ Cardinality(s \ {x}) = Cardinality(s) - 1
    BY <1>1, <2>1, FS_RemoveElement
  <2>3. Cardinality(s \ {x}) = n
    BY <2>2
  <2>4. s \ {x} \in T /\ x \notin s \ {x} /\ (s \ {x}) \cup {x} = s
    BY <1>3, <2>1, <2>3
  <2> QED BY <2>1, <2>4
<1> HIDE DEF N
<1>4. Nat \subseteq N
  BY <1>2, <1>3, Induct
<1> QED BY <1>1, <1>4 DEF N

(***************************************************************************)
(* Totals.                                                                 *)
(***************************************************************************)
Total(f, S) == MapThenSumSet(LAMBDA x : f[x], S)

Counts(f, S) == \A x \in S : f[x] \in Nat

\* As many elements as Total(f, S) adds up to.
Units(f, S) == {u \in S \X Nat : u[2] \in 1 .. f[u[1]]}

LEMMA UnitsAdded ==
  ASSUME NEW f, NEW S, NEW x, x \notin S, f[x] \in Nat, IsFiniteSet(Units(f, S))
  PROVE  /\ IsFiniteSet(Units(f, S \cup {x}))
         /\ Cardinality(Units(f, S \cup {x})) = Cardinality(Units(f, S)) + f[x]
<1> DEFINE U == {x} \X (1 .. f[x])
<1>1. Units(f, S \cup {x}) = Units(f, S) \cup U
  BY DEF Units
<1>2. Units(f, S) \cap U = {}
  BY DEF Units
<1>3. IsFiniteSet(U) /\ Cardinality(U) = f[x]
  <2>1. IsFiniteSet({x}) /\ Cardinality({x}) = 1
    BY FS_Singleton
  <2>2. IsFiniteSet(1 .. f[x]) /\ Cardinality(1 .. f[x]) = f[x]
    BY FS_Interval
  <2>3. IsFiniteSet(U) /\ Cardinality(U) = 1 * f[x]
    BY <2>1, <2>2, FS_Product
  <2> QED BY <2>3
<1> HIDE DEF U
<1>4. /\ IsFiniteSet(Units(f, S) \cup U)
      /\ Cardinality(Units(f, S) \cup U) = Cardinality(Units(f, S)) + Cardinality(U) - 0
  BY <1>2, <1>3, FS_Union, FS_EmptySet
<1>5. Cardinality(Units(f, S)) \in Nat
  BY FS_CardinalityType
<1>6. IsFiniteSet(Units(f, S \cup {x}))
  BY <1>1, <1>4
<1>7. Cardinality(Units(f, S \cup {x})) = Cardinality(Units(f, S)) + f[x] - 0
  BY <1>1, <1>3, <1>4
<1> QED BY <1>5, <1>6, <1>7

LEMMA UnitsFinite ==
  ASSUME NEW f, NEW S, IsFiniteSet(S), Counts(f, S)
  PROVE  \A s \in SUBSET S : IsFiniteSet(Units(f, s)) /\ Cardinality(Units(f, s)) \in Nat
<1> DEFINE T == {s \in SUBSET S : IsFiniteSet(Units(f, s))}
<1>1. {} \in T
  BY FS_EmptySet DEF Units
<1>2. \A s \in SUBSET S, x \in S : s \in T /\ x \notin s => s \cup {x} \in T
  BY UnitsAdded DEF Counts
<1> HIDE DEF T
<1>3. SUBSET S \subseteq T
  BY <1>1, <1>2, InductOnSubsets
<1> QED BY <1>3, FS_CardinalityType DEF T

\* The fold over a set adds up to the number of units.
LEMMA TotalIsCount ==
  ASSUME NEW f, NEW S, IsFiniteSet(S), Counts(f, S)
  PROVE  Total(f, S) = Cardinality(Units(f, S))
<1> DEFINE First(s) == CHOOSE x \in s : TRUE
           Next(g) == [s \in SUBSET S |-> IF s = {} THEN 0 ELSE f[First(s)] + g[s \ {First(s)}]]
           iter == CHOOSE g : g = Next(g)
           count == [s \in SUBSET S |-> Cardinality(Units(f, s))]
<1>1. Total(f, S) = iter[S]
  BY DEF Total, MapThenSumSet, MapThenFoldSet
<1>2. ASSUME NEW s \in SUBSET S, s # {}
      PROVE  /\ First(s) \in s /\ f[First(s)] \in Nat
             /\ count[s] = f[First(s)] + count[s \ {First(s)}]
  <2> PICK x : x = First(s)
    OBVIOUS
  <2>1. x \in s /\ f[x] \in Nat
    BY <1>2 DEF Counts
  <2>2. /\ IsFiniteSet(Units(f, s \ {x})) /\ Cardinality(Units(f, s \ {x})) \in Nat
        /\ (s \ {x}) \cup {x} = s
    BY <2>1, UnitsFinite
  <2>3. Cardinality(Units(f, (s \ {x}) \cup {x})) = Cardinality(Units(f, s \ {x})) + f[x]
    <3>1. x \notin s \ {x}
      OBVIOUS
    <3> QED BY <2>1, <2>2, <3>1, UnitsAdded
  <2>4. Cardinality(Units(f, s)) = Cardinality(Units(f, s \ {x})) + f[x]
    BY <2>2, <2>3
  <2> QED BY <2>1, <2>2, <2>4
<1>3. count[{}] = 0
  BY FS_EmptySet DEF Units
<1>4. count = Next(count)
  BY <1>2, <1>3
<1>5. iter = Next(iter)
  <2>1. \E g : g = Next(g)
    BY <1>4
  <2> HIDE DEF Next
  <2> QED BY <2>1
<1> HIDE DEF iter, count
<1> DEFINE N == {n \in Nat : \A s \in SUBSET S : Cardinality(s) = n => iter[s] = count[s]}
<1>6. \A s \in SUBSET S : IsFiniteSet(s) /\ Cardinality(s) \in Nat
  BY FS_Subset, FS_CardinalityType
<1>7. 0 \in N
  <2>1. iter[{}] = Next(iter)[{}]
    BY <1>5
  <2>2. iter[{}] = count[{}]
    BY <1>3, <2>1
  <2> QED BY <1>6, <2>2, FS_EmptySet
<1>8. ASSUME NEW n \in Nat, n \in N PROVE n + 1 \in N
  <2> SUFFICES ASSUME NEW s \in SUBSET S, Cardinality(s) = n + 1 PROVE iter[s] = count[s]
    OBVIOUS
  <2> PICK x : x = First(s)
    OBVIOUS
  <2>1. s # {}
    BY FS_EmptySet
  <2>2. x \in s /\ count[s] = f[x] + count[s \ {x}]
    BY <1>2, <2>1
  <2>3. Cardinality(s \ {x}) = n
    <3>1. IsFiniteSet(s) /\ Cardinality(s \ {x}) = Cardinality(s) - 1
      BY <1>6, <2>2, FS_RemoveElement
    <3> QED BY <3>1
  <2>4. iter[s \ {x}] = count[s \ {x}]
    BY <1>8, <2>3
  <2>5. iter[s] = Next(iter)[s]
    BY <1>5
  <2> QED BY <2>1, <2>2, <2>4, <2>5
<1> HIDE DEF N
<1>9. Nat \subseteq N
  BY <1>7, <1>8, Induct
<1>10. iter[S] = count[S]
  BY <1>6, <1>9 DEF N
<1> QED BY <1>1, <1>10 DEF count

LEMMA TotalTyped ==
  ASSUME NEW f, NEW S, IsFiniteSet(S), Counts(f, S)
  PROVE  Total(f, S) \in Nat
BY TotalIsCount, UnitsFinite

LEMMA TotalAdded ==
  ASSUME NEW f, NEW S, IsFiniteSet(S), NEW x, x \notin S, Counts(f, S \cup {x})
  PROVE  Total(f, S \cup {x}) = Total(f, S) + f[x]
<1>1. IsFiniteSet(S \cup {x}) /\ Counts(f, S) /\ f[x] \in Nat
  BY FS_AddElement DEF Counts
<1>2. IsFiniteSet(Units(f, S))
  BY <1>1, UnitsFinite
<1>3. Cardinality(Units(f, S \cup {x})) = Cardinality(Units(f, S)) + f[x]
  BY <1>1, <1>2, UnitsAdded
<1>4. Total(f, S) = Cardinality(Units(f, S))
  BY <1>1, TotalIsCount
<1>5. Total(f, S \cup {x}) = Cardinality(Units(f, S \cup {x}))
  BY <1>1, TotalIsCount
<1> QED BY <1>3, <1>4, <1>5

LEMMA TotalSame ==
  ASSUME NEW f, NEW g, NEW S, IsFiniteSet(S), Counts(f, S), \A x \in S : g[x] = f[x]
  PROVE  Total(g, S) = Total(f, S)
<1>1. Counts(g, S) /\ Units(g, S) = Units(f, S)
  BY DEF Counts, Units
<1> QED BY <1>1, TotalIsCount

LEMMA TotalOfNone ==
  ASSUME NEW f, NEW S, IsFiniteSet(S), \A x \in S : f[x] = 0
  PROVE  Total(f, S) = 0
<1>1. Counts(f, S) /\ Units(f, S) = {}
  BY DEF Counts, Units
<1> QED BY <1>1, TotalIsCount, FS_EmptySet

\* What a change in one place does to the total.
LEMMA TotalChanged ==
  ASSUME NEW f, NEW g, NEW S, IsFiniteSet(S), Counts(f, S), NEW x \in S, g[x] \in Nat,
         \A y \in S \ {x} : g[y] = f[y]
  PROVE  Total(g, S) + f[x] = Total(f, S) + g[x]
<1>1. IsFiniteSet(S \ {x}) /\ x \notin S \ {x} /\ (S \ {x}) \cup {x} = S
  BY FS_RemoveElement
<1>2. Counts(g, S) /\ Counts(f, S \ {x}) /\ f[x] \in Nat
  BY DEF Counts
<1>3. Total(g, S \ {x}) = Total(f, S \ {x}) /\ Total(f, S \ {x}) \in Nat
  BY <1>1, <1>2, TotalSame, TotalTyped
<1>4. Total(f, S) = Total(f, S \ {x}) + f[x] /\ Total(g, S) = Total(g, S \ {x}) + g[x]
  BY <1>1, <1>2, TotalAdded
<1> QED BY <1>2, <1>3, <1>4

-----------------------------------------------------------------------------
(***************************************************************************)
(* Arithmetic.                                                             *)
(***************************************************************************)
LEMMA ProductGrows ==
  ASSUME NEW p \in Nat, NEW a \in Nat, NEW b \in Nat, a <= b
  PROVE  p * a <= p * b
<1>1. PICK c \in Nat : b = a + c
  <2>1. b - a \in Nat /\ b = a + (b - a)
    OBVIOUS
  <2> QED BY <2>1
<1>2. p * b = p * a + p * c
  BY <1>1
<1>3. p * c \in Nat /\ p * a \in Nat
  OBVIOUS
<1> QED BY <1>2, <1>3

\* _get_number_of_subtasks rounds up: one chunk less would not hold the items.
LEMMA NumberRoundsUp ==
  ASSUME NEW total \in Nat \ {0}, NEW per \in Nat \ {0}
  PROVE  LET n == NumberOfSubtasks(total, per)
         IN n \in Nat \ {0} /\ per * (n - 1) < total /\ total <= per * n
<1> DEFINE q == total \div per
           m == total % per
<1>1. /\ q \in Nat
      /\ m \in 0 .. per - 1
      /\ total = per * q + m
  OBVIOUS
<1>2. CASE m = 0
  <2>1. NumberOfSubtasks(total, per) = q
    BY <1>2 DEF NumberOfSubtasks
  <2>2. q # 0
    BY <1>1, <1>2
  <2>3. per * (q - 1) = per * q - per
    BY <1>1
  <2> QED BY <1>1, <1>2, <2>1, <2>2, <2>3
<1>3. CASE m # 0
  <2>1. NumberOfSubtasks(total, per) = q + 1
    BY <1>3 DEF NumberOfSubtasks
  <2>2. per * (q + 1) = per * q + per
    BY <1>1
  <2>3. (q + 1) - 1 = q
    BY <1>1
  <2> QED BY <1>1, <1>3, <2>1, <2>2, <2>3
<1> QED BY <1>2, <1>3

\* There are not more subtasks than items.
LEMMA NumberWithinTotal ==
  ASSUME NEW total \in Nat, NEW per \in Nat \ {0}
  PROVE  /\ NumberOfSubtasks(total, per) \in 0 .. total
         /\ total # 0 => NumberOfSubtasks(total, per) # 0
<1> DEFINE n == NumberOfSubtasks(total, per)
<1>1. CASE total = 0
  <2>1. 0 % per = 0 /\ 0 \div per = 0
    OBVIOUS
  <2> QED BY <1>1, <2>1 DEF NumberOfSubtasks
<1>2. CASE total # 0
  <2>1. n \in Nat \ {0} /\ per * (n - 1) < total
    BY <1>2, NumberRoundsUp
  <2> HIDE DEF n
  <2>2. (n - 1) * 1 <= (n - 1) * per
    <3>1. n - 1 \in Nat /\ 1 <= per /\ 1 \in Nat
      BY <2>1
    <3> QED BY <3>1, ProductGrows
  <2>3. (n - 1) * per = per * (n - 1) /\ (n - 1) * 1 = n - 1 /\ per * (n - 1) \in Nat
    BY <2>1
  <2>4. n <= total
    BY <2>1, <2>2, <2>3
  <2> QED BY <1>2, <2>1, <2>4 DEF n
<1> QED BY <1>1, <1>2

\* More items do not make fewer subtasks.
LEMMA NumberGrows ==
  ASSUME NEW a \in Nat, NEW b \in Nat, a <= b, NEW per \in Nat \ {0}
  PROVE  NumberOfSubtasks(a, per) <= NumberOfSubtasks(b, per)
<1> DEFINE m == NumberOfSubtasks(a, per)
           n == NumberOfSubtasks(b, per)
<1>1. m \in 0 .. a /\ n \in 0 .. b /\ (a = 0 => m = 0)
  <2>1. m \in 0 .. a /\ n \in 0 .. b
    BY NumberWithinTotal
  <2> QED BY <2>1
<1>2. CASE a = 0
  BY <1>1, <1>2
<1>3. CASE a # 0
  <2>1. a \in Nat \ {0} /\ b \in Nat \ {0}
    BY <1>3
  <2>2. per * (m - 1) < a
    BY <2>1, NumberRoundsUp
  <2>3. b <= per * n
    BY <2>1, NumberRoundsUp
  <2> HIDE DEF m, n
  <2>4. m \in Nat /\ n \in Nat /\ per * (m - 1) \in Int /\ per * n \in Int
    BY <1>1
  <2>5. ASSUME n + 1 <= m PROVE FALSE
    <3>1. m - 1 \in Nat /\ n <= m - 1
      BY <2>4, <2>5
    <3>2. per * n <= per * (m - 1)
      BY <2>4, <3>1, ProductGrows
    <3> QED BY <2>2, <2>3, <2>4, <3>2
  <2>6. m <= n
    BY <2>4, <2>5
  <2> QED BY <2>6 DEF m, n
<1> QED BY <1>2, <1>3

\* Every chunk is a part of the items, and there are at most n.
LEMMA ChunksTyped ==
  ASSUME NEW S, NEW s \in Seq(S), NEW per \in Nat \ {0}, NEW n \in Nat
  PROVE  /\ Chunks(s, per, n) \in Seq(Seq(S))
         /\ Len(Chunks(s, per, n)) <= n
<1> DEFINE needed == NumberOfSubtasks(Len(s), per)
           count == IF needed < n THEN needed ELSE n
<1>1. Len(s) \in Nat
  BY LenProperties
<1>2. needed \in Nat /\ count \in Nat /\ count <= needed /\ count <= n
  <2>1. needed \in 0 .. Len(s)
    BY <1>1, NumberWithinTotal
  <2> HIDE DEF needed
  <2> QED BY <2>1, <1>1
<1>3. ASSUME NEW k \in 1 .. count
      PROVE  SubSeq(s, (k - 1) * per + 1, IF k = count THEN Len(s) ELSE k * per) \in Seq(S)
  <2>1. Len(s) # 0
    <3>1. needed # 0
      BY <1>2, <1>3
    <3> QED BY <3>1, <1>1, NumberWithinTotal
  <2>2. per * (needed - 1) < Len(s)
    BY <2>1, <1>1, NumberRoundsUp
  <2> HIDE DEF needed, count
  <2>3. k - 1 \in Nat /\ k \in Nat /\ needed - 1 \in Nat /\ k - 1 <= needed - 1
    BY <1>2, <1>3
  <2>4. per * (k - 1) <= per * (needed - 1)
    BY <2>3, ProductGrows
  <2>5. (k - 1) * per = per * (k - 1) /\ per * (k - 1) \in Nat /\ per * (needed - 1) \in Nat
    BY <2>3
  <2>6. (k - 1) * per + 1 \in 1 .. Len(s)
    BY <1>1, <2>2, <2>4, <2>5
  <2>7. ASSUME k # count PROVE k * per \in 1 .. Len(s) /\ (k - 1) * per + 1 <= k * per
    <3>1. k <= needed - 1
      BY <2>7, <2>3, <1>2, <1>3
    <3>2. per * k <= per * (needed - 1)
      BY <3>1, <2>3, ProductGrows
    <3>3. k * per = per * k /\ per * k \in Nat /\ k * per = (k - 1) * per + per
      BY <2>3
    <3> QED BY <3>2, <3>3, <2>2, <2>5, <1>1
  <2>8. CASE k = count
    <3>1. \A i \in (k - 1) * per + 1 .. Len(s) : i \in 1 .. Len(s)
      BY <2>6, <1>1
    <3>2. \A i \in (k - 1) * per + 1 .. Len(s) : s[i] \in S
      BY <3>1, ElementOfSeq
    <3>3. (k - 1) * per + 1 \in Int /\ Len(s) \in Int
      BY <2>6, <1>1
    <3>4. SubSeq(s, (k - 1) * per + 1, Len(s)) \in Seq(S)
      BY <3>2, <3>3, SubSeqProperties
    <3> QED BY <2>8, <3>4
  <2>9. CASE k # count
    <3>1. \A i \in (k - 1) * per + 1 .. k * per : i \in 1 .. Len(s)
      BY <2>6, <2>7, <2>9, <1>1
    <3>2. \A i \in (k - 1) * per + 1 .. k * per : s[i] \in S
      BY <3>1, ElementOfSeq
    <3>3. (k - 1) * per + 1 \in Int /\ k * per \in Int
      BY <2>6, <2>7, <2>9
    <3>4. SubSeq(s, (k - 1) * per + 1, k * per) \in Seq(S)
      BY <3>2, <3>3, SubSeqProperties
    <3> QED BY <2>9, <3>4
  <2> QED BY <2>8, <2>9
<1>4. Chunks(s, per, n) =
        [k \in 1 .. count |->
           SubSeq(s, (k - 1) * per + 1, IF k = count THEN Len(s) ELSE k * per)]
  BY DEF Chunks
<1> HIDE DEF needed, count
<1>5. Chunks(s, per, n) \in [1 .. count -> Seq(S)]
  BY <1>3, <1>4
<1> QED BY <1>2, <1>5, LenProperties, SeqDef

\* There are n of them when there are items for as many.
LEMMA ChunksEnough ==
  ASSUME NEW S, NEW s \in Seq(S), NEW per \in Nat \ {0}, NEW n \in Nat,
         n <= NumberOfSubtasks(Len(s), per)
  PROVE  Len(Chunks(s, per, n)) = n
<1> DEFINE needed == NumberOfSubtasks(Len(s), per)
           count == IF needed < n THEN needed ELSE n
<1>1. needed \in Nat
  <2>1. needed \in 0 .. Len(s) /\ Len(s) \in Nat
    BY LenProperties, NumberWithinTotal
  <2> HIDE DEF needed
  <2> QED BY <2>1
<1>2. count = n
  <2> HIDE DEF needed
  <2> QED BY <1>1 DEF needed
<1> DEFINE part(k) == SubSeq(s, (k - 1) * per + 1, IF k = count THEN Len(s) ELSE k * per)
<1>3. Chunks(s, per, n) = [k \in 1 .. count |-> part(k)]
  BY DEF Chunks
<1> HIDE DEF part, count
<1> QED BY <1>2, <1>3

\* Where the members of a chunk come from: the chunks follow each other.
LEMMA ChunkParts ==
  ASSUME NEW S, NEW s \in Seq(S), NEW per \in Nat \ {0}, NEW n \in Nat
  PROVE  LET chunks == Chunks(s, per, n)
             needed == NumberOfSubtasks(Len(s), per)
         IN /\ Len(chunks) = IF needed < n THEN needed ELSE n
            /\ DOMAIN chunks = 1 .. Len(chunks)
            /\ \A k \in 1 .. Len(chunks) : \A i \in DOMAIN chunks[k] :
                 \E j \in 1 .. Len(s) :
                   /\ chunks[k][i] = s[j]
                   /\ (k - 1) * per < j
                   /\ k # Len(chunks) => j <= k * per
<1> DEFINE chunks == Chunks(s, per, n)
           needed == NumberOfSubtasks(Len(s), per)
           count == IF needed < n THEN needed ELSE n
           last(k) == IF k = count THEN Len(s) ELSE k * per
<1>1. /\ Len(s) \in Nat
      /\ needed \in Nat /\ count \in Nat /\ count <= needed
  <2>1. Len(s) \in Nat
    BY LenProperties
  <2>2. needed \in 0 .. Len(s)
    BY <2>1, NumberWithinTotal
  <2> HIDE DEF needed
  <2> QED BY <2>1, <2>2
<1>2. chunks = [k \in 1 .. count |-> SubSeq(s, (k - 1) * per + 1, last(k))]
  BY DEF Chunks
<1>3. chunks \in Seq(Seq(S))
  BY ChunksTyped
<1>4. DOMAIN chunks = 1 .. count /\ Len(chunks) = count
  <2> HIDE DEF count, last
  <2>1. DOMAIN chunks = 1 .. count
    BY <1>2
  <2> HIDE DEF chunks
  <2>2. Len(chunks) \in Nat /\ DOMAIN chunks = 1 .. Len(chunks)
    BY <1>3, LenProperties
  <2> QED BY <1>1, <2>1, <2>2
<1>5. ASSUME NEW k \in 1 .. count, NEW i \in DOMAIN chunks[k]
      PROVE  \E j \in 1 .. Len(s) :
               /\ chunks[k][i] = s[j]
               /\ (k - 1) * per < j
               /\ k # count => j <= k * per
  <2> DEFINE first == (k - 1) * per + 1
             end == last(k)
  <2>1. first \in Nat \ {0} /\ k * per \in Nat
    <3>1. k \in Nat /\ k - 1 \in Nat
      BY <1>1, <1>5
    <3> QED BY <3>1
  <2>2. end \in Nat /\ end <= Len(s)
    <3>1. CASE k = count
      BY <1>1, <3>1
    <3>2. CASE k # count
      <4>1. k \in Nat /\ needed - 1 \in Nat /\ k <= needed - 1 /\ needed # 0
        <5> HIDE DEF needed, count
        <5> QED BY <1>1, <1>5, <3>2
      <4>2. Len(s) # 0
        BY <1>1, <4>1, NumberWithinTotal
      <4>3. per * (needed - 1) < Len(s)
        BY <1>1, <4>2, NumberRoundsUp
      <4> HIDE DEF needed
      <4>4. per * k <= per * (needed - 1)
        BY <4>1, ProductGrows
      <4>5. per * k = k * per /\ per * k \in Nat /\ per * (needed - 1) \in Nat
        BY <4>1
      <4>6. k * per <= Len(s)
        BY <1>1, <4>3, <4>4, <4>5
      <4> HIDE DEF count
      <4> QED BY <2>1, <3>2, <4>6
    <3> QED BY <3>1, <3>2
  <2>3. chunks[k] = SubSeq(s, first, end)
    <3> HIDE DEF count, last
    <3> QED BY <1>2, <1>5
  <2>4. k # count => end = k * per
    OBVIOUS
  <2> HIDE DEF end, chunks, count
  <2>5. \A j \in first .. end : s[j] \in S
    <3>1. \A j \in first .. end : j \in 1 .. Len(s)
      BY <1>1, <2>1, <2>2
    <3> QED BY <3>1, ElementOfSeq
  <2>6. /\ Len(SubSeq(s, first, end)) = IF first <= end THEN end - first + 1 ELSE 0
        /\ SubSeq(s, first, end) \in Seq(S)
        /\ \A h \in 1 .. end - first + 1 : SubSeq(s, first, end)[h] = s[first + h - 1]
    <3>1. first \in Int /\ end \in Int
      BY <2>1, <2>2
    <3> HIDE DEF first
    <3> QED BY <2>5, <3>1, SubSeqProperties
  <2> HIDE DEF first
  <2>7. i \in 1 .. end - first + 1
    <3>1. i \in 1 .. Len(SubSeq(s, first, end))
      BY <1>5, <2>3, <2>6, LenProperties
    <3> QED BY <2>1, <2>2, <2>6, <3>1
  <2>8. /\ first + i - 1 \in 1 .. Len(s)
        /\ first <= first + i - 1
        /\ first + i - 1 <= end
    BY <1>1, <2>1, <2>2, <2>7
  <2>9. chunks[k][i] = s[first + i - 1]
    BY <2>3, <2>6, <2>7
  <2>10. (k - 1) * per < first + i - 1
    <3>1. first = (k - 1) * per + 1 /\ (k - 1) * per \in Int
      <4>1. k - 1 \in Int
        BY <1>5
      <4> QED BY <4>1 DEF first
    <3> QED BY <2>1, <2>8, <3>1
  <2> QED BY <2>4, <2>8, <2>9, <2>10
<1> HIDE DEF count, needed, chunks
<1> QED BY <1>4, <1>5 DEF count, needed, chunks

\* Nobody is in two chunks, if nobody is twice among the items.
LEMMA ChunksApart ==
  ASSUME NEW S, NEW s \in Seq(S), NEW per \in Nat \ {0}, NEW n \in Nat,
         \A i, j \in 1 .. Len(s) : s[i] = s[j] => i = j,
         NEW k \in 1 .. Len(Chunks(s, per, n)), NEW l \in 1 .. Len(Chunks(s, per, n)), k # l,
         NEW a \in DOMAIN Chunks(s, per, n)[k], NEW b \in DOMAIN Chunks(s, per, n)[l]
  PROVE  Chunks(s, per, n)[k][a] # Chunks(s, per, n)[l][b]
<1> DEFINE chunks == Chunks(s, per, n)
<1>1. Len(chunks) \in Nat /\ Len(s) \in Nat
  BY ChunksTyped, LenProperties
<1>2. PICK i \in 1 .. Len(s) :
        chunks[k][a] = s[i] /\ (k - 1) * per < i /\ (k # Len(chunks) => i <= k * per)
  BY ChunkParts
<1>3. PICK j \in 1 .. Len(s) :
        chunks[l][b] = s[j] /\ (l - 1) * per < j /\ (l # Len(chunks) => j <= l * per)
  BY ChunkParts
<1> HIDE DEF chunks
<1>4. /\ k \in Nat /\ l \in Nat /\ i \in Nat /\ j \in Nat
      /\ k <= Len(chunks) /\ l <= Len(chunks) /\ k - 1 \in Nat /\ l - 1 \in Nat
  BY <1>1 DEF chunks
<1>5. CASE k < l
  <2>1. k <= l - 1 /\ k # Len(chunks)
    BY <1>1, <1>4, <1>5
  <2>2. per * k <= per * (l - 1)
    BY <1>4, <2>1, ProductGrows
  <2> DEFINE end == per * k
             start == per * (l - 1)
  <2>3. end = k * per /\ start = (l - 1) * per /\ end \in Nat /\ start \in Nat
    BY <1>4
  <2>4. i <= end /\ start < j /\ end <= start
    BY <1>2, <1>3, <2>1, <2>2, <2>3
  <2>5. end \in Nat /\ start \in Nat
    BY <2>3
  <2> HIDE DEF end, start
  <2>6. i # j
    BY <1>4, <2>4, <2>5
  <2> QED BY <1>2, <1>3, <2>6 DEF chunks
<1>6. CASE l < k
  <2>1. l <= k - 1 /\ l # Len(chunks)
    BY <1>1, <1>4, <1>6
  <2>2. per * l <= per * (k - 1)
    BY <1>4, <2>1, ProductGrows
  <2> DEFINE end == per * l
             start == per * (k - 1)
  <2>3. end = l * per /\ start = (k - 1) * per /\ end \in Nat /\ start \in Nat
    BY <1>4
  <2>4. j <= end /\ start < i /\ end <= start
    BY <1>2, <1>3, <2>1, <2>2, <2>3
  <2>5. end \in Nat /\ start \in Nat
    BY <2>3
  <2> HIDE DEF end, start
  <2>6. i # j
    BY <1>4, <2>4, <2>5
  <2> QED BY <1>2, <1>3, <2>6 DEF chunks
<1> QED BY <1>4, <1>5, <1>6

-----------------------------------------------------------------------------
(***************************************************************************)
(* Rows.                                                                   *)
(***************************************************************************)
\* A row whose subtasks are those of ids.
RowOver(ids) ==
  [task_state : {"QUEUING", "PROGRESS", "SUCCESS", "FAILURE"}, output : Output,
   total : Nat, succeeded : Nat, failed : Nat, status : [ids -> SubtaskStatus]]

LEMMA TaskIsRow ==
  ASSUME NEW Ids, NEW row
  PROVE  IsTask(row, Ids) <=> DOMAIN row.status \subseteq Ids /\ row \in RowOver(DOMAIN row.status)
<1>1. ASSUME NEW ids \in SUBSET Ids, row \in RowOver(ids) PROVE ids = DOMAIN row.status
  BY <1>1 DEF RowOver
<1> QED BY <1>1 DEF IsTask, RowOver

LEMMA NewTaskTyped == ASSUME NEW Ids PROVE IsTask(NewTask, Ids) /\ DOMAIN NewTask.status = {}
<1>1. DOMAIN NewTask.status = {}
  BY DEF NewTask
<1>2. NewTask \in RowOver({})
  BY DEF NewTask, RowOver, NoOutput, Output
<1> QED BY <1>1, <1>2, TaskIsRow

\* Saving another task_state or task_output.
LEMMA MarkedRow ==
  ASSUME NEW Ids, NEW row, IsTask(row, Ids),
         NEW state \in {"QUEUING", "PROGRESS", "SUCCESS", "FAILURE"}
  PROVE  /\ IsTask([row EXCEPT !.task_state = state], Ids)
         /\ \A o \in Output : IsTask([row EXCEPT !.output = o, !.task_state = state], Ids)
<1>1. DOMAIN row.status \subseteq Ids /\ row \in RowOver(DOMAIN row.status)
  BY TaskIsRow
<1> DEFINE q == [row EXCEPT !.task_state = state]
<1>2. q.status = row.status /\ q \in RowOver(DOMAIN row.status)
  BY <1>1 DEF RowOver
<1>3. ASSUME NEW o \in Output
      PROVE  LET r == [row EXCEPT !.output = o, !.task_state = state]
             IN r.status = row.status /\ r \in RowOver(DOMAIN row.status)
  BY <1>1 DEF RowOver
<1> HIDE DEF q
<1>4. IsTask(q, Ids)
  BY <1>1, <1>2, TaskIsRow
<1>5. ASSUME NEW o \in Output
      PROVE  IsTask([row EXCEPT !.output = o, !.task_state = state], Ids)
  BY <1>1, <1>3, TaskIsRow
<1> QED BY <1>4, <1>5 DEF q

\* initialize_subtask_info: nothing is counted yet.
LEMMA InitializedRow ==
  ASSUME NEW Ids, NEW row, IsTask(row, Ids), NEW ids \in SUBSET Ids, IsFiniteSet(ids),
         NEW total \in Nat
  PROVE  LET q == InitializeSubtaskInfo(row, total, ids)
         IN /\ IsTask(q, Ids)
            /\ q.status = [id \in ids |-> NewStatus] /\ DOMAIN q.status = ids
            /\ q.total = Cardinality(ids) /\ q.succeeded = 0 /\ q.failed = 0
            /\ q.output = [NoOutput EXCEPT !.kind = "progress", !.total = total]
            /\ q.output \in Output /\ q.output.kind = "progress"
            /\ q.task_state = "PROGRESS"
<1> DEFINE q == InitializeSubtaskInfo(row, total, ids)
<1>1. row \in RowOver(DOMAIN row.status)
  BY TaskIsRow
<1>2. Cardinality(ids) \in Nat
  BY FS_CardinalityType
<1>3. NewStatus \in SubtaskStatus
  BY DEF NewStatus, SubtaskStatus
<1>4. [NoOutput EXCEPT !.kind = "progress", !.total = total] \in Output
  BY DEF NoOutput, Output
<1>5. /\ q.status = [id \in ids |-> NewStatus] /\ DOMAIN q.status = ids
      /\ q.total = Cardinality(ids) /\ q.succeeded = 0 /\ q.failed = 0
      /\ q.output = [NoOutput EXCEPT !.kind = "progress", !.total = total]
      /\ q.task_state = "PROGRESS"
  BY <1>1 DEF RowOver, InitializeSubtaskInfo
<1>6. q \in RowOver(ids)
  BY <1>1, <1>2, <1>3, <1>4 DEF RowOver, InitializeSubtaskInfo
<1>7. q.output.kind = "progress"
  BY <1>5 DEF NoOutput
<1> HIDE DEF q
<1>8. IsTask(q, Ids)
  BY <1>5, <1>6, TaskIsRow
<1> QED BY <1>4, <1>5, <1>7, <1>8 DEF q

LEMMA CountsAdded ==
  ASSUME NEW o \in Output, NEW st \in SubtaskStatus
  PROVE  /\ AddCounts(o, st) \in Output
         /\ AddCounts(o, st).kind = o.kind /\ AddCounts(o, st).total = o.total
<1>1. /\ o.succeeded + st.succeeded \in Nat /\ o.failed + st.failed \in Nat
      /\ o.skipped + st.skipped \in Nat
  BY DEF Output, SubtaskStatus
<1> QED BY <1>1 DEF AddCounts, Output

LEMMA RowRewritten ==
  ASSUME NEW ids, NEW row \in RowOver(ids), NEW m \in [ids -> SubtaskStatus], NEW o \in Output,
         NEW s \in Nat, NEW f \in Nat, NEW t \in {"QUEUING", "PROGRESS", "SUCCESS", "FAILURE"}
  PROVE  [row EXCEPT !.status = m, !.output = o, !.succeeded = s, !.failed = f,
                     !.task_state = t] \in RowOver(ids)
BY DEF RowOver

\* _update_subtask_status: one status is replaced, and counted when it is final.
LEMMA UpdatedRow ==
  ASSUME NEW Ids, NEW row, IsTask(row, Ids), NEW id \in DOMAIN row.status,
         NEW st \in SubtaskStatus
  PROVE  LET q == UpdateSubtaskStatus(row, id, st)
         IN /\ IsTask(q, Ids)
            /\ DOMAIN q.status = DOMAIN row.status
            /\ q.status = [row.status EXCEPT ![id] = st]
            /\ q.total = row.total
            /\ q.succeeded = CountSucceeded(row, st)
            /\ q.failed = CountFailed(row, st)
            /\ q.output.kind = row.output.kind /\ q.output.total = row.output.total
            /\ q.task_state = IF row.total - q.succeeded - q.failed <= 0
                              THEN "SUCCESS" ELSE row.task_state
<1> DEFINE q == UpdateSubtaskStatus(row, id, st)
           ids == DOMAIN row.status
<1>1. ids \subseteq Ids /\ row \in RowOver(ids)
  BY TaskIsRow
<1>2. CountSucceeded(row, st) \in Nat /\ CountFailed(row, st) \in Nat
  BY <1>1 DEF RowOver, CountSucceeded, CountFailed
<1>3. /\ AddCounts(row.output, st) \in Output
      /\ AddCounts(row.output, st).kind = row.output.kind
      /\ AddCounts(row.output, st).total = row.output.total
  <2>1. row.output \in Output
    BY <1>1 DEF RowOver
  <2> QED BY <2>1, CountsAdded
<1>4. [row.status EXCEPT ![id] = st] \in [ids -> SubtaskStatus]
  BY <1>1 DEF RowOver
<1>5. /\ q.status = [row.status EXCEPT ![id] = st]
      /\ q.total = row.total
      /\ q.succeeded = CountSucceeded(row, st)
      /\ q.failed = CountFailed(row, st)
      /\ q.output = AddCounts(row.output, st)
      /\ q.task_state = IF row.total - q.succeeded - q.failed <= 0
                        THEN "SUCCESS" ELSE row.task_state
  BY <1>1 DEF RowOver, UpdateSubtaskStatus
<1>6. q = [row EXCEPT !.status = q.status, !.output = q.output, !.succeeded = q.succeeded,
                      !.failed = q.failed, !.task_state = q.task_state]
  BY <1>1, <1>5 DEF RowOver, UpdateSubtaskStatus
<1> HIDE DEF q
<1>7. q \in RowOver(ids)
  <2>1. q.task_state \in {"QUEUING", "PROGRESS", "SUCCESS", "FAILURE"}
    BY <1>1, <1>5 DEF RowOver
  <2>2. /\ q.status \in [ids -> SubtaskStatus] /\ q.output \in Output
        /\ q.succeeded \in Nat /\ q.failed \in Nat /\ row \in RowOver(ids)
    BY <1>1, <1>2, <1>3, <1>4, <1>5
  <2> HIDE DEF ids
  <2>3. [row EXCEPT !.status = q.status, !.output = q.output, !.succeeded = q.succeeded,
                    !.failed = q.failed, !.task_state = q.task_state] \in RowOver(ids)
    BY <2>1, <2>2, RowRewritten
  <2> QED BY <1>6, <2>3
<1>8. IsTask(q, Ids) /\ DOMAIN q.status = ids
  BY <1>1, <1>4, <1>5, <1>7, TaskIsRow
<1> QED BY <1>3, <1>5, <1>8 DEF q

\* The ids whose status is in the given state.
StatusIn(row, state) == {id \in DOMAIN row.status : row.status[id].state = state}

Counted(row) ==
  /\ row.succeeded = Cardinality(StatusIn(row, "SUCCESS"))
  /\ row.failed = Cardinality(StatusIn(row, "FAILURE"))

\* When the status that is replaced was not final, the counters still agree with
\* the statuses.
LEMMA CountsUpdated ==
  ASSUME NEW Ids, NEW row, IsTask(row, Ids), IsFiniteSet(Ids), Counted(row),
         NEW id \in DOMAIN row.status, row.status[id].state \notin READY_STATES,
         NEW st \in SubtaskStatus
  PROVE  Counted(UpdateSubtaskStatus(row, id, st))
<1> DEFINE q == UpdateSubtaskStatus(row, id, st)
           ids == DOMAIN row.status
<1>1. /\ DOMAIN q.status = ids
      /\ q.status = [row.status EXCEPT ![id] = st]
      /\ q.succeeded = CountSucceeded(row, st)
      /\ q.failed = CountFailed(row, st)
  BY UpdatedRow
<1>2. IsFiniteSet(ids) /\ row \in RowOver(ids)
  <2>1. ids \subseteq Ids /\ row \in RowOver(ids)
    BY TaskIsRow
  <2> QED BY <2>1, FS_Subset
<1>3. st.state \in {"QUEUING", "RETRY", "SUCCESS", "FAILURE"}
  BY DEF SubtaskStatus
<1> HIDE DEF q, ids
<1>4. ASSUME NEW state \in {"SUCCESS", "FAILURE"}
      PROVE  /\ IsFiniteSet(StatusIn(row, state))
             /\ Cardinality(StatusIn(row, state)) \in Nat
             /\ Cardinality(StatusIn(q, state)) =
                  IF st.state = state THEN Cardinality(StatusIn(row, state)) + 1
                  ELSE Cardinality(StatusIn(row, state))
  <2>1. StatusIn(row, state) \subseteq ids
    BY DEF StatusIn, ids
  <2>2. IsFiniteSet(StatusIn(row, state)) /\ Cardinality(StatusIn(row, state)) \in Nat
    BY <1>2, <2>1, FS_Subset, FS_CardinalityType
  <2>3. id \in ids /\ id \notin StatusIn(row, state)
    BY <1>4 DEF StatusIn, READY_STATES, ids
  <2>4. row.status \in [ids -> SubtaskStatus]
    BY <1>2 DEF RowOver
  <2>5. \A i \in ids : q.status[i] = IF i = id THEN st ELSE row.status[i]
    BY <1>1, <2>4
  <2>6. StatusIn(q, state) = IF st.state = state THEN StatusIn(row, state) \cup {id}
                             ELSE StatusIn(row, state)
    BY <1>1, <2>3, <2>5 DEF StatusIn, ids
  <2> QED BY <2>2, <2>3, <2>6, FS_AddElement
<1> QED BY <1>1, <1>3, <1>4 DEF Counted, CountSucceeded, CountFailed, READY_STATES, q

\* The counters reach the number of subtasks exactly when all of them are over.
LEMMA AllOver ==
  ASSUME NEW Ids, NEW row, IsTask(row, Ids), IsFiniteSet(Ids), Counted(row),
         row.total = Cardinality(DOMAIN row.status)
  PROVE  row.total - row.succeeded - row.failed <= 0
           <=> \A id \in DOMAIN row.status : row.status[id].state \in READY_STATES
<1> DEFINE ids == DOMAIN row.status
           S == StatusIn(row, "SUCCESS")
           F == StatusIn(row, "FAILURE")
<1>1. IsFiniteSet(ids)
  <2>1. ids \subseteq Ids
    BY TaskIsRow
  <2> QED BY <2>1, FS_Subset
<1>2. S \subseteq ids /\ F \subseteq ids /\ S \cap F = {}
  BY DEF StatusIn
<1>3. (\A id \in ids : row.status[id].state \in READY_STATES) <=> ids = S \cup F
  <2>1. \A id \in ids : row.status[id] \in SubtaskStatus
    BY TaskIsRow DEF RowOver
  <2> QED BY <2>1 DEF StatusIn, READY_STATES, SubtaskStatus
<1>4. row.total = Cardinality(ids) /\ row.succeeded = Cardinality(S) /\ row.failed = Cardinality(F)
  BY DEF Counted
<1> HIDE DEF S, F, ids
<1>5. IsFiniteSet(S) /\ IsFiniteSet(F) /\ Cardinality(S \cap F) = 0
  BY <1>1, <1>2, FS_Subset, FS_EmptySet
<1>6. S \cup F \subseteq ids /\ Cardinality(S \cup F) <= Cardinality(ids)
  BY <1>1, <1>2, FS_Subset
<1>7. /\ Cardinality(ids) \in Nat /\ Cardinality(S) \in Nat /\ Cardinality(F) \in Nat
      /\ Cardinality(S \cup F) \in Nat
  BY <1>1, <1>5, <1>6, FS_CardinalityType, FS_Subset
<1>8. Cardinality(S \cup F) = Cardinality(S) + Cardinality(F)
  <2>1. Cardinality(S \cup F) = Cardinality(S) + Cardinality(F) - Cardinality(S \cap F)
    BY <1>5, FS_Union
  <2> QED BY <1>5, <1>7, <2>1
<1>9. Cardinality(ids) - Cardinality(S) - Cardinality(F) <= 0
        <=> Cardinality(ids) = Cardinality(S \cup F)
  BY <1>6, <1>7, <1>8
<1>10. Cardinality(ids) = Cardinality(S \cup F) <=> ids = S \cup F
  BY <1>1, <1>6, FS_Subset
<1> QED BY <1>3, <1>4, <1>9, <1>10 DEF ids
=============================================================================
