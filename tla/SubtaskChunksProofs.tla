------------------------ MODULE SubtaskChunksProofs ------------------------
(***************************************************************************)
(* Proofs about SubtaskChunks: for every count, every chunk size and every *)
(* query, the ids of the subtasks are enough; they are exactly as many as  *)
(* the chunks when the two queries agree; no recipient is lost on the way  *)
(* into a chunk; and the loop yields the chunks BulkEmail delivers.        *)
(***************************************************************************)
EXTENDS SubtaskChunks, SubtaskInfoProofs

-----------------------------------------------------------------------------
\* Until the remainder is yielded every chunk is full, and the one being filled
\* overflows only if it is the last.
Progress ==
  LET n == total_num_subtasks
  IN /\ Len(yielded) <= n
     /\ ~Exhausted =>
          /\ Len(yielded) <= n - 1
          /\ items_per_task * Len(yielded) + Len(items_for_task) + Len(items) = Len(source)
          /\ Len(items_for_task) <= items_per_task \/ Len(yielded) = n - 1
     /\ Exhausted /\ Len(source) = total_num_items => Len(yielded) = n

IInv == TypeOK /\ Progress

\* Every variable has its type, for every query and every chunk size.
THEOREM TypeCorrect == Spec => []TypeOK
<1>1. Init => TypeOK
  <2> SUFFICES ASSUME Init PROVE TypeOK
    OBVIOUS
  <2>1. source \in Seq(Nat)
    <3>1. PICK n \in 0 .. MaxItems : source = [i \in 1 .. n |-> i]
      BY DEF Init
    <3>2. n \in Nat /\ source \in [1 .. n -> Nat]
      BY <3>1, BoundsAssumption
    <3> QED BY <3>2, SeqDef
  <2>2. items_for_task \in Seq(Nat) /\ yielded \in Seq(Seq(Nat))
    BY EmptySeq DEF Init
  <2> QED BY <2>1, <2>2, BoundsAssumption DEF Init, TypeOK
<1>2. TypeOK /\ [Next]_vars => TypeOK'
  <2> SUFFICES ASSUME TypeOK, [Next]_vars PROVE TypeOK'
    OBVIOUS
  <2>1. CASE NextItem
    <3>1. /\ items' \in Seq(Nat)
          /\ <<Head(items)>> \in Seq(Nat)
          /\ Append(items_for_task, Head(items)) \in Seq(Nat)
          /\ Append(yielded, items_for_task) \in Seq(Seq(Nat))
      BY <2>1, HeadTailProperties DEF NextItem, TypeOK
    <3>2. items_for_task' \in Seq(Nat) /\ yielded' \in Seq(Seq(Nat))
      BY <2>1, <3>1 DEF NextItem, TypeOK, Restarted
    <3> QED BY <2>1, <3>1, <3>2 DEF NextItem, TypeOK, inputs
  <2>2. CASE YieldRemainder
    BY <2>2 DEF YieldRemainder, TypeOK, inputs
  <2>3. CASE UNCHANGED vars
    BY <2>3 DEF vars, inputs, TypeOK
  <2> QED BY <2>1, <2>2, <2>3 DEF Next
<1> QED BY <1>1, <1>2, PTL DEF Spec

-----------------------------------------------------------------------------
LEMMA ProgressAtFirst == ASSUME TypeOK, Init PROVE Progress
<1> DEFINE n == total_num_subtasks
<1>1. n \in Nat \ {0}
  BY NumberRoundsUp DEF TypeOK, total_num_subtasks
<1>2. /\ Len(yielded) = 0
      /\ Len(items_for_task) = 0
      /\ items = source
  BY DEF Init
<1>3. items_per_task * 0 = 0
  BY DEF TypeOK
<1>4. Exhausted => Len(source) = 0
  BY DEF Init, Exhausted
<1> HIDE DEF n
<1>5. total_num_subtasks = n
  BY DEF n
<1>6. Len(source) \in Nat
  BY DEF TypeOK
<1> QED BY <1>1, <1>2, <1>3, <1>4, <1>5, <1>6 DEF Progress, TypeOK

LEMMA ProgressPreserved ==
  ASSUME TypeOK, TypeOK', Progress, [Next]_vars
  PROVE  Progress'
<1> DEFINE n == total_num_subtasks
           per == items_per_task
           k == Len(yielded)
<1>1. /\ n \in Nat \ {0}
      /\ per * (n - 1) < total_num_items
  BY NumberRoundsUp DEF TypeOK, total_num_subtasks
<1>2. /\ per \in Nat \ {0} /\ k \in Nat
      /\ Len(items_for_task) \in Nat /\ Len(items) \in Nat
      /\ Len(source) \in Nat /\ total_num_items \in Nat
  BY DEF TypeOK
<1>3. CASE NextItem
  <2>1. /\ items # <<>>
        /\ Len(items') = Len(items) - 1
        /\ Len(items) > 0
        /\ ~Exhausted
    BY <1>3 DEF NextItem, TypeOK, Exhausted
  <2>2. /\ UNCHANGED <<source, items_per_task, total_num_items>>
        /\ total_num_subtasks' = n
    BY <1>3 DEF NextItem, inputs, total_num_subtasks
  <2>3. CASE YieldsNow
    <3>1. /\ Len(yielded') = k + 1
          /\ items_for_task' = <<Head(items)>>
          /\ k < n - 1
          /\ Len(items_for_task) = per
      BY <1>3, <2>3 DEF NextItem, YieldsNow, TypeOK, Restarted
    <3>2. Len(items_for_task') = 1 /\ items_for_task' # <<>>
      BY <3>1
    <3>3. ~Exhausted'
      BY <3>2 DEF Exhausted
    <3>4. per * (k + 1) = per * k + per
      BY <1>2
    <3>5. per * k \in Nat
      BY <1>2
    <3> HIDE DEF n, per, k
    <3>6. per * k + per + Len(items) = Len(source)
      BY <2>1, <3>1 DEF Progress, per, k
    <3>7. /\ items_per_task' = per /\ source' = source
          /\ Len(yielded)' = k + 1 /\ Len(items_for_task)' = 1
          /\ Len(items)' = Len(items) - 1
      BY <2>1, <2>2, <3>1, <3>2 DEF per
    <3> QED BY <1>1, <1>2, <2>2, <3>1, <3>3, <3>4, <3>5, <3>6, <3>7 DEF Progress
  <2>4. CASE ~YieldsNow
    <3>1. /\ Len(items_for_task') = Len(items_for_task) + 1
          /\ yielded' = yielded
      BY <1>3, <2>4 DEF NextItem, TypeOK
    <3>2. items_for_task' # <<>>
      BY <1>2, <3>1
    <3>3. ~Exhausted'
      BY <3>2 DEF Exhausted
    <3>4. per * k \in Nat
      BY <1>2
    <3>5. Len(items_for_task) # per \/ k >= n - 1
      BY <1>1, <1>2, <2>4 DEF YieldsNow
    <3> HIDE DEF n, per, k
    <3>6. /\ per * k + Len(items_for_task) + Len(items) = Len(source)
          /\ k <= n - 1
          /\ Len(items_for_task) <= per \/ k = n - 1
      BY <2>1 DEF Progress, per, k, n
    <3>7. /\ items_per_task' = per /\ source' = source
          /\ Len(yielded)' = k /\ Len(items_for_task)' = Len(items_for_task) + 1
          /\ Len(items)' = Len(items) - 1
      BY <2>1, <2>2, <3>1 DEF per, k
    <3> QED BY <1>1, <1>2, <2>2, <3>3, <3>4, <3>5, <3>6, <3>7 DEF Progress
  <2> QED BY <2>3, <2>4
<1>4. CASE YieldRemainder
  <2>1. /\ items = <<>> /\ Len(items) = 0
        /\ Len(items_for_task) > 0
        /\ ~Exhausted
        /\ Exhausted'
        /\ Len(yielded') = k + 1
    BY <1>4 DEF YieldRemainder, TypeOK, Exhausted
  <2>2. /\ UNCHANGED <<source, items_per_task, total_num_items>>
        /\ total_num_subtasks' = n
    BY <1>4 DEF YieldRemainder, inputs, total_num_subtasks
  <2>3. /\ k <= n - 1
        /\ per * k + Len(items_for_task) = Len(source)
        /\ Len(items_for_task) <= per \/ k = n - 1
    BY <1>2, <2>1 DEF Progress
  <2>4. ASSUME Len(source) = total_num_items, k < n - 1 PROVE FALSE
    <3>1. per * (k + 1) = per * k + per
      BY <1>2
    <3>2. per * (k + 1) <= per * (n - 1)
      BY <1>1, <1>2, <2>4, ProductGrows
    <3>3. per * (k + 1) \in Nat /\ per * k \in Nat /\ per * (n - 1) \in Nat
      BY <1>1, <1>2
    <3> HIDE DEF n, per, k
    <3> QED BY <1>1, <1>2, <2>3, <2>4, <3>1, <3>2, <3>3
  <2> HIDE DEF n, per, k
  <2>5. Len(yielded)' = k + 1
    BY <2>1
  <2> QED BY <1>1, <1>2, <2>1, <2>2, <2>3, <2>4, <2>5 DEF Progress
<1>5. CASE UNCHANGED vars
  BY <1>5 DEF vars, inputs, Progress, Exhausted, total_num_subtasks
<1> QED BY <1>3, <1>4, <1>5 DEF Next

LEMMA ProgressAlways == Spec => []Progress
<1>1. Init /\ TypeOK => Progress
  BY ProgressAtFirst
<1>2. TypeOK /\ TypeOK' /\ Progress /\ [Next]_vars => Progress'
  BY ProgressPreserved
<1> QED BY <1>1, <1>2, TypeCorrect, PTL DEF Spec

\* queue_subtasks_for_query never runs out of ids, even when the recipients have
\* changed since they were counted.
THEOREM EnoughIds == Spec => []EveryChunkHasAnId
<1>1. Progress => EveryChunkHasAnId
  BY DEF Progress, EveryChunkHasAnId
<1> QED BY <1>1, ProgressAlways, PTL

\* When they have not, _get_number_of_subtasks and the generator agree.
THEOREM AsManyChunksAsIds == Spec => []EveryIdHasAChunk
<1>1. Progress => EveryIdHasAChunk
  BY DEF Progress, EveryIdHasAChunk
<1> QED BY <1>1, ProgressAlways, PTL

-----------------------------------------------------------------------------
(***************************************************************************)
(* What the chunks hold.                                                   *)
(***************************************************************************)
\* One step of the recursion of FlattenSeq.
Flattens(f, seqs, n) ==
  f = [i \in 1 .. n |-> IF i = 1 THEN seqs[i] ELSE f[i - 1] \o seqs[i]]

LEMMA FlattensExists ==
  ASSUME NEW seqs, NEW n \in Nat
  PROVE  \E f : Flattens(f, seqs, n)
<1> DEFINE T == {m \in Nat : \E f : Flattens(f, seqs, m)}
<1>1. 0 \in T
  <2>1. Flattens(<<>>, seqs, 0)
    BY DEF Flattens
  <2> QED BY <2>1
<1>2. ASSUME NEW m \in Nat, m \in T PROVE m + 1 \in T
  <2>1. PICK f : Flattens(f, seqs, m)
    BY <1>2
  <2> DEFINE g == [i \in 1 .. m + 1 |->
                     IF i = 1 THEN seqs[i] ELSE f[i - 1] \o seqs[i]]
  <2>2. ASSUME NEW i \in 1 .. m PROVE g[i] = f[i]
    <3>1. f[i] = IF i = 1 THEN seqs[i] ELSE f[i - 1] \o seqs[i]
      <4> PICK h : h = [j \in 1 .. m |-> IF j = 1 THEN seqs[j] ELSE f[j - 1] \o seqs[j]]
        OBVIOUS
      <4>1. f = h
        BY <2>1 DEF Flattens
      <4>2. h[i] = IF i = 1 THEN seqs[i] ELSE f[i - 1] \o seqs[i]
        OBVIOUS
      <4> QED BY <4>1, <4>2
    <3>2. i \in 1 .. m + 1
      OBVIOUS
    <3>3. g[i] = IF i = 1 THEN seqs[i] ELSE f[i - 1] \o seqs[i]
      BY <3>2
    <3> QED BY <3>1, <3>3
  <2>3. \A i \in 1 .. m + 1 : i # 1 => i - 1 \in 1 .. m
    OBVIOUS
  <2>4. g = [i \in 1 .. m + 1 |-> IF i = 1 THEN seqs[i] ELSE g[i - 1] \o seqs[i]]
    BY <2>2, <2>3
  <2> HIDE DEF g
  <2>5. Flattens(g, seqs, m + 1)
    BY <2>4 DEF Flattens
  <2> QED BY <2>5
<1> HIDE DEF T
<1>3. n \in T
  BY <1>1, <1>2, Induct
<1> QED BY <1>3 DEF T

LEMMA FlattensIs ==
  ASSUME NEW seqs, Len(seqs) \in Nat \ {0}
  PROVE  \E f : Flattens(f, seqs, Len(seqs)) /\ FlattenSeq(seqs) = f[Len(seqs)]
<1> DEFINE f == CHOOSE f : Flattens(f, seqs, Len(seqs))
<1>1. Flattens(f, seqs, Len(seqs))
  <2>1. \E g : Flattens(g, seqs, Len(seqs))
    BY FlattensExists
  <2> QED BY <2>1
<1>2. FlattenSeq(seqs) = f[Len(seqs)]
  BY DEF FlattenSeq, Flattens
<1> HIDE DEF f
<1> QED BY <1>1, <1>2

LEMMA FlattenTyped ==
  ASSUME NEW S, NEW seqs \in Seq(Seq(S))
  PROVE  FlattenSeq(seqs) \in Seq(S)
<1>1. Len(seqs) \in Nat /\ \A i \in 1 .. Len(seqs) : seqs[i] \in Seq(S)
  OBVIOUS
<1>2. CASE Len(seqs) = 0
  <2>1. seqs = <<>> /\ seqs \in Seq(S)
    BY <1>2, EmptySeq
  <2> QED BY <1>2, <2>1 DEF FlattenSeq
<1>3. CASE Len(seqs) # 0
  <2>1. PICK f : Flattens(f, seqs, Len(seqs)) /\ FlattenSeq(seqs) = f[Len(seqs)]
    BY <1>1, <1>3, FlattensIs
  <2> PICK n : n = Len(seqs)
    OBVIOUS
  <2> DEFINE T == {i \in Nat : i \in 1 .. n => f[i] \in Seq(S)}
  <2>2. 0 \in T
    OBVIOUS
  <2>3. ASSUME NEW i \in Nat, i \in T PROVE i + 1 \in T
    <3> SUFFICES ASSUME i + 1 \in 1 .. n PROVE f[i + 1] \in Seq(S)
      OBVIOUS
    <3>1. seqs[i + 1] \in Seq(S)
      BY <1>1
    <3>2. f[i + 1] = IF i + 1 = 1 THEN seqs[i + 1] ELSE f[(i + 1) - 1] \o seqs[i + 1]
      BY <2>1 DEF Flattens
    <3>3. CASE i = 0
      BY <3>1, <3>2, <3>3
    <3>4. CASE i # 0
      <4>1. (i + 1) - 1 = i /\ i + 1 # 1 /\ i \in 1 .. n
        BY <1>1, <3>4
      <4>2. f[i] \in Seq(S) /\ f[i + 1] = f[i] \o seqs[i + 1]
        BY <2>3, <3>2, <4>1
      <4> QED BY <3>1, <4>2, ConcatProperties
    <3> QED BY <3>3, <3>4
  <2> HIDE DEF T
  <2>4. n \in T
    BY <1>1, <2>2, <2>3, Induct
  <2>5. n \in 1 .. n
    BY <1>1, <1>3
  <2>6. f[n] \in Seq(S)
    BY <2>4, <2>5 DEF T
  <2> QED BY <2>1, <2>6
<1> QED BY <1>2, <1>3

LEMMA FlattenAppend ==
  ASSUME NEW S, NEW seqs \in Seq(Seq(S)), NEW c \in Seq(S)
  PROVE  FlattenSeq(Append(seqs, c)) = FlattenSeq(seqs) \o c
<1> PICK n : n = Len(seqs)
  OBVIOUS
<1> PICK more : more = Append(seqs, c)
  OBVIOUS
<1>1. /\ n \in Nat /\ Len(more) = n + 1 /\ more[n + 1] = c
      /\ \A i \in 1 .. n : more[i] = seqs[i]
  BY AppendProperties
<1>2. PICK g : Flattens(g, more, n + 1) /\ FlattenSeq(more) = g[n + 1]
  <2>1. Len(more) \in Nat \ {0}
    BY <1>1
  <2> QED BY <1>1, <2>1, FlattensIs
<1>3. g[n + 1] = IF n + 1 = 1 THEN more[n + 1] ELSE g[(n + 1) - 1] \o more[n + 1]
  <2>1. n + 1 \in 1 .. n + 1
    BY <1>1
  <2> QED BY <1>2, <2>1 DEF Flattens
<1>4. CASE n = 0
  <2>1. seqs = <<>> /\ FlattenSeq(seqs) = <<>>
    <3>1. seqs = <<>> /\ Len(seqs) = 0
      BY <1>4, EmptySeq
    <3>2. FlattenSeq(seqs) = seqs
      BY <3>1 DEF FlattenSeq
    <3> QED BY <3>1, <3>2
  <2>2. <<>> \o c = c
    BY ConcatEmptySeq
  <2> QED BY <1>1, <1>2, <1>3, <1>4, <2>1, <2>2
<1>5. CASE n # 0
  <2>1. PICK f : Flattens(f, seqs, n) /\ FlattenSeq(seqs) = f[n]
    BY <1>1, <1>5, FlattensIs
  <2> DEFINE T == {i \in Nat : i \in 1 .. n => f[i] = g[i]}
  <2>2. 0 \in T
    OBVIOUS
  <2>3. ASSUME NEW i \in Nat, i \in T PROVE i + 1 \in T
    <3> SUFFICES ASSUME i + 1 \in 1 .. n PROVE f[i + 1] = g[i + 1]
      OBVIOUS
    <3>1. i + 1 \in 1 .. n + 1 /\ (i + 1) - 1 = i /\ (i # 0 => i \in 1 .. n)
      BY <1>1
    <3>2. f[i + 1] = IF i + 1 = 1 THEN seqs[i + 1] ELSE f[i] \o seqs[i + 1]
      BY <2>1, <3>1 DEF Flattens
    <3>3. g[i + 1] = IF i + 1 = 1 THEN more[i + 1] ELSE g[i] \o more[i + 1]
      BY <1>2, <3>1 DEF Flattens
    <3> QED BY <1>1, <2>3, <3>1, <3>2, <3>3
  <2> HIDE DEF T
  <2>4. n \in T
    BY <1>1, <2>2, <2>3, Induct
  <2>5. n \in 1 .. n /\ (n + 1) - 1 = n /\ n + 1 # 1
    BY <1>1, <1>5
  <2>6. f[n] = g[n]
    BY <2>4, <2>5 DEF T
  <2> QED BY <1>1, <1>2, <1>3, <2>1, <2>5, <2>6
<1> QED BY <1>4, <1>5

LEMMA Regrouped ==
  ASSUME NEW S, NEW a \in Seq(S), NEW b \in Seq(S), NEW c \in Seq(S)
  PROVE  (a \o b) \o c \in Seq(S) /\ a \o (b \o c) = (a \o b) \o c
<1>1. (a \o b) \o c \in Seq(S)
  OBVIOUS
<1>2. a \o (b \o c) = (a \o b) \o c
  BY ConcatAssociative
<1> QED BY <1>1, <1>2

\* No recipient is lost on the way into a chunk, and none is in two chunks.
THEOREM NobodyIsLost == Spec => []NothingLost
<1>1. TypeOK /\ Init => NothingLost
  <2> SUFFICES ASSUME TypeOK, Init PROVE NothingLost
    OBVIOUS
  <2>1. FlattenSeq(<<>>) = <<>>
    BY DEF FlattenSeq
  <2>2. <<>> \o <<>> \o source = source
    BY EmptySeq, ConcatEmptySeq DEF TypeOK
  <2> QED BY <2>1, <2>2 DEF Init, NothingLost
<1>2. TypeOK /\ NothingLost /\ [Next]_vars => NothingLost'
  <2> SUFFICES ASSUME TypeOK, NothingLost, [Next]_vars PROVE NothingLost'
    OBVIOUS
  <2> PICK flat : flat = FlattenSeq(yielded)
    OBVIOUS
  <2> PICK chunk : chunk = items_for_task
    OBVIOUS
  <2>1. /\ flat \in Seq(Nat) /\ chunk \in Seq(Nat) /\ items \in Seq(Nat)
        /\ FlattenSeq(Append(yielded, chunk)) = flat \o chunk
    BY FlattenTyped, FlattenAppend DEF TypeOK
  <2>2. CASE NextItem
    <3> PICK x : x = Head(items)
      OBVIOUS
    <3> PICK rest : rest = Tail(items)
      OBVIOUS
    <3>1. x \in Nat /\ rest \in Seq(Nat) /\ items = <<x>> \o rest /\ <<x>> \in Seq(Nat)
      BY <2>1, <2>2 DEF NextItem
    <3>2. Append(chunk, x) = chunk \o <<x>>
      BY <2>1, <3>1, AppendIsConcat
    <3>3. /\ (flat \o chunk) \o <<x>> \in Seq(Nat)
          /\ ((flat \o chunk) \o <<x>>) \o rest = (flat \o chunk) \o (<<x>> \o rest)
          /\ flat \o (chunk \o <<x>>) = (flat \o chunk) \o <<x>>
      <4> PICK one : one = <<x>>
        OBVIOUS
      <4> PICK S : S = Nat
        OBVIOUS
      <4>1. flat \in Seq(S) /\ chunk \in Seq(S) /\ one \in Seq(S) /\ rest \in Seq(S)
        BY <2>1, <3>1
      <4>2. /\ (flat \o chunk) \o one \in Seq(S)
            /\ ((flat \o chunk) \o one) \o rest = (flat \o chunk) \o (one \o rest)
            /\ flat \o (chunk \o one) = (flat \o chunk) \o one
        <5>1. ((flat \o chunk) \o one) \o rest = (flat \o chunk) \o (one \o rest)
          <6>1. \A u, v, w \in Seq(S) : (u \o v) \o w = u \o (v \o w)
            BY ONLY ConcatAssociative
          <6>2. flat \o chunk \in Seq(S)
            BY ONLY <4>1
          <6> QED BY ONLY <4>1, <6>1, <6>2, Zenon
        <5>2. (flat \o chunk) \o one \in Seq(S) /\ flat \o (chunk \o one) = (flat \o chunk) \o one
          BY ONLY <4>1, Regrouped
        <5> QED BY <5>1, <5>2
      <4> QED BY ONLY <4>2, one = <<x>>, S = Nat
    <3>4. source' = source /\ items' = rest
      BY <2>2 DEF NextItem, inputs
    <3>5. FlattenSeq(yielded') \o items_for_task' = (flat \o chunk) \o <<x>>
      <4>1. CASE YieldsNow
        BY <2>1, <2>2, <4>1 DEF NextItem, Restarted
      <4>2. CASE ~YieldsNow
        BY <2>2, <3>2, <3>3, <4>2 DEF NextItem
      <4> QED BY <4>1, <4>2
    <3>6. FlattenSeq(yielded') \o items_for_task' \o items' = source'
      BY <3>1, <3>3, <3>4, <3>5 DEF NothingLost
    <3> QED BY <3>6 DEF NothingLost
  <2>3. CASE YieldRemainder
    <3>1. /\ items = <<>> /\ yielded' = Append(yielded, chunk) /\ items_for_task' = <<>>
          /\ items' = items /\ source' = source
      BY <2>3 DEF YieldRemainder, inputs
    <3>2. flat \o chunk \in Seq(Nat) /\ (flat \o chunk) \o <<>> = flat \o chunk
      BY <2>1, ConcatProperties, ConcatEmptySeq
    <3>3. flat \o chunk = source
      BY <3>1, <3>2 DEF NothingLost
    <3>4. FlattenSeq(yielded') \o items_for_task' \o items' = source'
      BY <2>1, <3>1, <3>2, <3>3
    <3> QED BY <3>4 DEF NothingLost
  <2>4. CASE UNCHANGED vars
    BY <2>4 DEF vars, inputs, NothingLost
  <2> QED BY <2>2, <2>3, <2>4 DEF Next
<1> QED BY <1>1, <1>2, TypeCorrect, PTL DEF Spec

-----------------------------------------------------------------------------
(***************************************************************************)
(* The loop yields the chunks that BulkEmail gives to its subtasks: until  *)
(* the remainder is yielded every chunk is the next items_per_task items,  *)
(* and the one being filled begins where the last ended.                   *)
(***************************************************************************)
\* The n elements of s that come after the first a.
Stretch(s, a, n) == [i \in 1 .. n |-> s[a + i]]

Placed ==
  /\ ~Exhausted => \A j \in 1 .. Len(yielded) :
                     yielded[j] = Stretch(source, items_per_task * (j - 1), items_per_task)
  /\ ~Exhausted => items_for_task = Stretch(source, items_per_task * Len(yielded),
                                            Len(items_for_task))
  /\ items = Stretch(source, Len(source) - Len(items), Len(items))
  /\ YieldsChunks

LEMMA StretchIs ==
  ASSUME NEW s \in Seq(Nat), NEW a \in Nat, NEW n \in Nat, a + n <= Len(s)
  PROVE  /\ Stretch(s, a, n) \in Seq(Nat)
         /\ Len(Stretch(s, a, n)) = n
         /\ SubSeq(s, a + 1, a + n) = Stretch(s, a, n)
<1> PICK t : t = Stretch(s, a, n)
  OBVIOUS
<1>1. \A i \in 1 .. n : a + i \in 1 .. Len(s)
  OBVIOUS
<1>2. t \in [1 .. n -> Nat] /\ \A i \in 1 .. n : t[i] = s[a + i]
  BY <1>1, ElementOfSeq DEF Stretch
<1>3. t \in Seq(Nat) /\ Len(t) = n
  <2>1. t \in Seq(Nat)
    BY <1>2, SeqDef
  <2> QED BY <1>2, <2>1, LenProperties
<1>4. SubSeq(s, a + 1, a + n) = t
  <2> PICK u : u = SubSeq(s, a + 1, a + n)
    OBVIOUS
  <2>1. \A i \in (a + 1) .. (a + n) : s[i] \in Nat
    OBVIOUS
  <2>2. /\ u \in Seq(Nat)
        /\ Len(u) = IF a + 1 <= a + n THEN (a + n) - (a + 1) + 1 ELSE 0
        /\ \A i \in 1 .. (a + n) - (a + 1) + 1 : u[i] = s[(a + 1) + i - 1]
    BY <2>1, SubSeqProperties
  <2>3. Len(u) = n /\ (a + n) - (a + 1) + 1 = n
    BY <2>2
  <2>4. \A i \in 1 .. n : u[i] = s[a + i]
    <3>1. \A i \in 1 .. n : (a + 1) + i - 1 = a + i
      OBVIOUS
    <3> QED BY <2>2, <2>3, <3>1
  <2>5. \A i \in 1 .. Len(u) : u[i] = t[i]
    BY <1>2, <2>3, <2>4
  <2> QED BY <1>3, <2>2, <2>3, <2>5, SeqEqual
<1> QED BY <1>3, <1>4

LEMMA StretchTail ==
  ASSUME NEW s \in Seq(Nat), NEW a \in Nat, NEW n \in Nat, n # 0,
         a + n <= Len(s), NEW t \in Seq(Nat), t = Stretch(s, a, n)
  PROVE  Head(t) = s[a + 1] /\ Tail(t) = Stretch(s, a + 1, n - 1)
<1>1. Len(t) = n
  BY StretchIs
<1>2. t # <<>> /\ Head(t) = t[1]
  BY <1>1
<1>3. t[1] = s[a + 1]
  <2>1. 1 \in 1 .. n
    OBVIOUS
  <2> QED BY <2>1 DEF Stretch
<1>4. Tail(t) = Stretch(s, a + 1, n - 1)
  <2> PICK m \in Nat : m = n - 1
    OBVIOUS
  <2> PICK u : u = Stretch(s, a + 1, m)
    OBVIOUS
  <2> PICK v : v = Tail(t)
    OBVIOUS
  <2>1. u \in Seq(Nat) /\ Len(u) = m
    BY StretchIs
  <2>2. v \in Seq(Nat) /\ Len(v) = m /\ \A i \in 1 .. m : v[i] = t[i + 1]
    BY <1>1, <1>2, HeadTailProperties
  <2>3. ASSUME NEW i \in 1 .. m PROVE v[i] = u[i]
    <3>1. i + 1 \in 1 .. n /\ a + (i + 1) = (a + 1) + i
      OBVIOUS
    <3>2. t[i + 1] = s[a + (i + 1)]
      BY <3>1 DEF Stretch
    <3>3. u[i] = s[(a + 1) + i]
      BY DEF Stretch
    <3> QED BY <2>2, <3>1, <3>2, <3>3
  <2>4. v = u
    BY <2>1, <2>2, <2>3, SeqEqual
  <2> QED BY <2>4
<1> QED BY <1>2, <1>3, <1>4

LEMMA StretchAppend ==
  ASSUME NEW s \in Seq(Nat), NEW a \in Nat, NEW n \in Nat,
         a + (n + 1) <= Len(s), NEW t \in Seq(Nat), t = Stretch(s, a, n)
  PROVE  Append(t, s[a + (n + 1)]) = Stretch(s, a, n + 1)
<1> PICK x : x = s[a + (n + 1)]
  OBVIOUS
<1> PICK u : u = Stretch(s, a, n + 1)
  OBVIOUS
<1> PICK v : v = Append(t, x)
  OBVIOUS
<1>1. x \in Nat
  BY ElementOfSeq
<1>2. Len(t) = n
  BY StretchIs
<1>3. u \in Seq(Nat) /\ Len(u) = n + 1
  BY StretchIs
<1>4. /\ v \in Seq(Nat) /\ Len(v) = n + 1 /\ v[n + 1] = x
      /\ \A i \in 1 .. n : v[i] = t[i]
  BY <1>1, <1>2, AppendProperties
<1>5. ASSUME NEW i \in 1 .. n + 1 PROVE v[i] = u[i]
  <2>1. u[i] = s[a + i]
    BY DEF Stretch
  <2>2. CASE i = n + 1
    BY <1>4, <2>1, <2>2
  <2>3. CASE i # n + 1
    <3>1. i \in 1 .. n
      BY <2>3
    <3>2. t[i] = s[a + i]
      BY <3>1 DEF Stretch
    <3> QED BY <1>4, <2>1, <3>1, <3>2
  <2> QED BY <2>2, <2>3
<1>6. v = u
  BY <1>3, <1>4, <1>5, SeqEqual
<1> QED BY <1>6

\* The remainder is the chunk that the last id is for.
LEMMA NumberIs ==
  ASSUME NEW L \in Nat, NEW per \in Nat \ {0}, NEW n \in Nat, NEW k \in Nat, NEW c \in Nat \ {0},
         L = per * k + c, k <= n - 1, c <= per \/ k = n - 1
  PROVE  LET needed == NumberOfSubtasks(L, per)
         IN (IF needed < n THEN needed ELSE n) = k + 1
<1> PICK m : m = NumberOfSubtasks(L, per)
  OBVIOUS
<1>1. per * k \in Nat
  OBVIOUS
<1>2. L # 0
  BY <1>1
<1>3. m \in Nat \ {0} /\ per * (m - 1) < L /\ L <= per * m
  BY <1>2, NumberRoundsUp
<1>4. m >= k + 1
  <2> SUFFICES ASSUME m <= k PROVE FALSE
    BY <1>3
  <2>1. per * m <= per * k
    BY <1>3, ProductGrows
  <2>2. per * m \in Nat
    BY <1>3
  <2> QED BY <1>1, <1>3, <2>1, <2>2
<1>5. ASSUME c <= per PROVE m <= k + 1
  <2> SUFFICES ASSUME k + 1 <= m - 1 PROVE FALSE
    BY <1>3
  <2>1. per * (k + 1) <= per * (m - 1)
    BY <1>3, ProductGrows
  <2>2. per * (k + 1) = per * k + per /\ per * (m - 1) \in Nat
    BY <1>3
  <2> QED BY <1>1, <1>3, <1>5, <2>1, <2>2
<1>6. (IF m < n THEN m ELSE n) = k + 1
  BY <1>3, <1>4, <1>5
<1> QED BY <1>6

LEMMA PlacedAtFirst == ASSUME TypeOK, Init PROVE Placed
<1>1. Len(source) \in Nat /\ items = source /\ yielded = <<>> /\ items_for_task = <<>>
  BY DEF TypeOK, Init
<1>2. items = Stretch(source, Len(source) - Len(items), Len(items))
  <2>1. Len(source) - Len(items) = 0
    BY <1>1
  <2> PICK u : u = Stretch(source, 0, Len(source))
    OBVIOUS
  <2>2. u \in Seq(Nat) /\ Len(u) = Len(source)
    BY <1>1, StretchIs DEF TypeOK
  <2>3. \A i \in 1 .. Len(source) : u[i] = source[i]
    BY <1>1 DEF Stretch
  <2>4. u = source
    BY <2>2, <2>3, SeqEqual DEF TypeOK
  <2> QED BY <1>1, <2>1, <2>4
<1>3. items_for_task = Stretch(source, items_per_task * Len(yielded), Len(items_for_task))
  <2>1. Len(items_for_task) = 0 /\ 1 .. 0 = {}
    BY <1>1
  <2>2. Stretch(source, items_per_task * Len(yielded), 0) = <<>>
    BY <2>1 DEF Stretch
  <2> QED BY <1>1, <2>1, <2>2
<1>4. YieldsChunks
  <2> SUFFICES ASSUME Exhausted
               PROVE  yielded = Chunks(source, items_per_task, total_num_subtasks)
    BY DEF YieldsChunks
  <2>1. Len(source) = 0
    BY <1>1 DEF Exhausted
  <2>2. NumberOfSubtasks(0, items_per_task) = 0
    BY DEF NumberOfSubtasks, TypeOK
  <2>3. total_num_subtasks \in Nat \ {0}
    BY NumberRoundsUp DEF TypeOK, total_num_subtasks
  <2>4. Chunks(source, items_per_task, total_num_subtasks) = <<>>
    BY <2>1, <2>2, <2>3 DEF Chunks
  <2> QED BY <1>1, <2>4
<1>5. Len(yielded) = 0
  BY <1>1
<1> QED BY <1>2, <1>3, <1>4, <1>5 DEF Placed

LEMMA PlacedPreserved ==
  ASSUME TypeOK, TypeOK', Progress, Placed, [Next]_vars
  PROVE  Placed'
<1> PICK per : per = items_per_task
  OBVIOUS
<1> PICK k : k = Len(yielded)
  OBVIOUS
<1> PICK c : c = Len(items_for_task)
  OBVIOUS
<1> PICK m : m = Len(items)
  OBVIOUS
<1>1. /\ per \in Nat \ {0} /\ k \in Nat /\ c \in Nat /\ m \in Nat /\ Len(source) \in Nat
      /\ per * k \in Nat
  BY DEF TypeOK
<1>2. ~Exhausted =>
        /\ per * k + c + m = Len(source)
        /\ \A j \in 1 .. k : yielded[j] = Stretch(source, per * (j - 1), per)
        /\ items_for_task = Stretch(source, per * k, c)
  BY DEF Placed, Progress
<1>3. items = Stretch(source, Len(source) - m, m)
  BY DEF Placed
<1>4. CASE NextItem
  <2>1. /\ items # <<>> /\ m > 0 /\ ~Exhausted
        /\ source' = source /\ items_per_task' = per
    BY <1>4 DEF NextItem, inputs, TypeOK, Exhausted
  <2>2. Len(source) - m = per * k + c /\ Len(source) - m \in Nat
    BY <1>1, <1>2, <2>1
  <2>3. /\ Head(items) = source[per * k + c + 1]
        /\ Tail(items) = Stretch(source, per * k + c + 1, m - 1)
    <3> PICK a \in Nat : a = Len(source) - m
      BY <2>2
    <3>1. a \in Nat /\ m \in Nat /\ m # 0 /\ a + m <= Len(source) /\ items = Stretch(source, a, m)
      BY <1>1, <1>3, <2>1
    <3>2. source \in Seq(Nat) /\ items \in Seq(Nat)
      BY DEF TypeOK
    <3>3. Head(items) = source[a + 1] /\ Tail(items) = Stretch(source, a + 1, m - 1)
      BY ONLY <3>1, <3>2, StretchTail
    <3> QED BY <2>2, <3>3
  <2>4. items' = Tail(items) /\ Len(items') = m - 1
    BY <1>4 DEF NextItem, TypeOK
  <2>5. Len(source) - (m - 1) = per * k + c + 1
    BY <1>1, <2>2
  <2>6. items' = Stretch(source', Len(source') - Len(items'), Len(items'))
    BY <2>1, <2>3, <2>4, <2>5
  <2>7. CASE YieldsNow
    <3>1. /\ yielded' = Append(yielded, items_for_task)
          /\ items_for_task' = <<Head(items)>>
          /\ c = per
      BY <1>4, <2>7 DEF NextItem, YieldsNow, Restarted
    <3>2. /\ Len(yielded') = k + 1 /\ yielded'[k + 1] = items_for_task
          /\ \A j \in 1 .. k : yielded'[j] = yielded[j]
      BY <3>1, AppendProperties DEF TypeOK
    <3>3. per * (k + 1) = per * k + per /\ (k + 1) - 1 = k
      BY <1>1
    <3>4. \A j \in 1 .. k + 1 : yielded'[j] = Stretch(source, per * (j - 1), per)
      <4>1. \A j \in 1 .. k : yielded'[j] = Stretch(source, per * (j - 1), per)
        BY <1>2, <2>1, <3>2
      <4>2. yielded'[k + 1] = Stretch(source, per * ((k + 1) - 1), per)
        BY <1>2, <2>1, <3>1, <3>2, <3>3
      <4>3. \A j \in 1 .. k + 1 : j \in 1 .. k \/ j = k + 1
        BY <1>1
      <4> QED BY <4>1, <4>2, <4>3
    <3>5. items_for_task' = Stretch(source, per * (k + 1), 1)
      <4> PICK b : b = per * (k + 1)
        OBVIOUS
      <4>1. Head(items) = source[b + 1]
        BY <2>3, <3>1, <3>3
      <4>2. Stretch(source, b, 1) = <<source[b + 1]>>
        <5>1. 1 .. 1 = {1}
          OBVIOUS
        <5> QED BY <5>1 DEF Stretch
      <4> QED BY <3>1, <4>1, <4>2
    <3>6. Len(items_for_task') = 1 /\ ~Exhausted'
      BY <3>1 DEF Exhausted
    <3> QED BY <2>1, <2>6, <3>2, <3>4, <3>5, <3>6 DEF Placed, YieldsChunks
  <2>8. CASE ~YieldsNow
    <3>1. yielded' = yielded /\ items_for_task' = Append(items_for_task, Head(items))
      BY <1>4, <2>8 DEF NextItem
    <3>2. Len(items_for_task') = c + 1 /\ ~Exhausted'
      <4>1. Head(items) \in Nat /\ items_for_task \in Seq(Nat)
        BY <2>1, HeadTailProperties DEF TypeOK
      <4>2. Len(items_for_task') = c + 1
        BY <3>1, <4>1, AppendProperties
      <4>3. items_for_task' # <<>>
        BY <1>1, <4>2
      <4> QED BY <4>2, <4>3 DEF Exhausted
    <3>3. items_for_task' = Stretch(source, per * k, c + 1)
      <4>1. per * k + (c + 1) <= Len(source) /\ per * k + (c + 1) = per * k + c + 1
        BY <1>1, <1>2, <2>1
      <4>2. source \in Seq(Nat) /\ items_for_task \in Seq(Nat)
        BY DEF TypeOK
      <4> PICK a : a = per * k
        OBVIOUS
      <4>3. a \in Nat /\ a + (c + 1) <= Len(source) /\ items_for_task = Stretch(source, a, c)
        BY <1>1, <1>2, <2>1, <4>1
      <4>4. Append(items_for_task, source[a + (c + 1)]) = Stretch(source, a, c + 1)
        BY ONLY <1>1, <4>2, <4>3, StretchAppend
      <4> QED BY <2>3, <3>1, <4>1, <4>4
    <3>4. \A j \in 1 .. k : yielded'[j] = Stretch(source, per * (j - 1), per)
      BY <1>2, <2>1, <3>1
    <3> QED BY <2>1, <2>6, <3>1, <3>2, <3>3, <3>4 DEF Placed, YieldsChunks
  <2> QED BY <2>7, <2>8
<1>5. CASE YieldRemainder
  <2>1. /\ items = <<>> /\ m = 0 /\ items_for_task # <<>> /\ c > 0
        /\ ~Exhausted /\ Exhausted'
        /\ source' = source /\ items' = items /\ items_per_task' = per
        /\ total_num_subtasks' = total_num_subtasks
        /\ yielded' = Append(yielded, items_for_task)
    BY <1>5 DEF YieldRemainder, inputs, TypeOK, Exhausted, total_num_subtasks
  <2> PICK n : n = total_num_subtasks
    OBVIOUS
  <2>2. n \in Nat
    BY NumberRoundsUp DEF TypeOK, total_num_subtasks
  <2>3. /\ Len(source) = per * k + c /\ c \in Nat \ {0}
        /\ k <= n - 1 /\ (c <= per \/ k = n - 1)
    BY <1>1, <2>1 DEF Progress
  <2>4. (LET needed == NumberOfSubtasks(Len(source), per)
         IN IF needed < n THEN needed ELSE n) = k + 1
    <3>1. \A L \in Nat : L = per * k + c =>
            (LET needed == NumberOfSubtasks(L, per)
             IN IF needed < n THEN needed ELSE n) = k + 1
      BY ONLY <1>1, <2>2, <2>3, NumberIs
    <3> QED BY <1>1, <2>3, <3>1
  <2>5. Chunks(source, per, n) =
          [j \in 1 .. k + 1 |->
             SubSeq(source, (j - 1) * per + 1, IF j = k + 1 THEN Len(source) ELSE j * per)]
    BY <2>4 DEF Chunks
  <2>6. ASSUME NEW j \in 1 .. k + 1
        PROVE  yielded'[j] = SubSeq(source, (j - 1) * per + 1,
                                    IF j = k + 1 THEN Len(source) ELSE j * per)
    <3> PICK a : a = per * (j - 1)
      OBVIOUS
    <3>1. a \in Nat /\ (j - 1) * per = a
      BY <1>1
    <3>2. CASE j = k + 1
      <4>1. a = per * k
        BY <1>1, <3>2
      <4>2. yielded'[j] = items_for_task
        BY <2>1, <3>2, AppendProperties DEF TypeOK
      <4>3. source \in Seq(Nat) /\ a + c <= Len(source)
        BY <1>1, <2>3, <4>1 DEF TypeOK
      <4>4. SubSeq(source, a + 1, a + c) = Stretch(source, a, c)
        BY <1>1, <3>1, <4>3, StretchIs
      <4> QED BY <1>2, <2>1, <2>3, <3>1, <3>2, <4>1, <4>2, <4>4
    <3>3. CASE j # k + 1
      <4>1. j \in 1 .. k /\ j \in Nat
        BY <1>1, <3>3
      <4>2. yielded'[j] = Stretch(source, a, per)
        <5>1. yielded'[j] = yielded[j]
          BY <2>1, <4>1, AppendProperties DEF TypeOK
        <5> QED BY <1>2, <2>1, <4>1, <5>1
      <4>3. j * per = a + per
        BY <1>1, <4>1
      <4>4. per * j <= per * k /\ per * j = j * per /\ j * per \in Nat
        BY <1>1, <4>1, ProductGrows
      <4> PICK top : top = per * k
        OBVIOUS
      <4>7. a + per <= top /\ top + c = Len(source) /\ top \in Nat
        BY <1>1, <2>3, <4>3, <4>4
      <4>5. source \in Seq(Nat) /\ a + per <= Len(source)
        BY <1>1, <3>1, <4>7 DEF TypeOK
      <4>6. SubSeq(source, a + 1, a + per) = Stretch(source, a, per)
        BY <1>1, <3>1, <4>5, StretchIs
      <4> QED BY <3>1, <3>3, <4>2, <4>3, <4>6
    <3> QED BY <3>2, <3>3
  <2>7. yielded' = Chunks(source, per, n)
    <3>1. Len(yielded') = k + 1 /\ yielded' \in Seq(Seq(Nat))
      BY <2>1 DEF TypeOK
    <3> PICK f : f = Chunks(source, per, n)
      OBVIOUS
    <3>2. DOMAIN f = 1 .. k + 1 /\ \A j \in 1 .. k + 1 : f[j] = yielded'[j]
      BY <2>5, <2>6
    <3>3. f = [j \in 1 .. k + 1 |-> f[j]]
      BY <2>5
    <3>4. yielded' = [j \in 1 .. k + 1 |-> yielded'[j]]
      BY <3>1
    <3> QED BY <3>2, <3>3, <3>4
  <2>8. YieldsChunks'
    BY <2>1, <2>7 DEF YieldsChunks
  <2>9. items' = Stretch(source', Len(source') - Len(items'), Len(items'))
    BY <1>3, <2>1
  <2> QED BY <2>1, <2>8, <2>9 DEF Placed
<1>6. CASE UNCHANGED vars
  BY <1>6 DEF vars, inputs, Placed, Exhausted, YieldsChunks, total_num_subtasks
<1> QED BY <1>4, <1>5, <1>6 DEF Next

\* _generate_items_for_subtask yields the chunks that the delivery of the bulk
\* email is modelled with, whatever the query returns.
THEOREM LoopYieldsChunks == Spec => []YieldsChunks
<1>1. Init /\ TypeOK => Placed
  BY PlacedAtFirst
<1>2. TypeOK /\ TypeOK' /\ Progress /\ Placed /\ [Next]_vars => Placed'
  BY PlacedPreserved
<1>3. Placed => YieldsChunks
  BY DEF Placed
<1> QED BY <1>1, <1>2, <1>3, TypeCorrect, ProgressAlways, PTL DEF Spec
=============================================================================
