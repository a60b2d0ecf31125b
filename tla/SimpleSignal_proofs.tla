------------------------- MODULE SimpleSignal_proofs -------------------------
(***************************************************************************)
(* What SimpleSignal guarantees for every UpperLimit and every set of      *)
(* callbacks.  The inductive invariant is the conjunction of the type      *)
(* invariant, the shape of the free list, the meaning of size_ and the     *)
(* balance of a running emission.  They hold only together: connect keeps  *)
(* its types because the free list tells its end, disconnect and emit keep *)
(* theirs because size_ and left count callbacks.                          *)
(***************************************************************************)
EXTENDS SimpleSignal, FiniteSetTheorems, TLAPS

IInv == TypeOK /\ FreeListInv /\ SizeCounts /\ EmissionInv

-----------------------------------------------------------------------------

\* A word holds a callback exactly when it is a member of Callbacks.
LEMMA WordIsCallback ==
  ASSUME TypeOK, NEW s \in Slots
  PROVE  IsCallback(word[s]) <=> word[s] \in Callbacks
BY PointersDistinct DEF TypeOK, IsCallback

\* Any set of slots is finite.
LEMMA SlotSetsFinite ==
  ASSUME NEW S \in SUBSET Slots
  PROVE  IsFiniteSet(S) /\ Cardinality(S) \in Nat
<1>1. IsFiniteSet(Slots)
  BY UpperLimitAssumption, FS_Interval DEF Slots
<1>2. IsFiniteSet(S)
  BY <1>1, FS_Subset
<1> QED BY <1>2, FS_CardinalityType

-----------------------------------------------------------------------------
\* Free lists: of any array w from any head f with any count z, so that the
\* lemmas serve every state and every module that uses the array.

Words == Slots \cup Callbacks \cup {Null}

Used(w) == {s \in Slots : IsCallback(w[s])}

\* A word of an array is a callback exactly when it is a member of Callbacks.
LEMMA UsedHoldsCallbacks ==
  ASSUME NEW w \in [Slots -> Words], NEW s \in Slots
  PROVE  s \in Used(w) <=> w[s] \in Callbacks
BY PointersDistinct DEF Used, Words, IsCallback

\* The array as it is allocated is one free list of all its slots.
LEMMA WholeAtFirst ==
  ASSUME NEW w, w = [s \in Slots |-> IF s < UpperLimit THEN s + 1 ELSE Null]
  PROVE  w \in [Slots -> Words] /\ Used(w) = {} /\ Whole(w, 0, 0)
<1> USE UpperLimitAssumption
<1>1. \A s \in Slots : w[s] = IF s < UpperLimit THEN s + 1 ELSE Null
  OBVIOUS
<1>2. w \in [Slots -> Words]
  <2>1. \A s \in Slots : (IF s < UpperLimit THEN s + 1 ELSE Null) \in Words
    BY DEF Slots, Words
  <2> QED BY <2>1
<1>3. Used(w) = {}
  BY <1>1 DEF Used, IsCallback, Slots
<1> DEFINE n == UpperLimit + 1
           chain == [i \in 1..n |-> i - 1]
<1>4. n \in 1..(UpperLimit+1) /\ 0 + n = UpperLimit + 1
  OBVIOUS
<1>5. chain \in [1..n -> Slots]
  BY DEF Slots
<1>6. \A i \in 1..(n-1) : w[chain[i]] = chain[i+1]
  BY <1>1 DEF Slots
<1>7. w[chain[n]] = Null
  BY <1>1 DEF Slots
<1>8. chain[1] = 0 /\ \A i, j \in 1..n : chain[i] = chain[j] => i = j
  OBVIOUS
<1>9. \A s \in Slots : \E i \in 1..n : chain[i] = s
  <2> SUFFICES ASSUME NEW s \in Slots PROVE \E i \in 1..n : chain[i] = s
    OBVIOUS
  <2>1. s + 1 \in 1..n /\ chain[s+1] = s
    BY DEF Slots
  <2> QED BY <2>1
<1> HIDE DEF n, chain
<1>10. IsFreeList(w, 0, n, chain)
  BY <1>3, <1>6, <1>7, <1>8, <1>9 DEF IsFreeList, Used
<1> QED BY <1>2, <1>3, <1>4, <1>5, <1>10 DEF Whole

\* The head is free; its word is null exactly at the limit.
LEMMA HeadOfWhole ==
  ASSUME NEW w \in [Slots -> Words], NEW f \in Slots, NEW z \in Nat, Whole(w, f, z)
  PROVE  /\ f \notin Used(w) /\ w[f] \in Slots \cup {Null}
         /\ w[f] = Null => z = UpperLimit
         /\ w[f] # Null => z < UpperLimit
<1>1. PICK n \in 1..(UpperLimit+1) : \E chain \in [1..n -> Slots] :
            z + n = UpperLimit + 1 /\ IsFreeList(w, f, n, chain)
  BY DEF Whole
<1>2. PICK chain \in [1..n -> Slots] : z + n = UpperLimit + 1 /\ IsFreeList(w, f, n, chain)
  BY <1>1
<1>3. n \in Nat /\ n >= 1 /\ UpperLimit \in Nat
  BY UpperLimitAssumption
<1>4. 1 \in 1..n /\ chain[1] = f
  BY <1>2, <1>3 DEF IsFreeList
<1>5. f \notin Used(w)
  BY <1>2, <1>4 DEF IsFreeList, Used
<1>6. w[f] \in Slots \cup {Null}
  BY <1>5 DEF Used, Words, IsCallback
<1>7. w[f] = Null => z = UpperLimit
  <2> SUFFICES ASSUME w[f] = Null, n # 1 PROVE FALSE
    BY <1>2, <1>3
  <2>1. 1 \in 1..(n-1) /\ 2 \in 1..n
    BY <1>3
  <2>2. w[chain[1]] = chain[1+1] /\ chain[2] \in Slots
    BY <1>2, <2>1 DEF IsFreeList
  <2> QED BY <1>4, <2>2, PointersDistinct
<1>8. w[f] # Null => z < UpperLimit
  <2> SUFFICES ASSUME w[f] # Null PROVE n # 1
    BY <1>2, <1>3
  <2> QED BY <1>2, <1>4 DEF IsFreeList
<1> QED BY <1>5, <1>6, <1>7, <1>8

\* The count of a whole list is the number of slots in use.
LEMMA WholeCounts ==
  ASSUME NEW w, NEW f, NEW z \in Nat, Whole(w, f, z)
  PROVE  z = Cardinality(Used(w)) /\ ((\E s \in Slots : s \in Used(w)) => z >= 1)
<1>1. PICK n \in 1..(UpperLimit+1) : \E chain \in [1..n -> Slots] :
            z + n = UpperLimit + 1 /\ IsFreeList(w, f, n, chain)
  BY DEF Whole
<1>2. PICK chain \in [1..n -> Slots] : z + n = UpperLimit + 1 /\ IsFreeList(w, f, n, chain)
  BY <1>1
<1>3. n \in Nat /\ n >= 1 /\ UpperLimit \in Nat
  BY UpperLimitAssumption
<1>4. /\ IsFiniteSet(1..n) /\ Cardinality(1..n) = n
      /\ IsFiniteSet(Slots) /\ Cardinality(Slots) = UpperLimit + 1
  BY <1>3, FS_Interval DEF Slots
<1>5. chain \in Bijection(1..n, Slots \ Used(w))
  <2>1. \A i \in 1..n : chain[i] \in Slots \ Used(w)
    BY <1>2 DEF IsFreeList, Used
  <2>2. \A i, j \in 1..n : chain[i] = chain[j] => i = j
    BY <1>2 DEF IsFreeList
  <2>3. \A s \in Slots \ Used(w) : \E i \in 1..n : chain[i] = s
    BY <1>2 DEF IsFreeList, Used
  <2>4. chain \in [1..n -> Slots \ Used(w)]
    BY <2>1
  <2> QED BY <2>2, <2>3, <2>4 DEF Bijection, Injection, Surjection, IsInjective
<1>6. Cardinality(Slots \ Used(w)) = n
  BY <1>4, <1>5, FS_Bijection DEF ExistsBijection
<1>7. IsFiniteSet(Used(w)) /\ Cardinality(Used(w)) \in Nat /\ Slots \cap Used(w) = Used(w)
  <2>1. Used(w) \in SUBSET Slots
    BY DEF Used
  <2>2. IsFiniteSet(Used(w))
    BY <1>4, <2>1, FS_Subset
  <2> QED BY <2>1, <2>2, FS_CardinalityType
<1>8. Cardinality(Slots \ Used(w)) = Cardinality(Slots) - Cardinality(Used(w))
  <2>1. Cardinality(Slots \ Used(w)) = Cardinality(Slots) - Cardinality(Slots \cap Used(w))
    BY <1>4, <1>7, FS_Difference
  <2> QED BY <1>7, <2>1
<1>9. z = Cardinality(Used(w))
  BY <1>2, <1>3, <1>4, <1>6, <1>7, <1>8
<1>10. ASSUME NEW s \in Slots, s \in Used(w) PROVE z >= 1
  BY <1>7, <1>9, <1>10, FS_EmptySet
<1> QED BY <1>9, <1>10

\* connect takes the head: what remains is the tail of the list.
LEMMA WholeConnect ==
  ASSUME NEW w \in [Slots -> Words], NEW f \in Slots, NEW z \in Nat, Whole(w, f, z),
         w[f] # Null, NEW c \in Callbacks
  PROVE  w[f] \in Slots /\ Whole([w EXCEPT ![f] = c], w[f], z + 1)
<1>1. PICK n \in 1..(UpperLimit+1) : \E chain \in [1..n -> Slots] :
            z + n = UpperLimit + 1 /\ IsFreeList(w, f, n, chain)
  BY DEF Whole
<1>2. PICK chain \in [1..n -> Slots] : z + n = UpperLimit + 1 /\ IsFreeList(w, f, n, chain)
  BY <1>1
<1>3. n \in Nat /\ UpperLimit \in Nat /\ z < UpperLimit /\ w[f] \in Slots /\ f \notin Used(w)
  BY HeadOfWhole, UpperLimitAssumption
<1>4. n >= 2
  BY <1>2, <1>3
<1> DEFINE x == [w EXCEPT ![f] = c]
           m == n - 1
           tail == [i \in 1..m |-> chain[i+1]]
<1>5. \A t \in Slots : x[t] = IF t = f THEN c ELSE w[t]
  OBVIOUS
<1>6. Used(x) = Used(w) \cup {f}
  BY <1>5, PointersDistinct DEF Used, IsCallback
<1>7. m \in 1..(UpperLimit+1) /\ z + 1 + m = UpperLimit + 1
  BY <1>2, <1>3, <1>4
<1>8. /\ chain[1] = f /\ chain[2] = w[f]
      /\ \A i \in 2..n : chain[i] \in Slots /\ chain[i] # f
  BY <1>2, <1>3, <1>4 DEF IsFreeList
<1>9. tail \in [1..m -> Slots] /\ \A i \in 1..m : tail[i] = chain[i+1]
  BY <1>3, <1>4, <1>8
<1> HIDE DEF x
<1>10. IsFreeList(x, w[f], m, tail)
  <2>1. tail[1] = w[f]
    BY <1>4, <1>8, <1>9
  <2>2. \A i \in 1..(m-1) : x[tail[i]] = tail[i+1]
    <3> SUFFICES ASSUME NEW i \in 1..(m-1) PROVE x[tail[i]] = tail[i+1]
      OBVIOUS
    <3>1. i \in 1..m /\ i+1 \in 1..m /\ i+1 \in 2..n /\ i+1 \in 1..(n-1)
      BY <1>3, <1>4
    <3>2. w[chain[i+1]] = chain[i+1+1]
      BY <1>2, <3>1 DEF IsFreeList
    <3> QED BY <1>5, <1>8, <1>9, <3>1, <3>2
  <2>3. x[tail[m]] = Null
    <3>1. m \in 1..m /\ m+1 = n /\ n \in 2..n
      BY <1>3, <1>4
    <3>2. w[chain[n]] = Null
      BY <1>2 DEF IsFreeList
    <3>3. tail[m] = chain[n]
      BY <1>9, <3>1
    <3> HIDE DEF m, tail
    <3> QED BY <1>5, <1>8, <3>1, <3>2, <3>3
  <2>4. \A i, j \in 1..m : tail[i] = tail[j] => i = j
    <3> SUFFICES ASSUME NEW i \in 1..m, NEW j \in 1..m, tail[i] = tail[j]
                 PROVE  i = j
      OBVIOUS
    <3>1. i+1 \in 1..n /\ j+1 \in 1..n /\ chain[i+1] = chain[j+1]
      BY <1>3, <1>4, <1>9
    <3>2. i+1 = j+1
      BY <1>2, <3>1 DEF IsFreeList
    <3> QED BY <3>2
  <2>5. \A t \in Slots : t \notin Used(x) <=> \E i \in 1..m : tail[i] = t
    <3> SUFFICES ASSUME NEW t \in Slots
                 PROVE  t \notin Used(x) <=> \E i \in 1..m : tail[i] = t
      OBVIOUS
    <3>1. t \notin Used(w) <=> \E i \in 1..n : chain[i] = t
      BY <1>2 DEF IsFreeList, Used
    <3>2. CASE t \notin Used(x)
      <4>1. t \notin Used(w) /\ t # f
        BY <1>6, <3>2
      <4>2. PICK i \in 1..n : chain[i] = t
        BY <3>1, <4>1
      <4>3. i # 1
        BY <1>8, <4>1, <4>2
      <4>4. i-1 \in 1..m /\ tail[i-1] = t
        BY <1>3, <1>4, <1>9, <4>2, <4>3
      <4> QED BY <3>2, <4>4
    <3>3. CASE \E i \in 1..m : tail[i] = t
      <4>1. PICK i \in 1..m : tail[i] = t
        BY <3>3
      <4>2. i+1 \in 2..n /\ i+1 \in 1..n /\ chain[i+1] = t
        BY <1>3, <1>4, <1>9, <4>1
      <4>3. t # f /\ t \notin Used(w)
        BY <1>8, <3>1, <4>2
      <4> QED BY <1>6, <3>3, <4>3
    <3> QED BY <3>2, <3>3
  <2> HIDE DEF m, tail
  <2> QED BY <2>1, <2>2, <2>3, <2>4, <2>5 DEF IsFreeList, Used
<1> HIDE DEF m, tail
<1>11. Whole(x, w[f], z + 1)
  BY <1>7, <1>9, <1>10 DEF Whole
<1> QED BY <1>3, <1>11 DEF x

\* disconnect inserts the freed slot behind the head.
LEMMA WholeDisconnect ==
  ASSUME NEW w \in [Slots -> Words], NEW f \in Slots, NEW z \in Nat, Whole(w, f, z),
         NEW s \in Slots, IsCallback(w[s])
  PROVE  /\ s # f /\ z >= 1
         /\ Whole([w EXCEPT ![s] = w[f], ![f] = s], f, z - 1)
<1>1. PICK n \in 1..(UpperLimit+1) : \E chain \in [1..n -> Slots] :
            z + n = UpperLimit + 1 /\ IsFreeList(w, f, n, chain)
  BY DEF Whole
<1>2. PICK chain \in [1..n -> Slots] :
            z + n = UpperLimit + 1 /\ IsFreeList(w, f, n, chain)
  BY <1>1
<1>3. /\ n \in Nat /\ n >= 1 /\ UpperLimit \in Nat /\ z >= 1
      /\ f \notin Used(w) /\ s \in Used(w) /\ s # f
  <2>1. f \notin Used(w) /\ s \in Used(w)
    BY HeadOfWhole DEF Used
  <2>2. z >= 1
    BY <2>1, WholeCounts
  <2> QED BY <2>1, <2>2, UpperLimitAssumption
<1> DEFINE x == [w EXCEPT ![s] = w[f], ![f] = s]
           m == n + 1
           longer == [i \in 1..m |-> IF i = 1 THEN chain[1]
                                     ELSE IF i = 2 THEN s ELSE chain[i-1]]
<1>4. /\ \A t \in Slots : x[t] = IF t = f THEN s ELSE IF t = s THEN w[f] ELSE w[t]
      /\ Used(x) = Used(w) \ {s}
  <2>1. \A t \in Slots : x[t] = IF t = f THEN s ELSE IF t = s THEN w[f] ELSE w[t]
    BY <1>3
  <2>2. ~IsCallback(s) /\ ~IsCallback(w[f])
    BY <1>3 DEF IsCallback, Used
  <2> HIDE DEF x
  <2> QED BY <1>3, <2>1, <2>2 DEF Used
<1>5. m \in 1..(UpperLimit+1) /\ z - 1 + m = UpperLimit + 1
  BY <1>2, <1>3, <1>3
<1>6. /\ chain[1] = f
      /\ \A i \in 1..n : chain[i] \in Slots /\ chain[i] # s
      /\ \A i \in 2..n : chain[i] # f
  BY <1>2, <1>3, <1>4 DEF IsFreeList
<1>7. /\ longer \in [1..m -> Slots]
      /\ longer[1] = f /\ longer[2] = s
      /\ \A i \in 3..m : longer[i] = chain[i-1] /\ i-1 \in 2..n
  BY <1>3, <1>6
<1> HIDE DEF x
<1>8. IsFreeList(x, f, m, longer)
  <2>1. longer[1] = f
    BY <1>3, <1>7
  <2>2. \A i \in 1..(m-1) : x[longer[i]] = longer[i+1]
    <3> SUFFICES ASSUME NEW i \in 1..(m-1) PROVE x[longer[i]] = longer[i+1]
      OBVIOUS
    <3>1. CASE i = 1
      BY <1>3, <1>4, <1>7, <3>1
    <3>2. CASE i = 2
      <4>1. 1 \in 1..(n-1) /\ 3 \in 3..m
        BY <1>3, <3>2
      <4>2. w[chain[1]] = chain[1+1] /\ longer[3] = chain[3-1]
        BY <1>2, <1>7, <4>1 DEF IsFreeList
      <4>3. x[s] = w[f]
        BY <1>3, <1>4
      <4> QED BY <1>6, <1>7, <3>2, <4>2, <4>3
    <3>3. CASE i > 2
      <4>1. i \in 3..m /\ i+1 \in 3..m /\ i-1 \in 1..(n-1) /\ i-1 \in 1..n
        BY <1>3, <3>3
      <4>2. w[chain[i-1]] = chain[i-1+1] /\ i-1+1 = i+1-1
        BY <1>2, <4>1 DEF IsFreeList
      <4>3. longer[i] = chain[i-1] /\ i-1 \in 2..n /\ longer[i+1] = chain[i+1-1]
        BY <1>7, <4>1
      <4> HIDE DEF m, longer
      <4>4. x[chain[i-1]] = w[chain[i-1]]
        BY <1>4, <1>6, <4>1, <4>3
      <4> QED BY <4>2, <4>3, <4>4
    <3> QED BY <1>3, <3>1, <3>2, <3>3
  <2>3. x[longer[m]] = Null
    <3>1. w[chain[n]] = Null
      BY <1>2 DEF IsFreeList
    <3>2. CASE n = 1
      <4>1. m = 2 /\ longer[m] = s
        BY <1>7, <3>2
      <4> HIDE DEF m, longer
      <4> QED BY <1>4, <1>6, <3>1, <3>2, <4>1
    <3>3. CASE n # 1
      <4>1. m \in 3..m /\ m-1 = n /\ n \in 2..n /\ n \in 1..n
        BY <1>3, <3>3
      <4>2. longer[m] = chain[n]
        BY <1>7, <4>1
      <4> HIDE DEF m, longer
      <4> QED BY <1>4, <1>6, <3>1, <4>1, <4>2
    <3> QED BY <3>2, <3>3
  <2>4. \A i, j \in 1..m : longer[i] = longer[j] => i = j
    <3> SUFFICES ASSUME NEW i \in 1..m, NEW j \in 1..m, longer[i] = longer[j]
                 PROVE  i = j
      OBVIOUS
    <3>1. CASE i > 2 /\ j > 2
      <4>1. i \in 3..m /\ j \in 3..m /\ i-1 \in 1..n /\ j-1 \in 1..n
        BY <1>3, <3>1
      <4>2. chain[i-1] = chain[j-1]
        BY <1>7, <4>1
      <4>3. i-1 = j-1
        BY <1>2, <4>1, <4>2 DEF IsFreeList
      <4> QED BY <4>3
    <3>2. CASE i > 2 /\ j \in {1,2}
      <4>1. i \in 3..m /\ i-1 \in 1..n
        BY <1>3, <3>2
      <4> QED BY <1>6, <1>7, <3>2, <4>1
    <3>3. CASE j > 2 /\ i \in {1,2}
      <4>1. j \in 3..m /\ j-1 \in 1..n
        BY <1>3, <3>3
      <4> QED BY <1>6, <1>7, <3>3, <4>1
    <3>4. CASE i \in {1,2} /\ j \in {1,2}
      BY <1>3, <1>7, <3>4
    <3> QED BY <1>3, <3>1, <3>2, <3>3, <3>4
  <2>5. \A t \in Slots : t \notin Used(x) <=> \E i \in 1..m : longer[i] = t
    <3> SUFFICES ASSUME NEW t \in Slots
                 PROVE  t \notin Used(x) <=> \E i \in 1..m : longer[i] = t
      OBVIOUS
    <3>1. ~IsCallback(w[t]) <=> \E i \in 1..n : chain[i] = t
      BY <1>2 DEF IsFreeList
    <3>2. ASSUME t \notin Used(x), t # s
          PROVE  \E i \in 1..m : longer[i] = t
      <4>1. PICK i \in 1..n : chain[i] = t
        BY <1>4, <3>1, <3>2 DEF Used
      <4>2. CASE i = 1
        BY <1>3, <1>6, <1>7, <4>1, <4>2
      <4>3. CASE i # 1
        <5>1. i+1 \in 3..m /\ i+1 \in 1..m /\ i+1-1 = i
          BY <1>3, <4>3
        <5>2. longer[i+1] = chain[i]
          BY <1>7, <5>1
        <5> HIDE DEF m, longer
        <5> QED BY <4>1, <5>1, <5>2
      <4> QED BY <4>2, <4>3
    <3>3. \E i \in 1..m : longer[i] = s
      BY <1>3, <1>7
    <3>4. ASSUME NEW i \in 1..m PROVE longer[i] \notin Used(x)
      <4>1. CASE i = 1
        BY <1>4, <1>7, <4>1, <1>3
      <4>2. CASE i = 2
        BY <1>4, <1>7, <4>2
      <4>3. CASE i > 2
        <5>1. i \in 3..m /\ i-1 \in 1..n
          BY <1>3, <4>3
        <5>2. longer[i] = chain[i-1] /\ chain[i-1] \notin Used(w)
          BY <1>2, <1>7, <5>1 DEF IsFreeList, Used
        <5> QED BY <1>4, <5>2
      <4> QED BY <4>1, <4>2, <4>3
    <3> HIDE DEF m, longer
    <3> QED BY <3>2, <3>3, <3>4
  <2> HIDE DEF m, longer
  <2> QED BY <2>1, <2>2, <2>3, <2>4, <2>5 DEF IsFreeList, Used
<1> HIDE DEF m, longer
<1>9. Whole(x, f, z - 1)
  BY <1>5, <1>7, <1>8 DEF Whole
<1> QED BY <1>3, <1>9 DEF x

-----------------------------------------------------------------------------
\* The array of the signal.

\* What the array and the list are in every state that satisfies the invariant.
LEMMA ArrayTypes ==
  ASSUME TypeOK
  PROVE  /\ word \in [Slots -> Words] /\ freeBeg \in Slots /\ size \in Nat
         /\ ConnectedSlots = Used(word)
<1>1. size \in 0..UpperLimit
  BY DEF TypeOK
<1>2. size \in Nat
  BY <1>1, UpperLimitAssumption
<1> QED BY <1>2 DEF TypeOK, Words, ConnectedSlots, Used

\* The head of the free list holds no callback; its word is null exactly when
\* UpperLimit callbacks are connected, and names another slot otherwise.
LEMMA HeadOfFreeList ==
  ASSUME TypeOK, FreeListInv
  PROVE  /\ freeBeg \in Slots /\ freeBeg \notin ConnectedSlots
         /\ word[freeBeg] = Null => size = UpperLimit
         /\ word[freeBeg] # Null => word[freeBeg] \in Slots /\ size < UpperLimit
BY ArrayTypes, HeadOfWhole DEF FreeListInv

-----------------------------------------------------------------------------
\* How the two operations change the set of connected slots.

\* connect fills the head of the free list.
LEMMA ConnectAdds ==
  ASSUME TypeOK, FreeListInv, NEW c \in Callbacks, Connect(c)
  PROVE  ConnectedSlots' = ConnectedSlots \cup {freeBeg}
<1>1. freeBeg \in Slots
  BY DEF TypeOK
<1>2. IsCallback(c)
  BY PointersDistinct DEF IsCallback
<1>3. word' = [word EXCEPT ![freeBeg] = c]
  BY DEF Connect
<1>4. ASSUME NEW s \in Slots
      PROVE  word'[s] = IF s = freeBeg THEN c ELSE word[s]
  BY <1>3, <1>1 DEF TypeOK
<1> QED BY <1>1, <1>2, <1>4 DEF ConnectedSlots, IsCallback

\* disconnect frees its slot and no other.
LEMMA DisconnectRemoves ==
  ASSUME TypeOK, FreeListInv, NEW s \in Slots, Disconnect(s)
  PROVE  /\ ConnectedSlots' = ConnectedSlots \ {s}
         /\ s \in ConnectedSlots
         /\ s # freeBeg
         /\ \A t \in Slots : word'[t] = IF t = freeBeg THEN s
                                        ELSE IF t = s THEN word[freeBeg]
                                        ELSE word[t]
<1>1. freeBeg \in Slots /\ freeBeg \notin ConnectedSlots /\ ~IsCallback(word[freeBeg])
  BY HeadOfFreeList DEF ConnectedSlots
<1>2. s \in ConnectedSlots /\ s # freeBeg
  BY <1>1 DEF Disconnect, ConnectedSlots
<1>3. word' = [word EXCEPT ![s] = word[freeBeg], ![freeBeg] = s]
  BY DEF Disconnect
<1>4. \A t \in Slots : word'[t] = IF t = freeBeg THEN s
                                  ELSE IF t = s THEN word[freeBeg]
                                  ELSE word[t]
  BY <1>1, <1>2, <1>3 DEF TypeOK
<1>5. ~IsCallback(s)
  BY DEF IsCallback
<1> QED BY <1>1, <1>2, <1>4, <1>5 DEF ConnectedSlots, IsCallback

\* connect and disconnect keep the free list whole and size_ its count.
LEMMA ConnectKeepsList ==
  ASSUME TypeOK, FreeListInv, NEW c \in Callbacks, Connect(c)
  PROVE  FreeListInv'
<1>1. /\ word[freeBeg] # Null /\ freeBeg' = word[freeBeg] /\ size' = size + 1
      /\ word' = [word EXCEPT ![freeBeg] = c]
  BY DEF Connect
<1>2. Whole([word EXCEPT ![freeBeg] = c], word[freeBeg], size + 1)
  BY <1>1, ArrayTypes, WholeConnect DEF FreeListInv
<1> QED BY <1>1, <1>2 DEF FreeListInv

\* There was at least one callback to disconnect.
LEMMA DisconnectKeepsList ==
  ASSUME TypeOK, FreeListInv, NEW s \in Slots, Disconnect(s)
  PROVE  FreeListInv' /\ size >= 1
<1>1. /\ IsCallback(word[s]) /\ freeBeg' = freeBeg /\ size' = size - 1
      /\ word' = [word EXCEPT ![s] = word[freeBeg], ![freeBeg] = s]
  BY DEF Disconnect
<1>2. /\ size >= 1
      /\ Whole([word EXCEPT ![s] = word[freeBeg], ![freeBeg] = s], freeBeg, size - 1)
  BY <1>1, ArrayTypes, WholeDisconnect DEF FreeListInv
<1> QED BY <1>1, <1>2 DEF FreeListInv

\* size_ counts whatever a step has made of the array.
LEMMA ListCountsNext == TypeOK' /\ FreeListInv' => SizeCounts'
<1> SUFFICES ASSUME TypeOK', FreeListInv' PROVE SizeCounts'
  OBVIOUS
<1>1. size' \in Nat /\ Whole(word', freeBeg', size')
  <2>1. size' \in 0..UpperLimit
    BY DEF TypeOK
  <2> QED BY <2>1, UpperLimitAssumption DEF FreeListInv
<1>2. size' = Cardinality(Used(word'))
  BY <1>1, WholeCounts
<1> QED BY <1>2 DEF SizeCounts, ConnectedSlots, Used

-----------------------------------------------------------------------------
\* The balance of a running emission.

\* Each slot the scan passes is paid for or was free.
LEMMA EmissionStep ==
  ASSUME IInv, EmitStep
  PROVE  EmissionInv'
<1> USE DEF IInv
<1>1. /\ pos \in Nat /\ left \in Nat /\ UpperLimit \in Nat
      /\ pc \in {"idle", "scan", "call"} /\ owed \subseteq Slots
  <2>1. /\ pos \in 0..UpperLimit+1 /\ left \in 0..UpperLimit
        /\ pc \in {"idle", "scan", "call"} /\ owed \subseteq Slots
    BY DEF TypeOK
  <2> QED BY <2>1, UpperLimitAssumption
<1>2. Cardinality(owed) \in Nat /\ IsFiniteSet(owed)
  BY <1>1, SlotSetsFinite
<1>3. CASE EmitSkip
  <2>1. ConnectedSlots' = ConnectedSlots
    BY <1>3 DEF EmitSkip, table_vars, ConnectedSlots
  <2>2. /\ pc = "scan" /\ pc' = "scan" /\ pos' = pos + 1 /\ left' = left
        /\ owed' = owed /\ joined' = joined /\ pos \notin ConnectedSlots
    BY <1>3 DEF EmitSkip, Scanning, ConnectedSlots
  <2>3. Ahead' = Ahead
    BY <1>1, <2>1, <2>2 DEF Ahead, ConnectedSlots, Slots
  <2> QED BY <2>2, <2>3 DEF EmissionInv
<1>4. CASE EmitCall
  <2>1. ConnectedSlots' = ConnectedSlots
    BY <1>4 DEF EmitCall, table_vars, ConnectedSlots
  <2>2. /\ pc = "scan" /\ pc' = "call" /\ pos' = pos /\ left' = left
        /\ owed' = owed \ {pos} /\ joined' = joined
        /\ left > 0 /\ pos \in Slots /\ pos \in ConnectedSlots
    BY <1>4 DEF EmitCall, Scanning, ConnectedSlots
  <2>3. Ahead' = Ahead \ {pos} /\ pos \in Ahead
    BY <1>1, <2>1, <2>2 DEF Ahead, ConnectedSlots, Slots
  <2>4. ASSUME ~joined
        PROVE  owed' = Ahead' /\ Cardinality(owed') + 1 <= left'
    <3>1. owed = Ahead /\ Cardinality(owed) <= left
      BY <1>2, <2>2, <2>4 DEF EmissionInv
    <3>2. Cardinality(owed \ {pos}) = Cardinality(owed) - 1
      BY <1>2, <2>3, <3>1, FS_RemoveElement
    <3> QED BY <1>1, <1>2, <2>2, <2>3, <3>1, <3>2
  <2> QED BY <2>2, <2>4 DEF EmissionInv
<1>5. CASE EmitReturn
  <2>1. ConnectedSlots' = ConnectedSlots
    BY <1>5 DEF EmitReturn, table_vars, ConnectedSlots
  <2>2. /\ pc = "call" /\ pc' = "scan" /\ pos' = pos + 1 /\ left' = left - 1
        /\ owed' = owed /\ joined' = joined
    BY <1>5 DEF EmitReturn
  <2>3. Ahead' = Ahead
    BY <1>1, <2>1, <2>2 DEF Ahead, ConnectedSlots, Slots
  <2> QED BY <1>1, <1>2, <2>2, <2>3 DEF EmissionInv
<1>6. CASE EmitEnd
  BY <1>6 DEF EmitEnd, EmissionInv
<1> QED BY <1>3, <1>4, <1>5, <1>6 DEF EmitStep

\* At the start everything connected is owed and counted.
LEMMA EmissionBegin ==
  ASSUME IInv, EmitBegin
  PROVE  EmissionInv'
<1>1. ConnectedSlots' = ConnectedSlots
  BY DEF EmitBegin, table_vars, ConnectedSlots
<1>2. pc' = "scan" /\ pos' = 0 /\ left' = size /\ owed' = ConnectedSlots
  BY DEF EmitBegin
<1>3. Ahead' = ConnectedSlots
  BY <1>1, <1>2, UpperLimitAssumption DEF Ahead, ConnectedSlots, Slots
<1>4. Cardinality(ConnectedSlots) \in Nat
  BY SlotSetsFinite DEF ConnectedSlots
<1> QED BY <1>2, <1>3, <1>4 DEF IInv, SizeCounts, EmissionInv

\* A callback that goes is owed nothing any more.
LEMMA DisconnectKeepsEmission ==
  ASSUME IInv, NEW s \in Slots, Disconnect(s)
  PROVE  EmissionInv'
<1> USE DEF IInv
<1>1. ConnectedSlots' = ConnectedSlots \ {s}
  BY DisconnectRemoves
<1>2. pc' = pc /\ pos' = pos /\ left' = left /\ owed' = owed \ {s} /\ joined' = joined
  BY DEF Disconnect, emit_vars
<1>3. Ahead' = Ahead \ {s}
  BY <1>1, <1>2 DEF Ahead
<1>4. left \in Nat
  <2>1. left \in 0..UpperLimit
    BY DEF TypeOK
  <2> QED BY <2>1, UpperLimitAssumption
<1>5. Cardinality(owed') \in Nat /\ Cardinality(owed) \in Nat
      /\ Cardinality(owed') <= Cardinality(owed)
  <2>1. IsFiniteSet(owed) /\ Cardinality(owed) \in Nat
    BY SlotSetsFinite DEF TypeOK
  <2>2. IsFiniteSet(owed \ {s}) /\ Cardinality(owed \ {s}) \in Nat
    BY SlotSetsFinite DEF TypeOK
  <2>3. Cardinality(owed \ {s}) <= Cardinality(owed)
    BY <2>1, FS_Subset
  <2> QED BY <1>2, <2>1, <2>2, <2>3
<1> QED BY <1>2, <1>3, <1>4, <1>5 DEF EmissionInv

-----------------------------------------------------------------------------
\* The inductive invariant.

\* In the new array all slots are linked in order.
LEMMA InitIInv == Init => IInv
<1> SUFFICES ASSUME Init PROVE IInv
  OBVIOUS
<1> USE UpperLimitAssumption
<1>1. word \in [Slots -> Words] /\ Used(word) = {} /\ Whole(word, 0, 0)
  BY WholeAtFirst DEF Init
<1>2. TypeOK
  <2>1. 0 \in Slots /\ 0 \in 0..UpperLimit /\ 0 \in 0..UpperLimit+1
    BY DEF Slots
  <2> QED BY <1>1, <2>1 DEF Init, TypeOK, Words
<1>3. ConnectedSlots = {}
  BY <1>1 DEF ConnectedSlots, Used
<1>4. SizeCounts
  BY <1>3, FS_EmptySet DEF Init, SizeCounts
<1>5. EmissionInv
  BY DEF Init, EmissionInv
<1>6. FreeListInv
  BY <1>1 DEF Init, FreeListInv
<1> QED BY <1>2, <1>4, <1>5, <1>6 DEF IInv

\* A step that leaves the array, its head and size_ alone.
LEMMA TableUntouched ==
  ASSUME FreeListInv, SizeCounts, UNCHANGED <<word, freeBeg, size>>
  PROVE  FreeListInv' /\ SizeCounts'
<1>1. ConnectedSlots' = ConnectedSlots
  BY DEF ConnectedSlots
<1>2. SizeCounts'
  BY <1>1 DEF SizeCounts
<1> QED BY <1>2 DEF FreeListInv

\* A step that leaves the array, the emission and its history alone.
LEMMA EmissionUntouched ==
  ASSUME EmissionInv, UNCHANGED <<word, emit_vars, owed, joined>>
  PROVE  EmissionInv'
BY DEF EmissionInv, Ahead, ConnectedSlots, emit_vars

\* Every step keeps the invariant.
LEMMA NextIInv == IInv /\ [Next]_vars => IInv'
<1> SUFFICES ASSUME IInv, [Next]_vars PROVE IInv'
  OBVIOUS
<1> USE DEF IInv
<1>1. ASSUME NEW c \in Callbacks, Connect(c)
      PROVE  IInv'
  <2>1. TypeOK'
    <3>1. word[freeBeg] \in Slots /\ size < UpperLimit /\ size \in 0..UpperLimit
      BY <1>1, HeadOfFreeList DEF Connect, TypeOK
    <3>2. size + 1 \in 0..UpperLimit
      BY <3>1, UpperLimitAssumption
    <3>3. word' \in [Slots -> Slots \cup Callbacks \cup {Null}]
      BY <1>1 DEF Connect, TypeOK
    <3> QED BY <1>1, <3>1, <3>2, <3>3 DEF Connect, TypeOK, emit_vars
  <2>2. EmissionInv'
    BY <1>1 DEF Connect, EmissionInv, emit_vars
  <2> QED BY <1>1, <2>1, <2>2, ConnectKeepsList, ListCountsNext
<1>2. CASE ConnectThrows
  BY <1>2, TableUntouched, EmissionUntouched DEF ConnectThrows, TypeOK, emit_vars
<1>3. ASSUME NEW s \in Slots, Disconnect(s)
      PROVE  IInv'
  <2>1. TypeOK'
    <3>1. size \in 0..UpperLimit /\ freeBeg \in Slots /\ size >= 1
      BY <1>3, DisconnectKeepsList DEF TypeOK
    <3>2. size - 1 \in 0..UpperLimit
      BY <3>1, UpperLimitAssumption
    <3>3. word' \in [Slots -> Slots \cup Callbacks \cup {Null}]
      BY <1>3, <3>1 DEF Disconnect, TypeOK
    <3> QED BY <1>3, <3>2, <3>3 DEF Disconnect, TypeOK, emit_vars
  <2> QED BY <1>3, <2>1, DisconnectKeepsList, ListCountsNext, DisconnectKeepsEmission
<1>4. ASSUME NEW s \in Slots, DisconnectThrows(s)
      PROVE  IInv'
  BY <1>4, TableUntouched, EmissionUntouched DEF DisconnectThrows, TypeOK, emit_vars
<1>5. CASE EmitBegin
  <2>1. TypeOK'
    <3>1. 0 \in 0..UpperLimit+1 /\ ConnectedSlots \subseteq Slots
      BY UpperLimitAssumption DEF ConnectedSlots
    <3> QED BY <1>5, <3>1 DEF EmitBegin, TypeOK, table_vars
  <2> QED BY <1>5, <2>1, TableUntouched, EmissionBegin DEF EmitBegin, table_vars
<1>6. CASE EmitStep
  <2>1. UNCHANGED table_vars
    BY <1>6 DEF EmitStep, EmitSkip, EmitCall, EmitReturn, EmitEnd
  <2>2. pos' \in 0..UpperLimit+1
    <3>1. pos \in 0..UpperLimit+1
      BY DEF TypeOK
    <3> QED BY <1>6, <3>1, UpperLimitAssumption
        DEF EmitStep, EmitSkip, EmitCall, EmitReturn, EmitEnd, Scanning, Slots, EmissionInv
  <2>3. left' \in 0..UpperLimit
    <3>1. left \in 0..UpperLimit
      BY DEF TypeOK
    <3> QED BY <1>6, <3>1, UpperLimitAssumption
        DEF EmitStep, EmitSkip, EmitCall, EmitReturn, EmitEnd, Scanning, EmissionInv
  <2>4. pc' \in {"idle", "scan", "call"} /\ owed' \subseteq Slots /\ joined' \in BOOLEAN
    BY <1>6 DEF TypeOK, EmitStep, EmitSkip, EmitCall, EmitReturn, EmitEnd
  <2>5. TypeOK'
    BY <2>1, <2>2, <2>3, <2>4 DEF TypeOK, table_vars
  <2> QED BY <1>6, <2>1, <2>5, TableUntouched, EmissionStep DEF table_vars
<1>7. CASE UNCHANGED vars
  BY <1>7, TableUntouched, EmissionUntouched DEF vars, table_vars, emit_vars, TypeOK
<1> QED BY <1>1, <1>2, <1>3, <1>4, <1>5, <1>6, <1>7 DEF Next

\* So it holds throughout.
LEMMA InductiveInvariant == Spec => []IInv
BY InitIInv, NextIInv, PTL DEF Spec
-----------------------------------------------------------------------------
\* The results.

\* Every reachable state is well typed: free_beg_ never becomes null, size_
\* stays within the limit, and emit's count is not taken below zero.
THEOREM TypeCorrect == Spec => []TypeOK
BY InductiveInvariant, PTL DEF IInv

\* The free list stays a duplicate-free list of all the free slots.
THEOREM FreeListCorrect == Spec => []FreeListInv
BY InductiveInvariant, PTL DEF IInv

\* size_ is always the number of connected callbacks.
THEOREM SizeCorrect == Spec => []SizeCounts
BY InductiveInvariant, PTL DEF IInv

\* An emission's count covers exactly the callbacks it still owes a call.
THEOREM EmissionCorrect == Spec => []EmissionInv
BY InductiveInvariant, PTL DEF IInv

\* All of that at once: what connect, disconnect and emit rely on.
THEOREM ArrayCorrect == Spec => []ArrayInv
BY TypeCorrect, FreeListCorrect, SizeCorrect, EmissionCorrect, PTL DEF ArrayInv

\* An emission that nobody connects to leaves out no callback connected
\* throughout.
THEOREM EmissionComplete == Spec => EmitInvokesUnlessJoined
<1>1. IInv /\ [Next]_vars => [(pc # "idle" /\ pc' = "idle" /\ ~joined) => owed = {}]_vars
  <2> SUFFICES ASSUME IInv, [Next]_vars, pc # "idle", pc' = "idle", ~joined
               PROVE  owed = {}
    OBVIOUS
  <2>1. EmitEnd
    BY DEF Next, Connect, ConnectThrows, Disconnect, DisconnectThrows, EmitBegin,
           EmitStep, EmitSkip, EmitCall, EmitReturn, Scanning, MayCall, vars, emit_vars
  <2>2. pc = "scan" /\ ~Scanning
    BY <2>1 DEF EmitEnd
  <2>3. /\ owed = Ahead /\ Cardinality(owed) <= left
        /\ IsFiniteSet(owed) /\ Cardinality(owed) \in Nat
        /\ left \in 0..UpperLimit /\ pos \in 0..UpperLimit+1
    <3>1. owed \subseteq Slots /\ left \in 0..UpperLimit /\ pos \in 0..UpperLimit+1
      BY DEF IInv, TypeOK
    <3>2. IsFiniteSet(owed) /\ Cardinality(owed) \in Nat
      BY <3>1, SlotSetsFinite
    <3>3. owed = Ahead /\ Cardinality(owed) + 0 <= left
      BY <2>2 DEF IInv, EmissionInv
    <3> QED BY <3>1, <3>2, <3>3
  <2>4. CASE left = 0
    BY <2>3, <2>4, FS_EmptySet
  <2>5. CASE left > 0
    <3>1. pos \notin Slots
      BY <2>2, <2>5 DEF Scanning
    <3>2. pos = UpperLimit + 1
      BY <2>3, <3>1, UpperLimitAssumption DEF Slots
    <3> QED BY <2>2, <2>3, <3>2, UpperLimitAssumption DEF Ahead, ConnectedSlots, Slots
  <2> QED BY <2>3, <2>4, <2>5, UpperLimitAssumption
<1> QED BY <1>1, InductiveInvariant, PTL DEF Spec, EmitInvokesUnlessJoined

-----------------------------------------------------------------------------
\* Refinement of the bounded table of callbacks.

\* The slots in use of the abstract table are the connected ones.
LEMMA TableUsed ==
  Table!Used = ConnectedSlots /\ Table!Cardinality(Table!Used) = Cardinality(ConnectedSlots)
<1>1. Table!Used = ConnectedSlots
  BY DEF Table!Used, ConnectedSlots, IsCallback
<1>2. Table!Cardinality(ConnectedSlots) = Cardinality(ConnectedSlots)
  BY DEF Table!Cardinality, Cardinality, Table!IsFiniteSet, IsFiniteSet
<1> QED BY <1>1, <1>2

\* The array and its operations implement SlotTable: connect is refused only
\* at the limit and overwrites no callback, disconnect removes the callback
\* of its slot and no other, and emissions change nothing.
THEOREM SignalImplementsTable == Spec => ImplementsTable
<1> DEFINE T == [s \in Slots |-> IF IsCallback(word[s]) THEN word[s] ELSE Null]
<1>1. Init => Table!Init
  <2> SUFFICES ASSUME Init PROVE Table!Init
    OBVIOUS
  <2>1. TypeOK /\ ConnectedSlots = {}
    <3>1. IInv
      BY InitIInv
    <3>2. ConnectedSlots = {}
      BY UpperLimitAssumption DEF Init, ConnectedSlots, IsCallback, Slots
    <3> QED BY <3>1, <3>2 DEF IInv
  <2> QED BY <2>1 DEF Init, Table!Init, ConnectedSlots
<1>2. IInv /\ [Next]_vars => [Table!Next]_(Table!vars)
  <2> SUFFICES ASSUME IInv, [Next]_vars PROVE [Table!Next]_(Table!vars)
    OBVIOUS
  <2> USE DEF IInv
  <2>1. ASSUME NEW c \in Callbacks, Connect(c)
        PROVE  Table!Connect(c)
    <3>1. /\ freeBeg \in Slots /\ freeBeg \notin ConnectedSlots
          /\ size < UpperLimit /\ word[freeBeg] # Null
      BY <2>1, HeadOfFreeList DEF Connect
    <3>2. Table!Cardinality(Table!Used) < UpperLimit
      BY <3>1, TableUsed DEF SizeCounts
    <3>3. T' = [T EXCEPT ![freeBeg] = c]
      <4>1. word' = [word EXCEPT ![freeBeg] = c] /\ word \in [Slots -> Slots \cup Callbacks \cup {Null}]
        BY <2>1 DEF Connect, TypeOK
      <4>2. IsCallback(c)
        BY PointersDistinct DEF IsCallback
      <4> QED BY <3>1, <4>1, <4>2
    <3>4. result' = "connected"
      BY <2>1 DEF Connect
    <3> QED BY <3>1, <3>2, <3>3, <3>4, TableUsed DEF Table!Connect
  <2>2. CASE ConnectThrows
    <3>1. size = UpperLimit
      BY <2>2, HeadOfFreeList DEF ConnectThrows
    <3>2. T' = T /\ result' = "full"
      BY <2>2 DEF ConnectThrows, IsCallback
    <3> QED BY <3>1, <3>2, TableUsed DEF Table!Refuse, Table!Next, SizeCounts
  <2>3. ASSUME NEW s \in Slots, Disconnect(s)
        PROVE  Table!Disconnect(s)
    <3>1. /\ s \in ConnectedSlots /\ s # freeBeg
          /\ freeBeg \in Slots /\ freeBeg \notin ConnectedSlots
          /\ \A t \in Slots : word'[t] = IF t = freeBeg THEN s
                                         ELSE IF t = s THEN word[freeBeg]
                                         ELSE word[t]
      BY <2>3, DisconnectRemoves, HeadOfFreeList
    <3>2. ~IsCallback(s) /\ ~IsCallback(word[freeBeg])
      BY <3>1 DEF IsCallback, ConnectedSlots
    <3>3. \A t \in Slots : T'[t] = IF t = s THEN Null ELSE T[t]
      BY <3>1, <3>2 DEF IsCallback
    <3>4. T' = [T EXCEPT ![s] = Null]
      BY <3>3
    <3> QED BY <2>3, <3>1, <3>4, TableUsed DEF Table!Disconnect, Disconnect
  <2>4. ASSUME NEW s \in Slots, DisconnectThrows(s)
        PROVE  Table!NoSuchSlot(s)
    <3>1. T' = T /\ result' = "no such slot"
      BY <2>4 DEF DisconnectThrows, IsCallback
    <3>2. s \notin Table!Used
      BY <2>4, TableUsed DEF DisconnectThrows, ConnectedSlots
    <3> QED BY <3>1, <3>2 DEF Table!NoSuchSlot
  <2>5. CASE EmitBegin \/ EmitStep \/ UNCHANGED vars
    <3>1. UNCHANGED <<word, result>>
      BY <2>5 DEF EmitBegin, EmitStep, EmitSkip, EmitCall, EmitReturn, EmitEnd,
                  table_vars, vars
    <3> QED BY <3>1 DEF Table!vars, IsCallback
  <2> QED BY <2>1, <2>2, <2>3, <2>4, <2>5 DEF Next, Table!Next
<1> QED BY <1>1, <1>2, InductiveInvariant, PTL DEF Spec, ImplementsTable, Table!Spec
==============================================================================
