------------------------------ MODULE HamtProofs ------------------------------
(***************************************************************************)
(* The persistent map: its recursive functions satisfy their definitions   *)
(* and do to the pairs of a trie what a map promises, for every hash, any  *)
(* number of keys and any history; so every version that is not freed is a *)
(* trie, hamt_get and hamt_size are right, and Hamt refines MapStore.      *)
(***************************************************************************)
EXTENDS Hamt, InductionProofs, FiniteSetTheorems, SequenceTheorems

-----------------------------------------------------------------------------
(* Words: tagged values and pointers. *)

LEMMA Halves ==
  ASSUME NEW w \in Int
  PROVE  /\ w \div 2 \in Int /\ w % 2 \in 0..1
         /\ w = 2 * (w \div 2) + (w % 2)
OBVIOUS

LEMMA Doubles ==
  ASSUME NEW i \in Int
  PROVE  /\ (2 * i) % 2 = 0 /\ (2 * i) \div 2 = i
         /\ (2 * i + 1) % 2 = 1 /\ (2 * i + 1) \div 2 = i
<1>1. PICK a \in Int : a = 2 * i
  OBVIOUS
<1>2. PICK b \in Int : b = 2 * i + 1
  OBVIOUS
<1>3. a % 2 = 0 /\ a \div 2 = i
  BY <1>1, Halves
<1>4. b % 2 = 1 /\ b \div 2 = i
  BY <1>2, Halves
<1>5. QED
  BY <1>1, <1>2, <1>3, <1>4

LEMMA TagBit ==
  ASSUME NEW v \in Int
  PROVE  /\ Tagged(v) \in Int /\ Untagged(v) \in Int
         /\ IsValue(Tagged(v))
         /\ Untagged(Tagged(v)) = Untagged(v)
         /\ IsValue(v) => Tagged(Untagged(v)) = v
<1>1. v \div 2 \in Int /\ v = 2 * (v \div 2) + (v % 2)
  BY Halves
<1>2. PICK i \in Int : i = v \div 2
  BY <1>1
<1>3. Untagged(v) = 2 * i /\ Tagged(v) = 2 * i + 1
  BY <1>2 DEF Untagged, Tagged
<1>4. IsValue(Tagged(v)) /\ Untagged(Tagged(v)) = 2 * i
  BY <1>3, Doubles DEF IsValue, Untagged
<1>5. Tagged(Untagged(v)) = 2 * i + 1
  BY <1>3, Doubles DEF Tagged, Untagged
<1>6. QED
  BY <1>1, <1>2, <1>3, <1>4, <1>5 DEF IsValue

LEMMA PointersAre ==
  ASSUME NEW h, Len(h) \in Nat
  PROVE  /\ NULL \in Pointers(h)
         /\ \A p \in Pointers(h) :
              /\ p \in Nat /\ ~IsValue(p)
              /\ p # NULL => p \div 2 \in 1..Len(h) /\ p = 2 * (p \div 2)
         /\ \A i \in 1..Len(h) : 2 * i \in Pointers(h) /\ 2 * i # NULL
<1>1. NULL \in Pointers(h)
  <2>1. 0 % 2 = 0
    BY Doubles
  <2>2. QED
    BY <2>1 DEF Pointers, NULL
<1>2. ASSUME NEW p \in Pointers(h)
      PROVE  /\ p \in Nat /\ ~IsValue(p)
             /\ p # NULL => p \div 2 \in 1..Len(h) /\ p = 2 * (p \div 2)
  <2>1. p \in 0..2 * Len(h) /\ p % 2 = 0
    BY DEF Pointers
  <2>2. p \in Nat /\ ~IsValue(p)
    BY <2>1 DEF IsValue
  <2>3. PICK i \in Int : i = p \div 2
    BY <2>2, Halves
  <2>4. p = 2 * i
    BY <2>1, <2>2, <2>3, Halves
  <2>5. p # NULL => i \in 1..Len(h)
    BY <2>1, <2>4 DEF NULL
  <2>6. QED
    BY <2>2, <2>3, <2>4, <2>5
<1>3. ASSUME NEW i \in 1..Len(h) PROVE 2 * i \in Pointers(h) /\ 2 * i # NULL
  BY Doubles DEF Pointers, NULL
<1>4. QED
  BY <1>1, <1>2, <1>3

-----------------------------------------------------------------------------
(* Bitmaps: the index of a slot is the rank of its bit.                    *)

Lower(b, c) == {d \in b : d < c}

LEMMA FiniteBitmap ==
  ASSUME NEW b \in SUBSET Chunks
  PROVE  IsFiniteSet(b) /\ Cardinality(b) \in Nat
<1>1. 0 \in Int /\ 31 \in Int
  OBVIOUS
<1>2. IsFiniteSet(0..31)
  BY <1>1, FS_Interval
<1>3. QED
  BY <1>2, FS_Subset, FS_CardinalityType DEF Chunks

LEMMA IndexRange ==
  ASSUME NEW b \in SUBSET Chunks, NEW c \in Chunks
  PROVE  /\ SlotIndex(b, c) \in 1..Cardinality(b) + 1
         /\ SlotIndex(b, c) = 1 + Cardinality(Lower(b, c)) /\ SlotIndex(b, c) \in Nat
         /\ Lower(b, c) \in SUBSET Chunks /\ Cardinality(Lower(b, c)) \in Nat
         /\ c \in b => SlotIndex(b, c) \in 1..Cardinality(b)
<1>1. Lower(b, c) \in SUBSET b /\ Lower(b, c) \in SUBSET Chunks
  BY DEF Lower
<1>2. Cardinality(Lower(b, c)) \in Nat /\ Cardinality(Lower(b, c)) <= Cardinality(b)
  BY <1>1, FiniteBitmap, FS_Subset
<1>3. c \in b => Lower(b, c) # b
  BY DEF Lower, Chunks
<1>4. c \in b => Cardinality(Lower(b, c)) # Cardinality(b)
  BY <1>1, <1>3, FiniteBitmap, FS_Subset
<1>5. SlotIndex(b, c) = 1 + Cardinality(Lower(b, c))
  BY DEF SlotIndex, Lower
<1>6. QED
  BY <1>1, <1>2, <1>4, <1>5, FiniteBitmap

LEMMA IndexMonotonic ==
  ASSUME NEW b \in SUBSET Chunks, NEW c \in b, NEW d \in Chunks, c < d
  PROVE  SlotIndex(b, c) < SlotIndex(b, d)
<1>1. Lower(b, c) \in SUBSET Lower(b, d)
  <2>1. ASSUME NEW e \in Lower(b, c) PROVE e \in Lower(b, d)
    <3>1. e \in b /\ e < c /\ e \in Int /\ c \in Int /\ d \in Int
      BY DEF Lower, Chunks
    <3>2. e < d
      BY <3>1
    <3>3. QED
      BY <3>1, <3>2 DEF Lower
  <2>2. QED
    BY <2>1
<1>2. c \in Lower(b, d) /\ c \notin Lower(b, c)
  BY DEF Lower, Chunks
<1>3. IsFiniteSet(Lower(b, d))
  BY FiniteBitmap DEF Lower
<1>4. Cardinality(Lower(b, c)) <= Cardinality(Lower(b, d))
      /\ Cardinality(Lower(b, c)) # Cardinality(Lower(b, d))
  BY <1>1, <1>2, <1>3, FS_Subset
<1>5. QED
  BY <1>4, IndexRange

LEMMA IndexInjective ==
  ASSUME NEW b \in SUBSET Chunks, NEW c \in b, NEW d \in b, SlotIndex(b, c) = SlotIndex(b, d)
  PROVE  c = d
<1>1. c \in Int /\ d \in Int
  BY DEF Chunks
<1>2. c \in Chunks /\ d \in Chunks
  OBVIOUS
<1>3. SlotIndex(b, c) \in Int
  BY <1>2, IndexRange
<1>4. ~(c < d)
  BY <1>2, <1>3, IndexMonotonic
<1>5. ~(d < c)
  BY <1>2, <1>3, IndexMonotonic
<1>6. QED
  BY <1>1, <1>4, <1>5

(* Every slot has its bit. *)
LEMMA IndexOnto ==
  ASSUME NEW b \in SUBSET Chunks, NEW i \in 1..Cardinality(b)
  PROVE  \E c \in b : SlotIndex(b, c) = i
<1> DEFINE T == 1..Cardinality(b)
           f == [c \in b |-> SlotIndex(b, c)]
<1>1. Cardinality(b) \in Nat /\ IsFiniteSet(b)
  BY FiniteBitmap
<1>2. f \in [b -> T]
  BY IndexRange
<1>3. f \in Injection(b, T)
  <2>1. \A x, y \in b : f[x] = f[y] => x = y
    BY IndexInjective
  <2>2. QED
    BY <1>2, <2>1 DEF Injection, IsInjective
<1>4. IsFiniteSet(T) /\ Cardinality(T) = Cardinality(b)
  BY <1>1, FS_Interval
<1>5. f \in Surjection(b, T)
  <2> HIDE DEF f, T
  <2>1. QED
    BY <1>3, <1>4, FS_Injection
<1>6. QED
  BY <1>5 DEF Surjection

LEMMA IndexAdd ==
  ASSUME NEW b \in SUBSET Chunks, NEW k \in Chunks, k \notin b, NEW c \in Chunks
  PROVE  /\ b \cup {k} \in SUBSET Chunks
         /\ Cardinality(b \cup {k}) = Cardinality(b) + 1
         /\ SlotIndex(b \cup {k}, c) = SlotIndex(b, c) + (IF k < c THEN 1 ELSE 0)
<1>1. Cardinality(b \cup {k}) = Cardinality(b) + 1
  BY FiniteBitmap, FS_AddElement
<1>2. Lower(b \cup {k}, c) = IF k < c THEN Lower(b, c) \cup {k} ELSE Lower(b, c)
  BY DEF Lower
<1>3. k \notin Lower(b, c) /\ IsFiniteSet(Lower(b, c))
  BY FiniteBitmap DEF Lower
<1>4. Cardinality(Lower(b, c) \cup {k}) = Cardinality(Lower(b, c)) + 1
  BY <1>3, FS_AddElement
<1>5. b \cup {k} \in SUBSET Chunks
  OBVIOUS
<1>6. SlotIndex(b \cup {k}, c) = 1 + Cardinality(Lower(b \cup {k}, c))
      /\ SlotIndex(b, c) = 1 + Cardinality(Lower(b, c))
      /\ Cardinality(Lower(b, c)) \in Nat
  BY <1>5, IndexRange
<1>7. QED
  BY <1>1, <1>2, <1>4, <1>5, <1>6

LEMMA IndexRemove ==
  ASSUME NEW b \in SUBSET Chunks, NEW k \in b, NEW c \in Chunks
  PROVE  /\ b \ {k} \in SUBSET Chunks
         /\ Cardinality(b \ {k}) = Cardinality(b) - 1
         /\ SlotIndex(b \ {k}, c) = SlotIndex(b, c) - (IF k < c THEN 1 ELSE 0)
<1>1. b \ {k} \in SUBSET Chunks /\ k \in Chunks /\ k \notin b \ {k} /\ (b \ {k}) \cup {k} = b
  OBVIOUS
<1>2. /\ Cardinality(b) = Cardinality(b \ {k}) + 1
      /\ SlotIndex(b, c) = SlotIndex(b \ {k}, c) + (IF k < c THEN 1 ELSE 0)
  BY <1>1, IndexAdd
<1>3. Cardinality(b \ {k}) \in Nat /\ SlotIndex(b \ {k}, c) \in Nat
  BY <1>1, FiniteBitmap, IndexRange
<1>4. QED
  BY <1>1, <1>2, <1>3

-----------------------------------------------------------------------------
(* Nodes: the slots by their chunks.                                       *)

SlotSet == [key : Nat, word : Int]
Dense(n) == n \in Nodes /\ Len(n.slots) = Cardinality(n.bitmap)

LEMMA DenseNode ==
  ASSUME NEW n, Dense(n)
  PROVE  /\ n.bitmap \in SUBSET Chunks /\ n.count \in Int /\ n.slots \in Seq(SlotSet)
         /\ Len(n.slots) \in Nat
         /\ \A c \in n.bitmap : SlotIndex(n.bitmap, c) \in 1..Len(n.slots) /\ SlotOf(n, c) \in SlotSet
         /\ SlotsOf(n) = {SlotOf(n, c) : c \in n.bitmap}
<1>1. n.bitmap \in SUBSET Chunks /\ n.count \in Int /\ n.slots \in Seq(SlotSet)
  BY DEF Dense, Nodes, SlotSet
<1>2. Len(n.slots) \in Nat /\ Len(n.slots) = Cardinality(n.bitmap)
  BY <1>1, LenProperties DEF Dense
<1>3. ASSUME NEW c \in n.bitmap
      PROVE  SlotIndex(n.bitmap, c) \in 1..Len(n.slots) /\ SlotOf(n, c) \in SlotSet
  <2>1. SlotIndex(n.bitmap, c) \in 1..Len(n.slots)
    BY <1>1, <1>2, IndexRange
  <2>2. QED
    BY <2>1, <1>1, ElementOfSeq DEF SlotOf
<1>4. \A i \in 1..Len(n.slots) : \E c \in n.bitmap : SlotIndex(n.bitmap, c) = i
  BY <1>1, <1>2, IndexOnto
<1>5. SlotsOf(n) = {SlotOf(n, c) : c \in n.bitmap}
  BY <1>3, <1>4 DEF SlotsOf, SlotOf
<1>6. QED
  BY <1>1, <1>2, <1>3, <1>5

LEMMA WithSlotIs ==
  ASSUME NEW S, NEW slots \in Seq(S), NEW i \in 1..Len(slots) + 1, NEW s \in S
  PROVE  /\ WithSlot(slots, i, s) \in Seq(S)
         /\ Len(WithSlot(slots, i, s)) = Len(slots) + 1
         /\ \A j \in 1..Len(slots) + 1 :
              WithSlot(slots, i, s)[j] =
                IF j < i THEN slots[j] ELSE IF j = i THEN s ELSE slots[j - 1]
<1> DEFINE a == SubSeq(slots, 1, i - 1)
           b == SubSeq(slots, i, Len(slots))
<1>1. Len(slots) \in Nat /\ \A j \in 1..Len(slots) : slots[j] \in S
  BY LenProperties, ElementOfSeq
<1>2. /\ a \in Seq(S) /\ Len(a) = i - 1
      /\ \A j \in 1..i - 1 : a[j] = slots[j]
  <2>1. i - 1 \in Int /\ 1 \in Int /\ \A j \in 1..i - 1 : slots[j] \in S
    BY <1>1
  <2>2. /\ a \in Seq(S) /\ Len(a) = IF 1 <= i - 1 THEN (i - 1) - 1 + 1 ELSE 0
        /\ \A j \in 1..(i - 1) - 1 + 1 : a[j] = slots[1 + j - 1]
    BY <2>1, SubSeqProperties
  <2>3. QED
    BY <1>1, <2>1, <2>2
<1>3. /\ b \in Seq(S) /\ Len(b) = Len(slots) - i + 1
      /\ \A j \in 1..Len(slots) - i + 1 : b[j] = slots[i + j - 1]
  <2>1. i \in Int /\ Len(slots) \in Int /\ \A j \in i..Len(slots) : slots[j] \in S
    BY <1>1
  <2>2. /\ b \in Seq(S) /\ Len(b) = IF i <= Len(slots) THEN Len(slots) - i + 1 ELSE 0
        /\ \A j \in 1..Len(slots) - i + 1 : b[j] = slots[i + j - 1]
    BY <2>1, SubSeqProperties
  <2>3. QED
    BY <1>1, <2>1, <2>2
<1> DEFINE m == <<s>>
<1>4. m \in Seq(S) /\ Len(m) = 1 /\ m[1] = s
  OBVIOUS
<1> HIDE DEF a, b, m
<1> DEFINE am == a \o m
<1>5. /\ am \in Seq(S) /\ Len(am) = i
      /\ \A j \in 1..i : am[j] = IF j < i THEN slots[j] ELSE s
  <2>1. /\ a \o m \in Seq(S) /\ Len(a \o m) = Len(a) + Len(m)
        /\ \A j \in 1..Len(a) + Len(m) : (a \o m)[j] = IF j <= Len(a) THEN a[j] ELSE m[j - Len(a)]
    BY <1>2, <1>4, ConcatProperties
  <2>2. QED
    BY <1>1, <1>2, <1>4, <2>1
<1>6. WithSlot(slots, i, s) = am \o b
  BY DEF WithSlot, a, b, m
<1> HIDE DEF am
<1>7. /\ am \o b \in Seq(S) /\ Len(am \o b) = Len(slots) + 1
      /\ \A j \in 1..Len(slots) + 1 :
           (am \o b)[j] = IF j < i THEN slots[j] ELSE IF j = i THEN s ELSE slots[j - 1]
  <2>1. /\ am \o b \in Seq(S) /\ Len(am \o b) = Len(am) + Len(b)
        /\ \A j \in 1..Len(am) + Len(b) :
             (am \o b)[j] = IF j <= Len(am) THEN am[j] ELSE b[j - Len(am)]
    BY <1>3, <1>5, ConcatProperties
  <2>2. ASSUME NEW j \in 1..Len(slots) + 1
        PROVE  (am \o b)[j] = IF j < i THEN slots[j] ELSE IF j = i THEN s ELSE slots[j - 1]
    BY <1>1, <1>3, <1>5, <2>1
  <2>3. QED
    BY <1>1, <1>3, <1>5, <2>1, <2>2
<1>8. QED
  BY <1>6, <1>7

LEMMA WithoutSlotIs ==
  ASSUME NEW S, NEW slots \in Seq(S), NEW i \in 1..Len(slots)
  PROVE  /\ WithoutSlot(slots, i) \in Seq(S)
         /\ Len(WithoutSlot(slots, i)) = Len(slots) - 1
         /\ \A j \in 1..Len(slots) - 1 :
              WithoutSlot(slots, i)[j] = IF j < i THEN slots[j] ELSE slots[j + 1]
<1> DEFINE a == SubSeq(slots, 1, i - 1)
           b == SubSeq(slots, i + 1, Len(slots))
<1>1. Len(slots) \in Nat /\ \A j \in 1..Len(slots) : slots[j] \in S
  BY LenProperties, ElementOfSeq
<1>2. /\ a \in Seq(S) /\ Len(a) = i - 1
      /\ \A j \in 1..i - 1 : a[j] = slots[j]
  <2>1. i - 1 \in Int /\ 1 \in Int /\ \A j \in 1..i - 1 : slots[j] \in S
    BY <1>1
  <2>2. /\ a \in Seq(S) /\ Len(a) = IF 1 <= i - 1 THEN (i - 1) - 1 + 1 ELSE 0
        /\ \A j \in 1..(i - 1) - 1 + 1 : a[j] = slots[1 + j - 1]
    BY <2>1, SubSeqProperties
  <2>3. QED
    BY <1>1, <2>1, <2>2
<1>3. /\ b \in Seq(S) /\ Len(b) = Len(slots) - i
      /\ \A j \in 1..Len(slots) - i : b[j] = slots[i + j]
  <2>1. i + 1 \in Int /\ Len(slots) \in Int /\ \A j \in i + 1..Len(slots) : slots[j] \in S
    BY <1>1
  <2>2. /\ b \in Seq(S) /\ Len(b) = IF i + 1 <= Len(slots) THEN Len(slots) - (i + 1) + 1 ELSE 0
        /\ \A j \in 1..Len(slots) - (i + 1) + 1 : b[j] = slots[(i + 1) + j - 1]
    BY <2>1, SubSeqProperties
  <2>3. QED
    BY <1>1, <2>1, <2>2
<1> HIDE DEF a, b
<1>4. /\ a \o b \in Seq(S) /\ Len(a \o b) = Len(a) + Len(b)
      /\ \A j \in 1..Len(a) + Len(b) : (a \o b)[j] = IF j <= Len(a) THEN a[j] ELSE b[j - Len(a)]
  BY <1>2, <1>3, ConcatProperties
<1>5. WithoutSlot(slots, i) = a \o b
  BY DEF WithoutSlot, a, b
<1>6. ASSUME NEW j \in 1..Len(slots) - 1
      PROVE  (a \o b)[j] = IF j < i THEN slots[j] ELSE slots[j + 1]
  <2>1. CASE j < i
    BY <2>1, <1>1, <1>2, <1>3, <1>4
  <2>2. CASE ~(j < i)
    <3>1. j \in 1..Len(a) + Len(b) /\ ~(j <= Len(a)) /\ j - Len(a) \in 1..Len(slots) - i
      BY <2>2, <1>1, <1>2, <1>3
    <3>2. i + (j - Len(a)) = j + 1
      BY <1>2, <1>1
    <3>3. QED
      BY <2>2, <3>1, <3>2, <1>3, <1>4
  <2>3. QED
    BY <2>1, <2>2
<1>7. Len(a \o b) = Len(slots) - 1
  BY <1>1, <1>2, <1>3, <1>4
<1>8. QED
  BY <1>4, <1>5, <1>6, <1>7

(* The three ways a node is made of another. *)
IsNode(m) == m = Node(m.bitmap, m.count, m.slots) /\ m.count \in Int
Adds(m, n, k, s) ==
  IsNode(m) /\ m.bitmap = n.bitmap \cup {k} /\ m.slots = WithSlot(n.slots, SlotIndex(n.bitmap, k), s)
Removes(m, n, k) ==
  IsNode(m) /\ m.bitmap = n.bitmap \ {k} /\ m.slots = WithoutSlot(n.slots, SlotIndex(n.bitmap, k))
Replaces(m, n, k, s) ==
  IsNode(m) /\ m.bitmap = n.bitmap /\ m.slots = [n.slots EXCEPT ![SlotIndex(n.bitmap, k)] = s]

(* The slots of m are those of n, except for s, where k leads. *)
Puts(m, n, k, s) == \A d \in m.bitmap : SlotOf(m, d) = IF d = k THEN s ELSE SlotOf(n, d)
Keeps(m, n) == \A d \in m.bitmap : SlotOf(m, d) = SlotOf(n, d)

LEMMA AddSlot ==
  ASSUME NEW n, Dense(n), NEW k, k \in Chunks, k \notin n.bitmap, NEW s, s \in SlotSet,
         NEW m, Adds(m, n, k, s)
  PROVE  Dense(m) /\ Puts(m, n, k, s)
<1> DEFINE i == SlotIndex(n.bitmap, k)
           slots == WithSlot(n.slots, i, s)
<1> USE DEF Adds, IsNode
<1>0. n.bitmap \in SUBSET Chunks /\ k \notin n.bitmap /\ k \in Chunks
  BY DenseNode
<1>1. n.slots \in Seq(SlotSet) /\ Len(n.slots) = Cardinality(n.bitmap) /\ Len(n.slots) \in Nat
  BY DenseNode DEF Dense
<1>2. i \in 1..Len(n.slots) + 1
  BY <1>0, <1>1, IndexRange
<1>3. /\ slots \in Seq(SlotSet)
      /\ Len(slots) = Len(n.slots) + 1
      /\ \A j \in 1..Len(n.slots) + 1 :
           slots[j] = IF j < i THEN n.slots[j] ELSE IF j = i THEN s ELSE n.slots[j - 1]
  <2> DEFINE t == n.slots
  <2> HIDE DEF i
  <2>1. t \in Seq(SlotSet) /\ i \in 1..Len(t) + 1
    BY <1>1, <1>2
  <2> HIDE DEF t
  <2>2. /\ WithSlot(t, i, s) \in Seq(SlotSet)
        /\ Len(WithSlot(t, i, s)) = Len(t) + 1
        /\ \A j \in 1..Len(t) + 1 :
             WithSlot(t, i, s)[j] = IF j < i THEN t[j] ELSE IF j = i THEN s ELSE t[j - 1]
    BY <2>1, WithSlotIs
  <2>3. QED
    BY <2>2 DEF t
<1>4. m.bitmap = n.bitmap \cup {k} /\ m.slots = slots
  OBVIOUS
<1>5. Cardinality(n.bitmap \cup {k}) = Cardinality(n.bitmap) + 1
  BY <1>0, IndexAdd
<1>6. Dense(m)
  <2>1. m \in Nodes
    BY <1>0, <1>3 DEF Nodes, Node, SlotSet
  <2> HIDE DEF slots
  <2>2. QED
    BY <1>1, <1>3, <1>4, <1>5, <2>1 DEF Dense
<1>7. ASSUME NEW c \in n.bitmap \cup {k} PROVE SlotOf(m, c) = IF c = k THEN s ELSE SlotOf(n, c)
  <2>1. c \in Chunks /\ c \in Int /\ k \in Int
    BY <1>0 DEF Chunks
  <2>2. SlotIndex(n.bitmap \cup {k}, c) = SlotIndex(n.bitmap, c) + (IF k < c THEN 1 ELSE 0)
    BY <1>0, <2>1, IndexAdd
  <2>3. SlotOf(m, c) = slots[SlotIndex(n.bitmap \cup {k}, c)]
    BY <1>4 DEF SlotOf
  <2>4. SlotIndex(n.bitmap, c) \in Int
    <3>1. SlotIndex(n.bitmap, c) \in Nat
      BY <1>0, <2>1, IndexRange
    <3>2. QED
      BY <3>1
  <2> HIDE DEF slots
  <2>5. CASE c = k
    BY <2>2, <2>3, <2>4, <2>5, <2>1, <1>2, <1>3
  <2>6. CASE c < k
    <3>1. c \in n.bitmap /\ SlotIndex(n.bitmap, c) < i /\ SlotIndex(n.bitmap, c) \in 1..Len(n.slots)
      BY <2>6, <2>1, <1>0, <1>1, IndexMonotonic, DenseNode
    <3> HIDE DEF i
    <3>2. QED
      BY <3>1, <2>1, <2>2, <2>3, <2>4, <2>6, <1>3, <1>2, <1>1 DEF SlotOf
  <2>7. CASE k < c
    <3>1. c \in n.bitmap /\ SlotIndex(n.bitmap, c) \in 1..Len(n.slots)
      BY <2>7, <2>1, DenseNode
    <3>2. i <= SlotIndex(n.bitmap, c)
      <4>1. Lower(n.bitmap, k) \in SUBSET Lower(n.bitmap, c)
        <5>1. ASSUME NEW e \in Lower(n.bitmap, k) PROVE e \in Lower(n.bitmap, c)
          <6>1. e \in n.bitmap /\ e < k /\ e \in Int
            BY <1>0 DEF Lower, Chunks
          <6>2. e < c
            BY <6>1, <2>1, <2>7
          <6>3. QED
            BY <6>1, <6>2 DEF Lower
        <5>2. QED
          BY <5>1
      <4>2. IsFiniteSet(Lower(n.bitmap, c))
        BY <1>0, <2>1, IndexRange, FiniteBitmap
      <4>3. Cardinality(Lower(n.bitmap, k)) <= Cardinality(Lower(n.bitmap, c))
        BY <4>1, <4>2, FS_Subset
      <4>4. SlotIndex(n.bitmap, k) = 1 + Cardinality(Lower(n.bitmap, k))
            /\ Cardinality(Lower(n.bitmap, k)) \in Nat
        BY <1>0, IndexRange
      <4>5. SlotIndex(n.bitmap, c) = 1 + Cardinality(Lower(n.bitmap, c))
            /\ Cardinality(Lower(n.bitmap, c)) \in Nat
        BY <1>0, <2>1, IndexRange
      <4>6. QED
        BY <4>3, <4>4, <4>5
    <3> HIDE DEF i
    <3>3. QED
      BY <3>1, <3>2, <2>1, <2>2, <2>3, <2>4, <2>7, <1>3, <1>2, <1>1 DEF SlotOf
  <2>8. QED
    BY <2>1, <2>5, <2>6, <2>7
<1>8. QED
  BY <1>4, <1>6, <1>7 DEF Puts

LEMMA RemoveSlot ==
  ASSUME NEW n, Dense(n), NEW k, k \in n.bitmap, NEW m, Removes(m, n, k)
  PROVE  Dense(m) /\ Keeps(m, n)
<1> DEFINE i == SlotIndex(n.bitmap, k)
           slots == WithoutSlot(n.slots, i)
<1> USE DEF Removes, IsNode
<1>0. n.bitmap \in SUBSET Chunks /\ k \in Chunks
  BY DenseNode
<1>1. n.slots \in Seq(SlotSet) /\ Len(n.slots) = Cardinality(n.bitmap) /\ Len(n.slots) \in Nat
  BY DenseNode DEF Dense
<1>2. i \in 1..Len(n.slots)
  BY DenseNode
<1>3. /\ slots \in Seq(SlotSet)
      /\ Len(slots) = Len(n.slots) - 1
      /\ \A j \in 1..Len(n.slots) - 1 : slots[j] = IF j < i THEN n.slots[j] ELSE n.slots[j + 1]
  <2> HIDE DEF i
  <2>1. QED
    BY <1>1, <1>2, WithoutSlotIs
<1>4. m.bitmap = n.bitmap \ {k} /\ m.slots = slots
  OBVIOUS
<1>5. Cardinality(n.bitmap \ {k}) = Cardinality(n.bitmap) - 1
  BY <1>0, IndexRemove
<1>6. Dense(m)
  <2>1. m \in Nodes
    BY <1>0, <1>3 DEF Nodes, Node, SlotSet
  <2> HIDE DEF slots
  <2>2. QED
    BY <1>1, <1>3, <1>4, <1>5, <2>1 DEF Dense
<1>7. ASSUME NEW c \in n.bitmap \ {k} PROVE SlotOf(m, c) = SlotOf(n, c)
  <2>1. c \in Chunks /\ c \in Int /\ k \in Int /\ c \in n.bitmap /\ c # k
    BY <1>0 DEF Chunks
  <2>2. SlotIndex(n.bitmap \ {k}, c) = SlotIndex(n.bitmap, c) - (IF k < c THEN 1 ELSE 0)
    BY <1>0, <2>1, IndexRemove
  <2>3. SlotOf(m, c) = slots[SlotIndex(n.bitmap \ {k}, c)]
    BY <1>4 DEF SlotOf
  <2>4. SlotIndex(n.bitmap, c) \in 1..Len(n.slots) /\ SlotIndex(n.bitmap, c) \in Int
    BY <2>1, DenseNode
  <2> HIDE DEF slots
  <2>5. CASE c < k
    <3>1. SlotIndex(n.bitmap, c) < i
      BY <2>5, <2>1, <1>0, IndexMonotonic
    <3> HIDE DEF i
    <3>2. QED
      BY <3>1, <2>1, <2>2, <2>3, <2>4, <2>5, <1>3, <1>2, <1>1 DEF SlotOf
  <2>6. CASE k < c
    <3>1. i < SlotIndex(n.bitmap, c)
      BY <2>6, <2>1, <1>0, IndexMonotonic
    <3> HIDE DEF i
    <3>2. QED
      BY <3>1, <2>1, <2>2, <2>3, <2>4, <2>6, <1>3, <1>2, <1>1 DEF SlotOf
  <2>7. QED
    BY <2>1, <2>5, <2>6
<1>8. QED
  BY <1>4, <1>6, <1>7 DEF Keeps

LEMMA ReplaceSlot ==
  ASSUME NEW n, Dense(n), NEW k, k \in n.bitmap, NEW s, s \in SlotSet, NEW m, Replaces(m, n, k, s)
  PROVE  Dense(m) /\ Puts(m, n, k, s)
<1> DEFINE i == SlotIndex(n.bitmap, k)
           slots == [n.slots EXCEPT ![i] = s]
<1> USE DEF Replaces, IsNode
<1>1. n.slots \in Seq(SlotSet) /\ Len(n.slots) = Cardinality(n.bitmap) /\ i \in 1..Len(n.slots)
  BY DenseNode DEF Dense
<1>2. /\ slots \in Seq(SlotSet) /\ Len(slots) = Len(n.slots)
      /\ \A j \in 1..Len(n.slots) : slots[j] = IF j = i THEN s ELSE n.slots[j]
  <2> HIDE DEF i
  <2>1. QED
    BY <1>1, ExceptSeq
<1>3. m.bitmap = n.bitmap /\ m.slots = slots
  OBVIOUS
<1>6. m \in Nodes
  <2>1. n.bitmap \in SUBSET Chunks
    BY DenseNode
  <2> HIDE DEF slots
  <2>2. QED
    BY <1>2, <1>3, <2>1 DEF Nodes, SlotSet, Node
<1>4. Dense(m)
  <2> HIDE DEF slots
  <2>1. QED
    BY <1>1, <1>2, <1>3, <1>6 DEF Dense
<1>5. ASSUME NEW c \in n.bitmap PROVE SlotOf(m, c) = IF c = k THEN s ELSE SlotOf(n, c)
  <2>1. SlotOf(m, c) = slots[SlotIndex(n.bitmap, c)] /\ SlotOf(n, c) = n.slots[SlotIndex(n.bitmap, c)]
    BY <1>3 DEF SlotOf
  <2>2. SlotIndex(n.bitmap, c) \in 1..Len(n.slots)
    BY DenseNode
  <2>3. SlotIndex(n.bitmap, c) = i <=> c = k
    BY DenseNode, IndexInjective
  <2> HIDE DEF slots, i
  <2>4. QED
    BY <2>1, <2>2, <2>3, <1>2
<1>7. QED
  BY <1>3, <1>4, <1>5 DEF Puts

-----------------------------------------------------------------------------
(* Memory.                                                                 *)

(* A slot has a key and a value, or a pointer to a node of h. *)
Fits(s, h) == IF IsValue(s.word) THEN s.key \in Keys ELSE s.word \in Pointers(h)
FitNode(n, h) == Dense(n) /\ \A c \in n.bitmap : Fits(SlotOf(n, c), h)

Extends(h2, h1) == Len(h1) <= Len(h2) /\ \A i \in 1..Len(h1) : h2[i] = h1[i]

LEMMA FitNodeIs ==
  ASSUME NEW n, NEW h
  PROVE  FitNode(n, h) <=> n \in Nodes /\ WellFormed(n, h)
<1>1. SUFFICES ASSUME Dense(n) PROVE FitNode(n, h) <=> WellFormed(n, h)
  BY DEF FitNode, Dense, WellFormed
<1>2. SlotsOf(n) = {SlotOf(n, c) : c \in n.bitmap}
  BY <1>1, DenseNode
<1>3. (\A c \in n.bitmap : Fits(SlotOf(n, c), h)) <=> \A s \in SlotsOf(n) : Fits(s, h)
  BY <1>2
<1>4. (\A s \in SlotsOf(n) : Fits(s, h)) <=> \A i \in 1..Len(n.slots) : Fits(n.slots[i], h)
  BY DEF SlotsOf
<1>5. WellFormed(n, h) <=> Len(n.slots) = Cardinality(n.bitmap) /\ \A i \in 1..Len(n.slots) : Fits(n.slots[i], h)
  BY DEF WellFormed, Fits
<1>6. QED
  BY <1>1, <1>3, <1>4, <1>5 DEF FitNode, Dense

LEMMA MemoryIs ==
  ASSUME NEW h
  PROVE  h \in Memory <=> h \in Seq(Nodes) /\ \A i \in 1..Len(h) : FitNode(h[i], h)
<1>1. h \in Memory <=> h \in Seq(Nodes) /\ \A i \in 1..Len(h) : WellFormed(h[i], h)
  BY DEF Memory
<1>2. ASSUME h \in Seq(Nodes) PROVE \A i \in 1..Len(h) : h[i] \in Nodes
  BY <1>2, ElementOfSeq
<1>3. QED
  BY <1>1, <1>2, FitNodeIs

LEMMA MemoryNode ==
  ASSUME NEW h \in Memory, NEW p \in Pointers(h), p # NULL
  PROVE  /\ p \div 2 \in 1..Len(h) /\ p = 2 * (p \div 2) /\ p \in Nat
         /\ FitNode(At(h, p), h) /\ Dense(At(h, p)) /\ At(h, p) \in Nodes
<1>1. Len(h) \in Nat
  BY LenProperties DEF Memory
<1>2. p \div 2 \in 1..Len(h) /\ p = 2 * (p \div 2) /\ p \in Nat
  BY <1>1, PointersAre
<1>3. FitNode(h[p \div 2], h)
  BY <1>2, MemoryIs
<1>4. QED
  BY <1>2, <1>3 DEF At, FitNode, Dense

LEMMA MemoryLen == ASSUME NEW h \in Memory PROVE h \in Seq(Nodes) /\ Len(h) \in Nat
BY LenProperties DEF Memory

LEMMA EmptyMemory == <<>> \in Memory /\ Len(<<>>) = 0
<1>1. <<>> \in Seq(Nodes) /\ Len(<<>>) = 0
  BY EmptySeq
<1>2. QED
  BY <1>1 DEF Memory

LEMMA ExtendsSelf == ASSUME NEW h \in Memory PROVE Extends(h, h)
BY MemoryLen DEF Extends

LEMMA ExtendsTrans ==
  ASSUME NEW h1 \in Memory, NEW h2 \in Memory, NEW h3 \in Memory, Extends(h2, h1), Extends(h3, h2)
  PROVE  Extends(h3, h1)
<1>1. Len(h1) \in Nat /\ Len(h2) \in Nat /\ Len(h3) \in Nat
  BY MemoryLen
<1>2. Len(h1) <= Len(h3)
  BY <1>1 DEF Extends
<1>3. ASSUME NEW i \in 1..Len(h1) PROVE h3[i] = h1[i]
  <2>1. i \in 1..Len(h2)
    BY <1>1 DEF Extends
  <2>2. QED
    BY <2>1 DEF Extends
<1>4. QED
  BY <1>2, <1>3 DEF Extends

LEMMA ExtendsKeeps ==
  ASSUME NEW h1 \in Memory, NEW h2 \in Memory, Extends(h2, h1)
  PROVE  /\ Pointers(h1) \subseteq Pointers(h2)
         /\ \A p \in Pointers(h1) : p # NULL => At(h2, p) = At(h1, p)
         /\ \A n : FitNode(n, h1) => FitNode(n, h2)
<1>1. Len(h1) \in Nat /\ Len(h2) \in Nat /\ Len(h1) <= Len(h2)
  BY MemoryLen DEF Extends
<1>2. Pointers(h1) \subseteq Pointers(h2)
  BY <1>1 DEF Pointers
<1>3. \A p \in Pointers(h1) : p # NULL => At(h2, p) = At(h1, p)
  BY MemoryNode DEF At, Extends
<1>4. QED
  BY <1>2, <1>3 DEF FitNode, Fits

LEMMA MallocIs ==
  ASSUME NEW h \in Memory, NEW n, FitNode(n, h)
  PROVE  LET m == Malloc(h, n)
         IN  /\ m.heap \in Memory /\ Extends(m.heap, h) /\ Len(m.heap) = Len(h) + 1
             /\ m.heap[Len(h) + 1] = n
             /\ m.node \in Pointers(m.heap) /\ m.node \notin Pointers(h) /\ m.node # NULL
             /\ m.node \in Nat /\ m.node \div 2 = Len(h) + 1 /\ At(m.heap, m.node) = n
<1> DEFINE g == Append(h, n)
           p == 2 * (Len(h) + 1)
<1>1. h \in Seq(Nodes) /\ Len(h) \in Nat /\ n \in Nodes
  BY MemoryLen DEF FitNode, Dense
<1>2. /\ g \in Seq(Nodes) /\ Len(g) = Len(h) + 1 /\ g[Len(h) + 1] = n
      /\ \A i \in 1..Len(h) : g[i] = h[i]
  BY <1>1, AppendProperties
<1>3. Malloc(h, n).heap = g /\ Malloc(h, n).node = p
  BY DEF Malloc
<1> HIDE DEF g
<1>4. Extends(g, h)
  BY <1>1, <1>2 DEF Extends
<1>5. Pointers(h) \subseteq Pointers(g)
  BY <1>1, <1>2 DEF Pointers
<1>6. ASSUME NEW i \in 1..Len(g) PROVE FitNode(g[i], g)
  <2>1. g[i] = n \/ (i \in 1..Len(h) /\ g[i] = h[i])
    BY <1>1, <1>2
  <2>2. FitNode(g[i], h)
    BY <2>1, MemoryIs
  <2>3. QED
    BY <2>2, <1>5 DEF FitNode, Fits
<1>7. g \in Memory
  BY <1>2, <1>6, MemoryIs
<1>8. p \in Pointers(g) /\ p # NULL /\ p \in Nat
  <2>1. Len(h) + 1 \in 1..Len(g) /\ Len(g) \in Nat
    BY <1>1, <1>2
  <2>2. QED
    BY <2>1, PointersAre
<1>9. p \notin Pointers(h)
  BY <1>1 DEF Pointers
<1>10. p \div 2 = Len(h) + 1
  BY <1>1, Doubles
<1>11. At(g, p) = n
  BY <1>10, <1>2 DEF At
<1>12. QED
  BY <1>2, <1>3, <1>4, <1>7, <1>8, <1>9, <1>10, <1>11

(* n is node o with another slot i and another count. *)
Clone(n, o, i, s, count) == n = [o EXCEPT !.slots[i] = s, !.count = count]

LEMMA CloneIs ==
  ASSUME NEW h \in Memory, NEW p, NEW i, NEW s, NEW count, NEW flag, FitNode(At(h, p), h),
         NEW n \in Nodes, Clone(n, At(h, p), i, s, count)
  PROVE  CloneWith(h, p, i, s, count, flag) = Result(Malloc(h, n).heap, Malloc(h, n).node, flag)
<1> DEFINE new == Malloc(h, At(h, p))
<1>1. h \in Seq(Nodes) /\ Len(h) \in Nat /\ At(h, p) \in Nodes /\ n \in Nodes
  BY MemoryLen DEF FitNode, Dense
<1>2. /\ new.heap = Append(h, At(h, p)) /\ new.node = 2 * (Len(h) + 1)
      /\ new.node \div 2 = Len(h) + 1
  BY MallocIs DEF Malloc
<1>3. Write(new.heap, new.node, n) = [Append(h, At(h, p)) EXCEPT ![Len(h) + 1] = n]
  BY <1>2 DEF Write
<1> HIDE DEF new
<1>4. [Append(h, At(h, p)) EXCEPT ![Len(h) + 1] = n] = Append(h, n)
  <2> DEFINE a == Append(h, At(h, p))
             b == Append(h, n)
             c == [a EXCEPT ![Len(h) + 1] = n]
  <2>1. a \in Seq(Nodes) /\ Len(a) = Len(h) + 1 /\ \A j \in 1..Len(h) : a[j] = h[j]
    BY <1>1, AppendProperties
  <2>2. /\ b \in Seq(Nodes) /\ Len(b) = Len(h) + 1 /\ b[Len(h) + 1] = n
        /\ \A j \in 1..Len(h) : b[j] = h[j]
    BY <1>1, AppendProperties
  <2> HIDE DEF a, b
  <2>3. Len(h) + 1 \in 1..Len(a)
    BY <1>1, <2>1
  <2>4. /\ c \in Seq(Nodes) /\ Len(c) = Len(a)
        /\ \A j \in 1..Len(a) : c[j] = IF j = Len(h) + 1 THEN n ELSE a[j]
    BY <1>1, <2>1, <2>3, ExceptSeq
  <2> HIDE DEF c
  <2>5. \A j \in 1..Len(c) : c[j] = b[j]
    BY <1>1, <2>1, <2>2, <2>4
  <2>6. c = b
    BY <2>1, <2>2, <2>4, <2>5, SeqEqual
  <2>7. QED
    BY <2>6 DEF a, b, c
<1>5. CloneWith(h, p, i, s, count, flag) = Result(Write(new.heap, new.node, n), new.node, flag)
  BY DEF CloneWith, Clone, new
<1>6. QED
  BY <1>2, <1>3, <1>4, <1>5 DEF Malloc

-----------------------------------------------------------------------------
(* Hashes.                                                                 *)

LEMMA LevelsAre ==
  /\ Levels \in Nat /\ Levels > 0
  /\ \A k \in Keys : /\ k \in Nat /\ Hash[k] \in Seq(Chunks) /\ Len(Hash[k]) = Levels
                     /\ \A l \in 0..Levels - 1 : Chunk(k, l) \in Chunks
<1> DEFINE key == CHOOSE k \in Keys : TRUE
<1>1. key \in Keys /\ Levels = Len(Hash[key])
  BY HashAssumption DEF Levels
<1> HIDE DEF key
<1>2. Hash[key] \in Seq(Chunks) /\ Hash[key] # <<>>
  BY <1>1, HashAssumption
<1>3. Levels \in Nat /\ Levels > 0
  <2>1. Len(Hash[key]) \in Nat \ {0}
    BY <1>2, EmptySeq
  <2>2. QED
    BY <1>1, <2>1
<1>4. ASSUME NEW k \in Keys
      PROVE  /\ k \in Nat /\ Hash[k] \in Seq(Chunks) /\ Len(Hash[k]) = Levels
             /\ \A l \in 0..Levels - 1 : Chunk(k, l) \in Chunks
  <2>1. k \in Nat /\ Hash[k] \in Seq(Chunks) /\ Len(Hash[k]) = Levels
    BY <1>1, HashAssumption
  <2>2. ASSUME NEW l \in 0..Levels - 1 PROVE Chunk(k, l) \in Chunks
    <3>1. l + 1 \in 1..Len(Hash[k])
      BY <1>3, <2>1
    <3>2. QED
      BY <2>1, <3>1, ElementOfSeq DEF Chunk
  <2>3. QED
    BY <2>1, <2>2
<1>5. QED
  BY <1>3, <1>4

(* Two keys part at some level. *)
LEMMA KeysPart ==
  ASSUME NEW j \in Keys, NEW k \in Keys, \A l \in 0..Levels - 1 : Chunk(j, l) = Chunk(k, l)
  PROVE  j = k
<1>1. /\ Hash[j] \in Seq(Chunks) /\ Hash[k] \in Seq(Chunks)
      /\ Len(Hash[j]) = Levels /\ Len(Hash[k]) = Levels /\ Levels \in Nat
  BY LevelsAre
<1>2. ASSUME NEW i \in 1..Len(Hash[j]) PROVE Hash[j][i] = Hash[k][i]
  <2>1. i - 1 \in 0..Levels - 1 /\ (i - 1) + 1 = i
    BY <1>1
  <2>2. Hash[j][(i - 1) + 1] = Hash[k][(i - 1) + 1]
    BY <2>1 DEF Chunk
  <2>3. QED
    BY <2>1, <2>2
<1>3. Hash[j] = Hash[k]
  BY <1>1, <1>2, SeqEqual
<1>4. QED
  BY <1>3, HashAssumption

-----------------------------------------------------------------------------
(* The calls, and what they may return.                                    *)

LEMMA CallIs ==
  ASSUME NEW h \in Memory, NEW p \in Pointers(h), NEW k \in Keys, NEW v \in Int, NEW l \in 0..Levels
  PROVE  /\ Call(h, p, k, v, l) \in Calls
         /\ Call(h, p, k, v, l).heap = h /\ Call(h, p, k, v, l).node = p
         /\ Call(h, p, k, v, l).key = k /\ Call(h, p, k, v, l).value = v
         /\ Call(h, p, k, v, l).level = l
<1>1. p \in Nat
  BY MemoryLen, PointersAre
<1>2. QED
  BY <1>1 DEF Call, Calls

LEMMA CallHas ==
  ASSUME NEW c \in Calls
  PROVE  /\ c.heap \in Memory /\ c.node \in Pointers(c.heap) /\ c.node \in Nat
         /\ c.key \in Keys /\ c.value \in Int /\ c.level \in 0..Levels /\ c.level \in Nat
         /\ c = Call(c.heap, c.node, c.key, c.value, c.level)
BY LevelsAre DEF Calls, Call

(* At a node. *)
LEMMA AtNode ==
  ASSUME NEW c \in Calls, NodeHere(c)
  PROVE  /\ c.level \in 0..Levels - 1 /\ c.level + 1 \in 0..Levels /\ ChunkAt(c) \in Chunks
         /\ FitNode(NodeAt(c), c.heap) /\ Dense(NodeAt(c)) /\ NodeAt(c) \in Nodes
         /\ NodeAt(c).count \in Int /\ NodeAt(c).bitmap \in SUBSET Chunks
<1>1. /\ c.level \in 0..Levels /\ c.level < Levels /\ c.node # NULL /\ c.key \in Keys
      /\ c.node \in Pointers(c.heap) /\ c.heap \in Memory
  BY CallHas DEF NodeHere
<1>2. c.level \in 0..Levels - 1 /\ c.level + 1 \in 0..Levels /\ ChunkAt(c) \in Chunks
  BY <1>1, LevelsAre DEF ChunkAt
<1>3. FitNode(NodeAt(c), c.heap) /\ Dense(NodeAt(c)) /\ NodeAt(c) \in Nodes
  BY <1>1, MemoryNode DEF NodeAt
<1>4. NodeAt(c).count \in Int /\ NodeAt(c).bitmap \in SUBSET Chunks
  BY <1>3, DenseNode
<1>5. QED
  BY <1>2, <1>3, <1>4

LEMMA AtSlot ==
  ASSUME NEW c \in Calls, Occupied(c)
  PROVE  /\ NodeHere(c) /\ ChunkAt(c) \in NodeAt(c).bitmap
         /\ IndexAt(c) \in 1..Len(NodeAt(c).slots)
         /\ SlotAt(c) \in SlotSet /\ Fits(SlotAt(c), c.heap)
         /\ LeafAt(c) => SlotAt(c).key \in Keys /\ Tagged(Untagged(SlotAt(c).word)) = SlotAt(c).word
         /\ BranchAt(c) => SlotAt(c).word \in Pointers(c.heap)
         /\ LeafAt(c) <=> ~BranchAt(c)
<1>1. NodeHere(c) /\ ChunkAt(c) \in NodeAt(c).bitmap
  BY DEF Occupied
<1>2. FitNode(NodeAt(c), c.heap) /\ Dense(NodeAt(c))
  BY <1>1, AtNode
<1>3. IndexAt(c) \in 1..Len(NodeAt(c).slots) /\ SlotAt(c) \in SlotSet
  BY <1>1, <1>2, DenseNode DEF IndexAt, SlotAt
<1>4. Fits(SlotAt(c), c.heap)
  BY <1>1, <1>2 DEF FitNode, SlotAt
<1>5. SlotAt(c).word \in Int
  BY <1>3 DEF SlotSet
<1>6. LeafAt(c) => SlotAt(c).key \in Keys /\ Tagged(Untagged(SlotAt(c).word)) = SlotAt(c).word
  BY <1>4, <1>5, TagBit DEF LeafAt, Fits
<1>7. BranchAt(c) => SlotAt(c).word \in Pointers(c.heap)
  BY <1>4 DEF BranchAt, Fits
<1>8. LeafAt(c) <=> ~BranchAt(c)
  BY DEF LeafAt, BranchAt
<1>9. QED
  BY <1>1, <1>3, <1>4, <1>6, <1>7, <1>8

(* r is what an operation on memory h may return. *)
Results == {r \in [heap : Memory, node : Nat, flag : BOOLEAN] : r.node \in Pointers(r.heap)}
Outcome(r, h) == r \in Results /\ Extends(r.heap, h)

LEMMA UnchangedOutcome ==
  ASSUME NEW h \in Memory, NEW p \in Pointers(h), NEW f \in BOOLEAN
  PROVE  Outcome(Result(h, p, f), h)
<1>1. p \in Nat /\ Extends(h, h)
  BY MemoryLen, PointersAre, ExtendsSelf
<1>2. QED
  BY <1>1 DEF Outcome, Results, Result

LEMMA MallocOutcome ==
  ASSUME NEW g \in Memory, NEW h \in Memory, Extends(g, h), NEW n, FitNode(n, g), NEW f \in BOOLEAN
  PROVE  Outcome(Result(Malloc(g, n).heap, Malloc(g, n).node, f), h)
<1> DEFINE m == Malloc(g, n)
<1>1. /\ m.heap \in Memory /\ Extends(m.heap, g) /\ m.node \in Pointers(m.heap) /\ m.node \in Nat
  BY MallocIs
<1> HIDE DEF m
<1>2. Extends(m.heap, h)
  BY <1>1, ExtendsTrans
<1>3. Outcome(Result(m.heap, m.node, f), h)
  BY <1>1, <1>2 DEF Outcome, Results, Result
<1>4. QED
  BY <1>3 DEF m

LEMMA LeafIs ==
  ASSUME NEW k \in Keys, NEW v \in Int, NEW h
  PROVE  /\ Leaf(k, v) \in SlotSet /\ Fits(Leaf(k, v), h) /\ IsValue(Leaf(k, v).word)
         /\ Leaf(k, v).key = k /\ Leaf(k, v).word = Tagged(v)
BY TagBit, LevelsAre DEF Leaf, SlotSet, Fits

LEMMA BranchIs ==
  ASSUME NEW h \in Memory, NEW p \in Pointers(h)
  PROVE  /\ Branch(p) \in SlotSet /\ Fits(Branch(p), h) /\ ~IsValue(Branch(p).word)
         /\ Branch(p).word = p
<1>1. p \in Nat /\ ~IsValue(p)
  BY MemoryLen, PointersAre
<1>2. QED
  BY <1>1 DEF Branch, SlotSet, Fits

(* r returns memory g with one more node, n. *)
Made(r, g, n, flag) ==
  FitNode(n, g) /\ r = Result(Malloc(g, n).heap, Malloc(g, n).node, flag)

LEMMA MadeIs ==
  ASSUME NEW g \in Memory, NEW h \in Memory, Extends(g, h), NEW r, NEW n, NEW flag \in BOOLEAN,
         Made(r, g, n, flag)
  PROVE  /\ Outcome(r, h) /\ Extends(r.heap, g) /\ r.flag = flag
         /\ r.heap \in Memory /\ r.node \in Pointers(r.heap)
         /\ r.node # NULL /\ r.node \notin Pointers(g) /\ At(r.heap, r.node) = n
         /\ Len(r.heap) = Len(g) + 1 /\ r.heap[Len(g) + 1] = n
<1> DEFINE m == Malloc(g, n)
<1>1. FitNode(n, g) /\ r = Result(m.heap, m.node, flag)
  BY DEF Made
<1>2. /\ m.heap \in Memory /\ Extends(m.heap, g) /\ Len(m.heap) = Len(g) + 1
      /\ m.heap[Len(g) + 1] = n
      /\ m.node \in Pointers(m.heap) /\ m.node \notin Pointers(g) /\ m.node # NULL
      /\ At(m.heap, m.node) = n
  BY <1>1, MallocIs
<1>3. Outcome(r, h)
  BY <1>1, MallocOutcome
<1> HIDE DEF m
<1>4. r.heap = m.heap /\ r.node = m.node /\ r.flag = flag
  BY <1>1 DEF Result
<1>5. QED
  BY <1>2, <1>3, <1>4

LEMMA NewLeafMade ==
  ASSUME NEW c \in Calls, c.level < Levels
  PROVE  \E n : /\ Made(NewLeaf(c), c.heap, n, TRUE)
                /\ n.bitmap = {ChunkAt(c)} /\ n.count = 1
                /\ SlotOf(n, ChunkAt(c)) = Leaf(c.key, c.value)
<1> DEFINE k == ChunkAt(c)
           s == Leaf(c.key, c.value)
           n == Node({k}, 1, <<s>>)
<1>1. c.heap \in Memory /\ c.key \in Keys /\ c.value \in Int /\ c.level \in 0..Levels - 1
  BY CallHas, LevelsAre
<1>2. k \in Chunks
  BY <1>1, LevelsAre DEF ChunkAt
<1>3. s \in SlotSet /\ Fits(s, c.heap)
  BY <1>1, LeafIs
<1> HIDE DEF k, s
<1>4. n.bitmap = {k} /\ n.count = 1 /\ n.slots = <<s>>
  BY DEF Node
<1>5. n \in Nodes
  BY <1>2, <1>3 DEF Nodes, Node, SlotSet
<1>6. Cardinality({k}) = 1
  BY FS_Singleton
<1>7. SlotOf(n, k) = s
  <2>1. Lower({k}, k) = {}
    BY <1>2 DEF Lower, Chunks
  <2>2. SlotIndex({k}, k) = 1 + Cardinality(Lower({k}, k))
    BY <1>2, IndexRange
  <2>3. SlotIndex({k}, k) = 1
    BY <2>1, <2>2, FS_EmptySet
  <2>4. QED
    BY <2>3, <1>4 DEF SlotOf
<1> HIDE DEF n
<1>8. FitNode(n, c.heap)
  <2>1. Dense(n)
    BY <1>4, <1>5, <1>6 DEF Dense
  <2>2. QED
    BY <2>1, <1>3, <1>4, <1>7 DEF FitNode
<1>9. Made(NewLeaf(c), c.heap, n, TRUE)
  BY <1>8 DEF Made, NewLeaf, n, k, s
<1>10. QED
  BY <1>4, <1>7, <1>9 DEF k, s

LEMMA AddFits ==
  ASSUME NEW o, NEW h, FitNode(o, h), NEW k, k \in Chunks, k \notin o.bitmap,
         NEW s, s \in SlotSet, Fits(s, h),
         NEW n, n = Node(o.bitmap \cup {k}, o.count + 1, WithSlot(o.slots, SlotIndex(o.bitmap, k), s))
  PROVE  /\ FitNode(n, h) /\ n.bitmap = o.bitmap \cup {k} /\ n.count = o.count + 1
         /\ Puts(n, o, k, s)
<1>1. Dense(o) /\ o.count \in Int
  BY DenseNode DEF FitNode
<1>2. /\ n.bitmap = o.bitmap \cup {k} /\ n.count = o.count + 1 /\ Adds(n, o, k, s)
  BY <1>1 DEF Node, Adds, IsNode
<1>3. Dense(n) /\ Puts(n, o, k, s)
  BY <1>1, <1>2, AddSlot
<1>4. FitNode(n, h)
  BY <1>2, <1>3 DEF FitNode, Puts
<1>5. QED
  BY <1>2, <1>3, <1>4

LEMMA AddLeafMade ==
  ASSUME NEW c \in Calls, NodeHere(c), ~Occupied(c)
  PROVE  \E n : /\ Made(AddLeaf(c), c.heap, n, TRUE)
                /\ n.bitmap = NodeAt(c).bitmap \cup {ChunkAt(c)} /\ n.count = NodeAt(c).count + 1
                /\ Puts(n, NodeAt(c), ChunkAt(c), Leaf(c.key, c.value))
<1>0. PICK k, o, s : k = ChunkAt(c) /\ o = NodeAt(c) /\ s = Leaf(c.key, c.value)
  OBVIOUS
<1>1. c.heap \in Memory /\ c.key \in Keys /\ c.value \in Int
  BY CallHas
<1>2. k \in Chunks /\ FitNode(o, c.heap) /\ k \notin o.bitmap
  BY <1>0, AtNode DEF Occupied
<1>3. s \in SlotSet /\ Fits(s, c.heap)
  BY <1>0, <1>1, LeafIs
<1>4. PICK n : n = Node(o.bitmap \cup {k}, o.count + 1, WithSlot(o.slots, SlotIndex(o.bitmap, k), s))
  OBVIOUS
<1>5. /\ FitNode(n, c.heap) /\ n.bitmap = o.bitmap \cup {k} /\ n.count = o.count + 1
      /\ Puts(n, o, k, s)
  BY <1>2, <1>3, <1>4, AddFits
<1>6. AddLeaf(c) = Result(Malloc(c.heap, n).heap, Malloc(c.heap, n).node, TRUE)
  BY <1>0, <1>4 DEF AddLeaf, IndexAt
<1>7. Made(AddLeaf(c), c.heap, n, TRUE)
  BY <1>5, <1>6 DEF Made
<1>8. QED
  BY <1>0, <1>5, <1>7

LEMMA ReplaceFits ==
  ASSUME NEW o, NEW h, FitNode(o, h), NEW k, k \in o.bitmap, NEW i, i = SlotIndex(o.bitmap, k),
         NEW s, s \in SlotSet, Fits(s, h), NEW count, count \in Int,
         NEW n, Clone(n, o, i, s, count)
  PROVE  /\ FitNode(n, h) /\ n \in Nodes /\ n.bitmap = o.bitmap /\ n.count = count
         /\ Puts(n, o, k, s)
<1>1. Dense(o) /\ o \in Nodes
  BY DEF FitNode, Dense
<1>2. /\ n.bitmap = o.bitmap /\ n.count = count
      /\ n.slots = [o.slots EXCEPT ![i] = s]
      /\ n = Node(n.bitmap, n.count, n.slots)
  <2> DEFINE t == [o.slots EXCEPT ![i] = s]
  <2>1. o = Node(o.bitmap, o.count, o.slots)
    BY <1>1 DEF Nodes, Node
  <2>2. n = [o EXCEPT !.slots = t, !.count = count]
    BY DEF Clone
  <2> HIDE DEF t
  <2>3. n = Node(o.bitmap, count, t)
    BY <2>1, <2>2 DEF Node
  <2>4. n.bitmap = o.bitmap /\ n.count = count /\ n.slots = t
    BY <2>3 DEF Node
  <2>5. n = Node(n.bitmap, n.count, n.slots)
    BY <2>3, <2>4
  <2>6. QED
    BY <2>4, <2>5 DEF t
<1>3. Replaces(n, o, k, s)
  BY <1>2 DEF Replaces, IsNode
<1>4. Dense(n) /\ Puts(n, o, k, s)
  BY <1>1, <1>3, ReplaceSlot
<1>5. FitNode(n, h)
  BY <1>2, <1>4 DEF FitNode, Puts
<1>6. QED
  BY <1>2, <1>4, <1>5 DEF Dense

LEMMA RemoveFits ==
  ASSUME NEW o, NEW h, FitNode(o, h), NEW k, k \in o.bitmap,
         NEW n, n = Node(o.bitmap \ {k}, o.count - 1, WithoutSlot(o.slots, SlotIndex(o.bitmap, k)))
  PROVE  /\ FitNode(n, h) /\ n.bitmap = o.bitmap \ {k} /\ n.count = o.count - 1
         /\ Keeps(n, o)
<1>1. Dense(o) /\ o.count \in Int
  BY DenseNode DEF FitNode
<1>2. n.bitmap = o.bitmap \ {k} /\ n.count = o.count - 1 /\ Removes(n, o, k)
  BY <1>1 DEF Node, Removes, IsNode
<1>3. Dense(n) /\ Keeps(n, o)
  BY <1>1, <1>2, RemoveSlot
<1>4. FitNode(n, h)
  BY <1>2, <1>3 DEF FitNode, Keeps
<1>5. QED
  BY <1>2, <1>3, <1>4

LEMMA CloneMade ==
  ASSUME NEW c \in Calls, Occupied(c), NEW g \in Memory, Extends(g, c.heap),
         NEW s \in SlotSet, Fits(s, g), NEW count \in Int, NEW flag \in BOOLEAN
  PROVE  \E n : /\ Made(CloneWith(g, c.node, IndexAt(c), s, count, flag), g, n, flag)
                /\ n.bitmap = NodeAt(c).bitmap /\ n.count = count
                /\ Puts(n, NodeAt(c), ChunkAt(c), s)
<1>0. PICK k, o, p : k = ChunkAt(c) /\ o = NodeAt(c) /\ p = c.node
  OBVIOUS
<1>1. NodeHere(c) /\ k \in o.bitmap
  BY <1>0, AtSlot
<1>2. FitNode(o, c.heap) /\ Dense(o)
  BY <1>0, <1>1, AtNode
<1>3. At(g, p) = o /\ FitNode(o, g)
  <2>1. c.heap \in Memory /\ p \in Pointers(c.heap) /\ p # NULL
    BY <1>0, <1>1, CallHas DEF NodeHere
  <2>2. At(g, p) = At(c.heap, p) /\ FitNode(o, g)
    BY <2>1, <1>2, ExtendsKeeps
  <2>3. QED
    BY <1>0, <2>2 DEF NodeAt
<1>4. PICK i : i = SlotIndex(o.bitmap, k)
  OBVIOUS
<1>5. i = IndexAt(c)
  BY <1>0, <1>4 DEF IndexAt
<1>6. PICK n : Clone(n, o, i, s, count)
  BY DEF Clone
<1>7. /\ FitNode(n, g) /\ n \in Nodes /\ n.bitmap = o.bitmap /\ n.count = count
      /\ Puts(n, o, k, s)
  <2>1. FitNode(o, g) /\ k \in o.bitmap /\ i = SlotIndex(o.bitmap, k) /\ s \in SlotSet
        /\ Fits(s, g) /\ count \in Int /\ Clone(n, o, i, s, count)
    BY <1>1, <1>3, <1>4, <1>6
  <2>2. FitNode(n, g)
    BY ONLY <2>1, ReplaceFits
  <2>3. n \in Nodes /\ n.bitmap = o.bitmap
    BY ONLY <2>1, ReplaceFits
  <2>4. n.count = count
    BY ONLY <2>1 DEF Clone, FitNode, Dense, Nodes
  <2>5. Puts(n, o, k, s)
    BY ONLY <2>1, ReplaceFits
  <2>6. QED
    BY <2>2, <2>3, <2>4, <2>5
<1>8. CloneWith(g, p, i, s, count, flag) = Result(Malloc(g, n).heap, Malloc(g, n).node, flag)
  <2>1. FitNode(At(g, p), g) /\ Clone(n, At(g, p), i, s, count)
    BY <1>3, <1>6
  <2>2. QED
    BY <1>7, <2>1, CloneIs
<1>10. Made(CloneWith(g, p, i, s, count, flag), g, n, flag)
  BY <1>7, <1>8 DEF Made
<1>11. QED
  BY <1>0, <1>5, <1>7, <1>10

LEMMA SetLeafMade ==
  ASSUME NEW c \in Calls, Occupied(c)
  PROVE  \E n : /\ Made(SetLeaf(c), c.heap, n, FALSE)
                /\ n.bitmap = NodeAt(c).bitmap /\ n.count = NodeAt(c).count
                /\ Puts(n, NodeAt(c), ChunkAt(c), Leaf(c.key, c.value))
<1>1. c.heap \in Memory /\ c.key \in Keys /\ c.value \in Int /\ Extends(c.heap, c.heap)
  BY CallHas, ExtendsSelf
<1>2. NodeAt(c).count \in Int
  BY AtSlot, AtNode
<1>3. Leaf(c.key, c.value) \in SlotSet /\ Fits(Leaf(c.key, c.value), c.heap)
  BY <1>1, LeafIs
<1>4. QED
  BY <1>1, <1>2, <1>3, CloneMade DEF SetLeaf

LEMMA SetBranchMade ==
  ASSUME NEW c \in Calls, Occupied(c), NEW below, Outcome(below, c.heap),
         NEW count \in Int, NEW flag \in BOOLEAN
  PROVE  \E n : /\ Made(SetBranch(c, below, count, flag), below.heap, n, flag)
                /\ n.bitmap = NodeAt(c).bitmap /\ n.count = count
                /\ Puts(n, NodeAt(c), ChunkAt(c), Branch(below.node))
<1>1. below.heap \in Memory /\ below.node \in Pointers(below.heap) /\ Extends(below.heap, c.heap)
  BY DEF Outcome, Results
<1>2. Branch(below.node) \in SlotSet /\ Fits(Branch(below.node), below.heap)
  BY <1>1, BranchIs
<1>3. PICK g, s : g = below.heap /\ s = Branch(below.node)
  OBVIOUS
<1>4. PICK n : /\ Made(CloneWith(g, c.node, IndexAt(c), s, count, flag), g, n, flag)
               /\ n.bitmap = NodeAt(c).bitmap /\ n.count = count
               /\ Puts(n, NodeAt(c), ChunkAt(c), s)
  BY <1>1, <1>2, <1>3, CloneMade
<1>5. SetBranch(c, below, count, flag) = CloneWith(g, c.node, IndexAt(c), s, count, flag)
  BY <1>3 DEF SetBranch
<1>6. QED
  BY <1>3, <1>4, <1>5

LEMMA CloneWithoutMade ==
  ASSUME NEW c \in Calls, Occupied(c), NEW g \in Memory, Extends(g, c.heap)
  PROVE  \/ /\ CloneWithout(g, c.node, ChunkAt(c)) = Result(g, NULL, TRUE)
            /\ NodeAt(c).bitmap = {ChunkAt(c)}
         \/ \E n : /\ Made(CloneWithout(g, c.node, ChunkAt(c)), g, n, TRUE)
                   /\ n.bitmap = NodeAt(c).bitmap \ {ChunkAt(c)} /\ n.count = NodeAt(c).count - 1
                   /\ n.bitmap # {} /\ Keeps(n, NodeAt(c))
<1>0. PICK k, o, p : k = ChunkAt(c) /\ o = NodeAt(c) /\ p = c.node
  OBVIOUS
<1>1. NodeHere(c) /\ k \in o.bitmap
  BY <1>0, AtSlot
<1>2. FitNode(o, c.heap) /\ Dense(o) /\ o.bitmap \in SUBSET Chunks
  BY <1>0, <1>1, AtNode
<1>3. At(g, p) = o /\ FitNode(o, g)
  <2>1. c.heap \in Memory /\ p \in Pointers(c.heap) /\ p # NULL
    BY <1>0, <1>1, CallHas DEF NodeHere
  <2>2. At(g, p) = At(c.heap, p) /\ FitNode(o, g)
    BY <2>1, <1>2, ExtendsKeeps
  <2>3. QED
    BY <1>0, <2>2 DEF NodeAt
<1>4. PICK n : n = Node(o.bitmap \ {k}, o.count - 1, WithoutSlot(o.slots, SlotIndex(o.bitmap, k)))
  OBVIOUS
<1>5. CloneWithout(g, p, k) =
        IF Len(o.slots) = 1 THEN Result(g, NULL, TRUE)
        ELSE Result(Malloc(g, n).heap, Malloc(g, n).node, TRUE)
  BY <1>3, <1>4 DEF CloneWithout
<1>6. Len(o.slots) = 1 <=> o.bitmap = {k}
  <2>1. IsFiniteSet(o.bitmap) /\ Len(o.slots) = Cardinality(o.bitmap)
    BY <1>2, FiniteBitmap DEF Dense
  <2>2. Cardinality(o.bitmap) = 1 <=> \E x : o.bitmap = {x}
    BY <2>1, FS_Singleton
  <2>3. QED
    BY <2>1, <2>2, <1>1
<1>7. CASE Len(o.slots) = 1
  BY <1>0, <1>5, <1>6, <1>7
<1>8. CASE Len(o.slots) # 1
  <2>1. /\ FitNode(n, g) /\ n.bitmap = o.bitmap \ {k} /\ n.count = o.count - 1
        /\ Keeps(n, o)
    BY <1>1, <1>3, <1>4, RemoveFits
  <2>2. Made(CloneWithout(g, p, k), g, n, TRUE)
    BY <1>5, <1>8, <2>1 DEF Made
  <2>3. n.bitmap # {}
    BY <1>1, <1>6, <1>8, <2>1
  <2>4. QED
    BY <1>0, <2>1, <2>2, <2>3
<1>9. QED
  BY <1>7, <1>8

-----------------------------------------------------------------------------
(* The recursive functions satisfy their definitions: one step of each     *)
(* looks at calls one level down only.                                     *)

(* The calls one level down. *)
NextCall(c)  == Below(c, c.heap, SlotAt(c).word)
OtherCall(c) == Call(c.heap, NULL, SlotAt(c).key, Untagged(SlotAt(c).word), c.level + 1)
BothCall(c, one) == Below(c, one.heap, one.node)
BothOf(f, c) == f[BothCall(c, f[OtherCall(c)])]

SetStep(f, c) ==
  CASE c.level < Levels /\ c.node = NULL -> NewLeaf(c)
    [] NodeHere(c) /\ ~Occupied(c) -> AddLeaf(c)
    [] Found(c) -> SetLeaf(c)
    [] LeafAt(c) /\ ~Found(c) -> SetBranch(c, BothOf(f, c), NodeAt(c).count + 1, TRUE)
    [] BranchAt(c) /\ f[NextCall(c)].node # SlotAt(c).word ->
         SetBranch(c, f[NextCall(c)], CountUp(NodeAt(c), f[NextCall(c)]), f[NextCall(c)].flag)
    [] OTHER -> Result(c.heap, c.node, FALSE)

RemoveStep(f, c) ==
  CASE Found(c) -> CloneWithout(c.heap, c.node, ChunkAt(c))
    [] BranchAt(c) /\ f[NextCall(c)].node # SlotAt(c).word ->
         IF f[NextCall(c)].node = NULL THEN CloneWithout(f[NextCall(c)].heap, c.node, ChunkAt(c))
         ELSE SetBranch(c, f[NextCall(c)], CountDown(NodeAt(c), f[NextCall(c)]), f[NextCall(c)].flag)
    [] OTHER -> Result(c.heap, c.node, FALSE)

GetStep(f, c) ==
  CASE Found(c)    -> Untagged(SlotAt(c).word)
    [] BranchAt(c) -> f[NextCall(c)]
    [] OTHER       -> 0

(* There is nothing here; nothing in the slot; the key; another; a child.  *)
Kinds == {"end", "null", "free", "found", "other", "child"}
Kind(c) ==
  IF ~(c.level < Levels) THEN "end"
  ELSE IF c.node = NULL THEN "null"
  ELSE IF ~Occupied(c) THEN "free"
  ELSE IF Found(c) THEN "found"
  ELSE IF LeafAt(c) THEN "other"
  ELSE "child"

LEMMA KindIs ==
  ASSUME NEW c \in Calls
  PROVE  /\ Kind(c) \in Kinds
         /\ Kind(c) = "end" <=> ~(c.level < Levels)
         /\ Kind(c) = "null" <=> c.level < Levels /\ c.node = NULL
         /\ Kind(c) = "free" <=> NodeHere(c) /\ ~Occupied(c)
         /\ Kind(c) = "found" <=> Found(c)
         /\ Kind(c) = "other" <=> LeafAt(c) /\ ~Found(c)
         /\ Kind(c) = "child" <=> BranchAt(c)
         /\ Kind(c) \in {"found", "other", "child"} <=> Occupied(c)
         /\ Kind(c) \in {"free", "found", "other", "child"} <=> NodeHere(c)
<1>1. LeafAt(c) => Occupied(c)
  BY DEF LeafAt
<1>2. BranchAt(c) <=> Occupied(c) /\ ~LeafAt(c)
  BY DEF BranchAt, LeafAt
<1>3. Found(c) => LeafAt(c)
  BY DEF Found
<1>4. Occupied(c) => NodeHere(c)
  BY DEF Occupied
<1>5. NodeHere(c) <=> c.level < Levels /\ c.node # NULL
  BY DEF NodeHere
<1>6. QED
  BY <1>1, <1>2, <1>3, <1>4, <1>5 DEF Kind, Kinds

LEMMA SetCases ==
  ASSUME NEW f, NEW c \in Calls
  PROVE  /\ Kind(c) = "end" => SetStep(f, c) = Result(c.heap, c.node, FALSE)
         /\ Kind(c) = "null" => SetStep(f, c) = NewLeaf(c)
         /\ Kind(c) = "free" => SetStep(f, c) = AddLeaf(c)
         /\ Kind(c) = "found" => SetStep(f, c) = SetLeaf(c)
         /\ Kind(c) = "other" =>
              SetStep(f, c) = SetBranch(c, BothOf(f, c), NodeAt(c).count + 1, TRUE)
         /\ Kind(c) = "child" =>
              SetStep(f, c) =
                IF f[NextCall(c)].node # SlotAt(c).word
                  THEN SetBranch(c, f[NextCall(c)], CountUp(NodeAt(c), f[NextCall(c)]),
                                 f[NextCall(c)].flag)
                  ELSE Result(c.heap, c.node, FALSE)
<1> DEFINE a == c.level < Levels /\ c.node = NULL
           b == NodeHere(c) /\ ~Occupied(c)
           d == Found(c)
           e == LeafAt(c) /\ ~Found(c)
           g == BranchAt(c)
<1>1. /\ a <=> Kind(c) = "null"
      /\ b <=> Kind(c) = "free"
      /\ d <=> Kind(c) = "found"
      /\ e <=> Kind(c) = "other"
      /\ g <=> Kind(c) = "child"
  BY KindIs
<1>2. SetStep(f, c) =
        CASE a -> NewLeaf(c)
          [] b -> AddLeaf(c)
          [] d -> SetLeaf(c)
          [] e -> SetBranch(c, BothOf(f, c), NodeAt(c).count + 1, TRUE)
          [] g /\ f[NextCall(c)].node # SlotAt(c).word ->
               SetBranch(c, f[NextCall(c)], CountUp(NodeAt(c), f[NextCall(c)]), f[NextCall(c)].flag)
          [] OTHER -> Result(c.heap, c.node, FALSE)
  BY DEF SetStep
<1> HIDE DEF a, b, d, e, g
<1>3. QED
  BY <1>1, <1>2

LEMMA RemoveCases ==
  ASSUME NEW f, NEW c \in Calls
  PROVE  /\ Kind(c) \in {"end", "null", "free", "other"} =>
              RemoveStep(f, c) = Result(c.heap, c.node, FALSE)
         /\ Kind(c) = "found" => RemoveStep(f, c) = CloneWithout(c.heap, c.node, ChunkAt(c))
         /\ Kind(c) = "child" =>
              RemoveStep(f, c) =
                IF f[NextCall(c)].node # SlotAt(c).word
                  THEN IF f[NextCall(c)].node = NULL
                         THEN CloneWithout(f[NextCall(c)].heap, c.node, ChunkAt(c))
                         ELSE SetBranch(c, f[NextCall(c)], CountDown(NodeAt(c), f[NextCall(c)]),
                                        f[NextCall(c)].flag)
                  ELSE Result(c.heap, c.node, FALSE)
<1> DEFINE d == Found(c)
           g == BranchAt(c)
<1>1. (d <=> Kind(c) = "found") /\ (g <=> Kind(c) = "child")
  BY KindIs
<1>2. RemoveStep(f, c) =
        CASE d -> CloneWithout(c.heap, c.node, ChunkAt(c))
          [] g /\ f[NextCall(c)].node # SlotAt(c).word ->
               IF f[NextCall(c)].node = NULL THEN CloneWithout(f[NextCall(c)].heap, c.node, ChunkAt(c))
               ELSE SetBranch(c, f[NextCall(c)], CountDown(NodeAt(c), f[NextCall(c)]),
                              f[NextCall(c)].flag)
          [] OTHER -> Result(c.heap, c.node, FALSE)
  BY DEF RemoveStep
<1> HIDE DEF d, g
<1>3. QED
  BY <1>1, <1>2

LEMMA GetCases ==
  ASSUME NEW f, NEW c \in Calls
  PROVE  /\ Kind(c) \in {"end", "null", "free", "other"} => GetStep(f, c) = 0
         /\ Kind(c) = "found" => GetStep(f, c) = Untagged(SlotAt(c).word)
         /\ Kind(c) = "child" => GetStep(f, c) = f[NextCall(c)]
<1> DEFINE d == Found(c)
           g == BranchAt(c)
<1>1. (d <=> Kind(c) = "found") /\ (g <=> Kind(c) = "child")
  BY KindIs
<1>2. GetStep(f, c) =
        CASE d -> Untagged(SlotAt(c).word)
          [] g -> f[NextCall(c)]
          [] OTHER -> 0
  BY DEF GetStep
<1> HIDE DEF d, g
<1>3. QED
  BY <1>1, <1>2

LEMMA NextCallIs ==
  ASSUME NEW c \in Calls, Kind(c) = "child"
  PROVE  /\ NextCall(c) \in Calls /\ NextCall(c).heap = c.heap /\ NextCall(c).node = SlotAt(c).word
         /\ NextCall(c).key = c.key /\ NextCall(c).value = c.value
         /\ NextCall(c).level = c.level + 1 /\ SlotAt(c).word \in Pointers(c.heap)
<1>1. NodeHere(c) /\ Occupied(c) /\ BranchAt(c)
  BY KindIs
<1>2. c.level + 1 \in 0..Levels
  BY <1>1, AtNode
<1>3. SlotAt(c).word \in Pointers(c.heap)
  BY <1>1, AtSlot
<1>4. c.heap \in Memory /\ c.key \in Keys /\ c.value \in Int
  BY CallHas
<1>5. QED
  BY <1>2, <1>3, <1>4, CallIs DEF NextCall, Below

LEMMA OtherCallIs ==
  ASSUME NEW c \in Calls, Kind(c) = "other"
  PROVE  /\ OtherCall(c) \in Calls /\ OtherCall(c).heap = c.heap /\ OtherCall(c).node = NULL
         /\ OtherCall(c).key = SlotAt(c).key /\ SlotAt(c).key \in Keys /\ SlotAt(c).key # c.key
         /\ OtherCall(c).value = Untagged(SlotAt(c).word)
         /\ OtherCall(c).level = c.level + 1
<1>1. NodeHere(c) /\ Occupied(c) /\ LeafAt(c) /\ SlotAt(c).key # c.key
  BY KindIs DEF Found
<1>2. c.level + 1 \in 0..Levels
  BY <1>1, AtNode
<1>3. SlotAt(c).key \in Keys /\ Untagged(SlotAt(c).word) \in Int
  BY <1>1, AtSlot, TagBit DEF SlotSet
<1>4. c.heap \in Memory /\ NULL \in Pointers(c.heap)
  BY CallHas, MemoryLen, PointersAre
<1>5. QED
  BY <1>1, <1>2, <1>3, <1>4, CallIs DEF OtherCall

LEMMA BothCallIs ==
  ASSUME NEW c \in Calls, Kind(c) = "other", NEW one, Outcome(one, c.heap)
  PROVE  /\ BothCall(c, one) \in Calls /\ BothCall(c, one).heap = one.heap
         /\ BothCall(c, one).node = one.node
         /\ BothCall(c, one).key = c.key /\ BothCall(c, one).value = c.value
         /\ BothCall(c, one).level = c.level + 1
<1>1. NodeHere(c)
  BY KindIs
<1>2. c.level + 1 \in 0..Levels
  BY <1>1, AtNode
<1>3. one.heap \in Memory /\ one.node \in Pointers(one.heap)
  BY DEF Outcome, Results
<1>4. c.key \in Keys /\ c.value \in Int
  BY CallHas
<1>5. QED
  BY <1>2, <1>3, <1>4, CallIs DEF BothCall, Below

(* What the step operators return fits what they are applied to. *)
LEMMA MadeOutcome ==
  ASSUME NEW g \in Memory, NEW h \in Memory, Extends(g, h), NEW r, NEW flag \in BOOLEAN,
         \E n : Made(r, g, n, flag)
  PROVE  Outcome(r, h)
BY MadeIs

LEMMA OutcomeHas ==
  ASSUME NEW r, NEW h, Outcome(r, h)
  PROVE  /\ r.heap \in Memory /\ r.node \in Pointers(r.heap) /\ r.node \in Nat
         /\ r.flag \in BOOLEAN /\ Extends(r.heap, h)
BY DEF Outcome, Results

LEMMA OutcomeTrans ==
  ASSUME NEW h \in Memory, NEW g \in Memory, Extends(g, h), NEW r, Outcome(r, g)
  PROVE  Outcome(r, h)
<1>1. r.heap \in Memory /\ Extends(r.heap, g)
  BY OutcomeHas
<1>2. Extends(r.heap, h)
  BY <1>1, ExtendsTrans
<1>3. QED
  BY <1>2 DEF Outcome

Outcomes == {f \in [Calls -> Results] : \A c \in Calls : Outcome(f[c], c.heap)}

LEMMA CountUpIs ==
  ASSUME NEW n, n.count \in Int, NEW r, r.flag \in BOOLEAN
  PROVE  CountUp(n, r) \in Int /\ CountDown(n, r) \in Int
BY DEF CountUp, CountDown

LEMMA BothOfIs ==
  ASSUME NEW f \in Outcomes, NEW c \in Calls, Kind(c) = "other"
  PROVE  Outcome(BothOf(f, c), c.heap)
<1>1. OtherCall(c) \in Calls /\ OtherCall(c).heap = c.heap
  BY OtherCallIs
<1>2. PICK one : one = f[OtherCall(c)]
  OBVIOUS
<1>3. Outcome(one, c.heap)
  BY <1>1, <1>2 DEF Outcomes
<1>4. BothCall(c, one) \in Calls /\ BothCall(c, one).heap = one.heap
  BY <1>3, BothCallIs
<1>5. Outcome(f[BothCall(c, one)], one.heap)
  BY <1>4 DEF Outcomes
<1>6. c.heap \in Memory /\ one.heap \in Memory /\ Extends(one.heap, c.heap)
  BY <1>3, CallHas, OutcomeHas
<1>7. Outcome(f[BothCall(c, one)], c.heap)
  BY <1>5, <1>6, OutcomeTrans
<1>8. QED
  BY <1>2, <1>7 DEF BothOf

LEMMA SetStepIs ==
  ASSUME NEW f \in Outcomes, NEW c \in Calls
  PROVE  Outcome(SetStep(f, c), c.heap)
<1>1. c.heap \in Memory /\ c.node \in Pointers(c.heap) /\ Extends(c.heap, c.heap)
  BY CallHas, ExtendsSelf
<1>2. CASE Kind(c) = "end"
  BY <1>1, <1>2, SetCases, UnchangedOutcome
<1>3. CASE Kind(c) = "null"
  <2>1. c.level < Levels
    BY <1>3, KindIs
  <2>2. \E n : Made(NewLeaf(c), c.heap, n, TRUE)
    BY <2>1, NewLeafMade
  <2>3. Outcome(NewLeaf(c), c.heap)
    BY <1>1, <2>2, MadeOutcome
  <2>4. QED
    BY <1>3, <2>3, SetCases
<1>4. CASE Kind(c) = "free"
  <2>1. NodeHere(c) /\ ~Occupied(c)
    BY <1>4, KindIs
  <2>2. \E n : Made(AddLeaf(c), c.heap, n, TRUE)
    BY <2>1, AddLeafMade
  <2>3. Outcome(AddLeaf(c), c.heap)
    BY <1>1, <2>2, MadeOutcome
  <2>4. QED
    BY <1>4, <2>3, SetCases
<1>5. CASE Kind(c) = "found"
  <2>1. Occupied(c)
    BY <1>5, KindIs
  <2>2. \E n : Made(SetLeaf(c), c.heap, n, FALSE)
    BY <2>1, SetLeafMade
  <2>3. Outcome(SetLeaf(c), c.heap)
    BY <1>1, <2>2, MadeOutcome
  <2>4. QED
    BY <1>5, <2>3, SetCases
<1>6. ASSUME NEW r, Outcome(r, c.heap), Occupied(c), NEW count \in Int, NEW flag \in BOOLEAN
      PROVE  Outcome(SetBranch(c, r, count, flag), c.heap)
  <2>1. \E n : Made(SetBranch(c, r, count, flag), r.heap, n, flag)
    BY <1>6, SetBranchMade
  <2>2. r.heap \in Memory /\ Extends(r.heap, c.heap)
    BY <1>6, OutcomeHas
  <2>3. QED
    BY <1>1, <2>1, <2>2, MadeOutcome
<1>7. Occupied(c) => NodeAt(c).count \in Int
  BY AtSlot, AtNode
<1>8. CASE Kind(c) = "other"
  <2>1. Occupied(c) /\ NodeAt(c).count + 1 \in Int
    BY <1>8, <1>7, KindIs
  <2>2. Outcome(BothOf(f, c), c.heap)
    BY <1>8, BothOfIs
  <2>3. Outcome(SetBranch(c, BothOf(f, c), NodeAt(c).count + 1, TRUE), c.heap)
    BY <1>6, <2>1, <2>2
  <2>4. QED
    BY <1>8, <2>3, SetCases
<1>9. CASE Kind(c) = "child"
  <2>0. PICK r : r = f[NextCall(c)]
    OBVIOUS
  <2>1. Occupied(c) /\ NodeAt(c).count \in Int
    BY <1>9, <1>7, KindIs
  <2>2. Outcome(r, c.heap)
    BY <1>9, <2>0, NextCallIs DEF Outcomes
  <2>3. r.flag \in BOOLEAN /\ CountUp(NodeAt(c), r) \in Int
    BY <2>1, <2>2, OutcomeHas, CountUpIs
  <2>4. Outcome(SetBranch(c, r, CountUp(NodeAt(c), r), r.flag), c.heap)
    BY <1>6, <2>1, <2>2, <2>3
  <2>5. Outcome(Result(c.heap, c.node, FALSE), c.heap)
    BY <1>1, UnchangedOutcome
  <2>6. QED
    BY <1>9, <2>0, <2>4, <2>5, SetCases
<1>10. QED
  BY <1>2, <1>3, <1>4, <1>5, <1>8, <1>9, KindIs DEF Kinds

LEMMA RemoveStepIs ==
  ASSUME NEW f \in Outcomes, NEW c \in Calls
  PROVE  Outcome(RemoveStep(f, c), c.heap)
<1>1. c.heap \in Memory /\ c.node \in Pointers(c.heap) /\ Extends(c.heap, c.heap)
  BY CallHas, ExtendsSelf
<1>2. Outcome(Result(c.heap, c.node, FALSE), c.heap)
  BY <1>1, UnchangedOutcome
<1>3. ASSUME NEW g \in Memory, Extends(g, c.heap), Occupied(c)
      PROVE  Outcome(CloneWithout(g, c.node, ChunkAt(c)), c.heap)
  <2>1. \/ CloneWithout(g, c.node, ChunkAt(c)) = Result(g, NULL, TRUE)
        \/ \E n : Made(CloneWithout(g, c.node, ChunkAt(c)), g, n, TRUE)
    BY <1>3, CloneWithoutMade
  <2>2. NULL \in Pointers(g)
    BY MemoryLen, PointersAre
  <2>3. Outcome(Result(g, NULL, TRUE), g)
    BY <2>2, UnchangedOutcome
  <2>4. Outcome(Result(g, NULL, TRUE), c.heap)
    BY <1>1, <1>3, <2>3, OutcomeTrans
  <2>5. QED
    BY <1>1, <1>3, <2>1, <2>4, MadeOutcome
<1>4. CASE Kind(c) \in {"end", "null", "free", "other"}
  BY <1>2, <1>4, RemoveCases
<1>5. CASE Kind(c) = "found"
  <2>1. Outcome(CloneWithout(c.heap, c.node, ChunkAt(c)), c.heap)
    BY <1>1, <1>3, <1>5, KindIs
  <2>2. QED
    BY <1>5, <2>1, RemoveCases
<1>6. CASE Kind(c) = "child"
  <2>0. PICK r : r = f[NextCall(c)]
    OBVIOUS
  <2>1. Occupied(c) /\ NodeAt(c).count \in Int
    BY <1>6, KindIs, AtSlot, AtNode
  <2>2. Outcome(r, c.heap)
    BY <1>6, <2>0, NextCallIs DEF Outcomes
  <2>3. r.flag \in BOOLEAN /\ CountDown(NodeAt(c), r) \in Int
        /\ r.heap \in Memory /\ Extends(r.heap, c.heap)
    BY <2>1, <2>2, OutcomeHas, CountUpIs
  <2>4. Outcome(SetBranch(c, r, CountDown(NodeAt(c), r), r.flag), c.heap)
    <3>1. \E n : Made(SetBranch(c, r, CountDown(NodeAt(c), r), r.flag), r.heap, n, r.flag)
      BY <2>1, <2>2, <2>3, SetBranchMade
    <3>2. QED
      BY <1>1, <2>3, <3>1, MadeOutcome
  <2>5. Outcome(CloneWithout(r.heap, c.node, ChunkAt(c)), c.heap)
    BY <1>3, <2>1, <2>3
  <2>6. QED
    BY <1>2, <1>6, <2>0, <2>4, <2>5, RemoveCases
<1>7. QED
  BY <1>4, <1>5, <1>6, KindIs DEF Kinds

(* What a step makes of f depends on f one level down only. *)
LEMMA StepsDescend ==
  ASSUME NEW f, NEW g, NEW c \in Calls,
         \A d \in Calls : d.level > c.level => f[d] = g[d]
  PROVE  /\ Kind(c) = "child" => f[NextCall(c)] = g[NextCall(c)]
         /\ f \in Outcomes /\ Kind(c) = "other" => BothOf(f, c) = BothOf(g, c)
<1>1. ASSUME Kind(c) = "child" PROVE f[NextCall(c)] = g[NextCall(c)]
  <2>1. NextCall(c) \in Calls /\ NextCall(c).level = c.level + 1 /\ c.level \in Nat
    BY <1>1, NextCallIs, CallHas
  <2>2. NextCall(c).level > c.level
    BY <2>1
  <2>3. QED
    BY <2>1, <2>2
<1>2. ASSUME f \in Outcomes, Kind(c) = "other" PROVE BothOf(f, c) = BothOf(g, c)
  <2>1. OtherCall(c) \in Calls /\ OtherCall(c).level = c.level + 1 /\ c.level \in Nat
        /\ OtherCall(c).heap = c.heap
    BY <1>2, OtherCallIs, CallHas
  <2>2. OtherCall(c).level > c.level
    BY <2>1
  <2>3. f[OtherCall(c)] = g[OtherCall(c)]
    BY <2>1, <2>2
  <2>4. PICK one : one = f[OtherCall(c)]
    OBVIOUS
  <2>5. Outcome(one, c.heap)
    BY <1>2, <2>1, <2>4 DEF Outcomes
  <2>6. BothCall(c, one) \in Calls /\ BothCall(c, one).level = c.level + 1
    BY <1>2, <2>5, BothCallIs
  <2>7. BothCall(c, one).level > c.level
    BY <2>1, <2>6
  <2>8. f[BothCall(c, one)] = g[BothCall(c, one)]
    BY <2>6, <2>7
  <2>9. QED
    BY <2>3, <2>4, <2>8 DEF BothOf
<1>3. QED
  BY <1>1, <1>2

Ranks == [c \in Calls |-> Levels - c.level]

LEMMA RanksAre ==
  /\ Levels \in Nat /\ Ranks \in [Calls -> 0..Levels]
  /\ \A c, d \in Calls : Ranks[d] < Ranks[c] <=> d.level > c.level
<1>1. Levels \in Nat
  BY LevelsAre
<1>2. \A c \in Calls : c.level \in 0..Levels
  BY CallHas
<1>3. QED
  BY <1>1, <1>2 DEF Ranks

LEMMA OutcomesAre ==
  /\ Outcomes # {}
  /\ \A f \in Outcomes : f = [c \in Calls |-> f[c]]
<1> DEFINE f == [c \in Calls |-> Result(c.heap, c.node, FALSE)]
<1>1. \A c \in Calls : Outcome(f[c], c.heap)
  BY CallHas, UnchangedOutcome
<1>2. f \in Outcomes
  BY <1>1 DEF Outcomes, Outcome
<1>3. QED
  BY <1>2 DEF Outcomes

LEMMA OutcomesAgain ==
  ASSUME NEW g, g = [c \in Calls |-> g[c]], \A c \in Calls : Outcome(g[c], c.heap)
  PROVE  g \in Outcomes
<1>1. \A c \in Calls : g[c] \in Results
  BY DEF Outcome
<1>2. g \in [Calls -> Results]
  BY <1>1
<1>3. QED
  BY <1>2 DEF Outcomes

LEMMA SetStepAgrees ==
  ASSUME NEW f \in Outcomes, NEW g, NEW c \in Calls,
         \A d \in Calls : d.level > c.level => f[d] = g[d]
  PROVE  SetStep(f, c) = SetStep(g, c)
<1>1. Kind(c) = "child" => f[NextCall(c)] = g[NextCall(c)]
  BY StepsDescend
<1>2. Kind(c) = "other" => BothOf(f, c) = BothOf(g, c)
  BY StepsDescend
<1>3. QED
  BY <1>1, <1>2, SetCases, KindIs DEF Kinds

LEMMA RemoveStepAgrees ==
  ASSUME NEW f \in Outcomes, NEW g, NEW c \in Calls,
         \A d \in Calls : d.level > c.level => f[d] = g[d]
  PROVE  RemoveStep(f, c) = RemoveStep(g, c)
<1>1. CASE Kind(c) = "child"
  <2>1. PICK r : r = f[NextCall(c)]
    OBVIOUS
  <2>2. r = g[NextCall(c)]
    BY <1>1, <2>1, StepsDescend
  <2> DEFINE s == IF r.node # SlotAt(c).word
                  THEN IF r.node = NULL
                         THEN CloneWithout(r.heap, c.node, ChunkAt(c))
                         ELSE SetBranch(c, r, CountDown(NodeAt(c), r), r.flag)
                  ELSE Result(c.heap, c.node, FALSE)
  <2>3. RemoveStep(f, c) = s
    BY <1>1, <2>1, RemoveCases
  <2>4. RemoveStep(g, c) = s
    BY <1>1, <2>2, RemoveCases
  <2>5. QED
    BY <2>3, <2>4
<1>2. CASE Kind(c) # "child"
  BY <1>2, RemoveCases, KindIs DEF Kinds
<1>3. QED
  BY <1>1, <1>2

LEMMA SetImplIs ==
  /\ SetImpl \in Outcomes
  /\ \A c \in Calls : SetImpl[c] = SetStep(SetImpl, c)
<1> DEFINE G == [f \in Outcomes |-> [c \in Calls |-> SetStep(f, c)]]
<1>1. \A f \in Outcomes : G[f] = [c \in Calls |-> SetStep(f, c)]
  OBVIOUS
<1> HIDE DEF G
<1>2. Steps(G, Outcomes)
  <2>1. ASSUME NEW f \in Outcomes PROVE G[f] \in Outcomes
    <3>1. G[f] = [c \in Calls |-> SetStep(f, c)]
      BY <1>1
    <3>2. \A c \in Calls : G[f][c] = SetStep(f, c)
      BY <3>1
    <3>3. G[f] = [c \in Calls |-> G[f][c]]
      BY <3>1
    <3>4. \A c \in Calls : Outcome(G[f][c], c.heap)
      BY <3>2, SetStepIs
    <3>5. QED
      BY <3>3, <3>4, OutcomesAgain
  <2>2. QED
    BY <2>1, OutcomesAre DEF Steps
<1>3. Descends(G, Outcomes, Calls, Ranks)
  <2>1. ASSUME NEW f \in Outcomes, NEW g \in Outcomes, NEW c \in Calls,
               \A d \in Calls : Ranks[d] < Ranks[c] => f[d] = g[d]
        PROVE  G[f][c] = G[g][c]
    <3>1. \A d \in Calls : d.level > c.level => f[d] = g[d]
      BY <2>1, RanksAre
    <3>2. SetStep(f, c) = SetStep(g, c)
      BY <3>1, SetStepAgrees
    <3>3. G[f][c] = SetStep(f, c)
      BY <1>1
    <3>4. G[g][c] = SetStep(g, c)
      BY <1>1
    <3>5. QED
      BY <3>2, <3>3, <3>4
  <2>2. QED
    BY <2>1 DEF Descends
<1>4. \E f \in Outcomes : f = G[f]
  BY <1>2, <1>3, OutcomesAre, RanksAre, FixedPoint
<1>5. PICK f \in Outcomes : f = [c \in Calls |-> SetStep(f, c)]
  BY <1>1, <1>4
<1> DEFINE IsSet(g) == g = [c \in Calls |-> SetStep(g, c)]
<1>6. SetImpl = CHOOSE g : IsSet(g)
  BY DEF SetImpl, SetStep, BothOf, NextCall, OtherCall, BothCall
<1>7. IsSet(SetImpl)
  <2>1. \E g : IsSet(g)
    BY <1>5
  <2> HIDE DEF IsSet
  <2>2. QED
    BY <1>6, <2>1
<1>8. /\ SetImpl = [c \in Calls |-> SetImpl[c]]
      /\ \A c \in Calls : SetImpl[c] = SetStep(SetImpl, c)
  BY <1>7
<1>9. \A c \in Calls : f[c] = SetImpl[c]
  <2>1. ASSUME NEW c \in Calls, \A d \in Calls : Ranks[d] < Ranks[c] => f[d] = SetImpl[d]
        PROVE  f[c] = SetImpl[c]
    <3>1. \A d \in Calls : d.level > c.level => f[d] = SetImpl[d]
      BY <2>1, RanksAre
    <3>2. SetStep(f, c) = SetStep(SetImpl, c)
      BY <3>1, SetStepAgrees
    <3>3. f[c] = SetStep(f, c)
      BY <1>5
    <3>4. QED
      BY <1>8, <3>2, <3>3
  <2>2. Levels \in Nat /\ Ranks \in [Calls -> 0..Levels]
    BY RanksAre
  <2>3. QED
    BY <2>1, <2>2, AgreeByRank
<1>10. SetImpl \in Outcomes
  <2>1. \A c \in Calls : Outcome(SetImpl[c], c.heap)
    BY <1>9 DEF Outcomes
  <2>2. QED
    BY <1>8, <2>1, OutcomesAgain
<1>11. QED
  BY <1>8, <1>10

LEMMA RemoveImplIs ==
  /\ RemoveImpl \in Outcomes
  /\ \A c \in Calls : RemoveImpl[c] = RemoveStep(RemoveImpl, c)
<1> DEFINE G == [f \in Outcomes |-> [c \in Calls |-> RemoveStep(f, c)]]
<1>1. \A f \in Outcomes : G[f] = [c \in Calls |-> RemoveStep(f, c)]
  OBVIOUS
<1> HIDE DEF G
<1>2. Steps(G, Outcomes)
  <2>1. ASSUME NEW f \in Outcomes PROVE G[f] \in Outcomes
    <3>1. G[f] = [c \in Calls |-> RemoveStep(f, c)]
      BY <1>1
    <3>2. \A c \in Calls : G[f][c] = RemoveStep(f, c)
      BY <3>1
    <3>3. G[f] = [c \in Calls |-> G[f][c]]
      BY <3>1
    <3>4. \A c \in Calls : Outcome(G[f][c], c.heap)
      BY <3>2, RemoveStepIs
    <3>5. QED
      BY <3>3, <3>4, OutcomesAgain
  <2>2. QED
    BY <2>1, OutcomesAre DEF Steps
<1>3. Descends(G, Outcomes, Calls, Ranks)
  <2>1. ASSUME NEW f \in Outcomes, NEW g \in Outcomes, NEW c \in Calls,
               \A d \in Calls : Ranks[d] < Ranks[c] => f[d] = g[d]
        PROVE  G[f][c] = G[g][c]
    <3>1. \A d \in Calls : d.level > c.level => f[d] = g[d]
      BY <2>1, RanksAre
    <3>2. RemoveStep(f, c) = RemoveStep(g, c)
      BY <3>1, RemoveStepAgrees
    <3>3. G[f][c] = RemoveStep(f, c)
      BY <1>1
    <3>4. G[g][c] = RemoveStep(g, c)
      BY <1>1
    <3>5. QED
      BY <3>2, <3>3, <3>4
  <2>2. QED
    BY <2>1 DEF Descends
<1>4. \E f \in Outcomes : f = G[f]
  BY <1>2, <1>3, OutcomesAre, RanksAre, FixedPoint
<1>5. PICK f \in Outcomes : f = [c \in Calls |-> RemoveStep(f, c)]
  BY <1>1, <1>4
<1> DEFINE IsRemove(g) == g = [c \in Calls |-> RemoveStep(g, c)]
<1>6. RemoveImpl = CHOOSE g : IsRemove(g)
  BY DEF RemoveImpl, RemoveStep, NextCall
<1>7. IsRemove(RemoveImpl)
  <2>1. \E g : IsRemove(g)
    BY <1>5
  <2> HIDE DEF IsRemove
  <2>2. QED
    BY <1>6, <2>1
<1>8. /\ RemoveImpl = [c \in Calls |-> RemoveImpl[c]]
      /\ \A c \in Calls : RemoveImpl[c] = RemoveStep(RemoveImpl, c)
  BY <1>7
<1>9. \A c \in Calls : f[c] = RemoveImpl[c]
  <2>1. ASSUME NEW c \in Calls, \A d \in Calls : Ranks[d] < Ranks[c] => f[d] = RemoveImpl[d]
        PROVE  f[c] = RemoveImpl[c]
    <3>1. \A d \in Calls : d.level > c.level => f[d] = RemoveImpl[d]
      BY <2>1, RanksAre
    <3>2. RemoveStep(f, c) = RemoveStep(RemoveImpl, c)
      BY <3>1, RemoveStepAgrees
    <3>3. f[c] = RemoveStep(f, c)
      BY <1>5
    <3>4. QED
      BY <1>8, <3>2, <3>3
  <2>2. Levels \in Nat /\ Ranks \in [Calls -> 0..Levels]
    BY RanksAre
  <2>3. QED
    BY <2>1, <2>2, AgreeByRank
<1>10. RemoveImpl \in Outcomes
  <2>1. \A c \in Calls : Outcome(RemoveImpl[c], c.heap)
    BY <1>9 DEF Outcomes
  <2>2. QED
    BY <1>8, <2>1, OutcomesAgain
<1>11. QED
  BY <1>8, <1>10

Answers == [Calls -> Int]

LEMMA AnswersAre ==
  /\ Answers # {}
  /\ \A f \in Answers : f = [c \in Calls |-> f[c]]
<1> DEFINE f == [c \in Calls |-> 0]
<1>1. f \in Answers
  BY DEF Answers
<1>2. QED
  BY <1>1 DEF Answers

LEMMA AnswersAgain ==
  ASSUME NEW g, g = [c \in Calls |-> g[c]], \A c \in Calls : g[c] \in Int
  PROVE  g \in Answers
BY DEF Answers

LEMMA GetStepIs ==
  ASSUME NEW f \in Answers, NEW c \in Calls
  PROVE  GetStep(f, c) \in Int
<1>1. CASE Kind(c) \in {"end", "null", "free", "other"}
  BY <1>1, GetCases
<1>2. CASE Kind(c) = "found"
  <2>1. SlotAt(c).word \in Int
    BY <1>2, KindIs, AtSlot DEF SlotSet
  <2>2. QED
    BY <1>2, <2>1, GetCases, TagBit
<1>3. CASE Kind(c) = "child"
  <2>1. f[NextCall(c)] \in Int
    BY <1>3, NextCallIs DEF Answers
  <2>2. QED
    BY <1>3, <2>1, GetCases
<1>4. QED
  BY <1>1, <1>2, <1>3, KindIs DEF Kinds

LEMMA GetStepAgrees ==
  ASSUME NEW f, NEW g, NEW c \in Calls,
         \A d \in Calls : d.level > c.level => f[d] = g[d]
  PROVE  GetStep(f, c) = GetStep(g, c)
<1>1. CASE Kind(c) = "child"
  <2>1. f[NextCall(c)] = g[NextCall(c)]
    BY <1>1, StepsDescend
  <2>2. QED
    BY <1>1, <2>1, GetCases
<1>2. CASE Kind(c) # "child"
  BY <1>2, GetCases, KindIs DEF Kinds
<1>3. QED
  BY <1>1, <1>2

LEMMA GetFromIs ==
  /\ GetFrom \in Answers
  /\ \A c \in Calls : GetFrom[c] = GetStep(GetFrom, c)
<1> DEFINE G == [f \in Answers |-> [c \in Calls |-> GetStep(f, c)]]
<1>1. \A f \in Answers : G[f] = [c \in Calls |-> GetStep(f, c)]
  OBVIOUS
<1> HIDE DEF G
<1>2. Steps(G, Answers)
  <2>1. ASSUME NEW f \in Answers PROVE G[f] \in Answers
    <3>1. G[f] = [c \in Calls |-> GetStep(f, c)]
      BY <1>1
    <3>2. \A c \in Calls : G[f][c] = GetStep(f, c)
      BY <3>1
    <3>3. G[f] = [c \in Calls |-> G[f][c]]
      BY <3>1
    <3>4. \A c \in Calls : G[f][c] \in Int
      BY <3>2, GetStepIs
    <3>5. QED
      BY <3>3, <3>4, AnswersAgain
  <2>2. QED
    BY <2>1, AnswersAre DEF Steps
<1>3. Descends(G, Answers, Calls, Ranks)
  <2>1. ASSUME NEW f \in Answers, NEW g \in Answers, NEW c \in Calls,
               \A d \in Calls : Ranks[d] < Ranks[c] => f[d] = g[d]
        PROVE  G[f][c] = G[g][c]
    <3>1. \A d \in Calls : d.level > c.level => f[d] = g[d]
      BY <2>1, RanksAre
    <3>2. GetStep(f, c) = GetStep(g, c)
      BY <3>1, GetStepAgrees
    <3>3. G[f][c] = GetStep(f, c)
      BY <1>1
    <3>4. G[g][c] = GetStep(g, c)
      BY <1>1
    <3>5. QED
      BY <3>2, <3>3, <3>4
  <2>2. QED
    BY <2>1 DEF Descends
<1>4. \E f \in Answers : f = G[f]
  BY <1>2, <1>3, AnswersAre, RanksAre, FixedPoint
<1>5. PICK f \in Answers : f = [c \in Calls |-> GetStep(f, c)]
  BY <1>1, <1>4
<1> DEFINE IsGet(g) == g = [c \in Calls |-> GetStep(g, c)]
<1>6. GetFrom = CHOOSE g : IsGet(g)
  BY DEF GetFrom, GetStep, NextCall
<1>7. IsGet(GetFrom)
  <2>1. \E g : IsGet(g)
    BY <1>5
  <2> HIDE DEF IsGet
  <2>2. QED
    BY <1>6, <2>1
<1>8. /\ GetFrom = [c \in Calls |-> GetFrom[c]]
      /\ \A c \in Calls : GetFrom[c] = GetStep(GetFrom, c)
  BY <1>7
<1>9. \A c \in Calls : f[c] = GetFrom[c]
  <2>1. ASSUME NEW c \in Calls, \A d \in Calls : Ranks[d] < Ranks[c] => f[d] = GetFrom[d]
        PROVE  f[c] = GetFrom[c]
    <3>1. \A d \in Calls : d.level > c.level => f[d] = GetFrom[d]
      BY <2>1, RanksAre
    <3>2. GetStep(f, c) = GetStep(GetFrom, c)
      BY <3>1, GetStepAgrees
    <3>3. f[c] = GetStep(f, c)
      BY <1>5
    <3>4. QED
      BY <1>8, <3>2, <3>3
  <2>2. Levels \in Nat /\ Ranks \in [Calls -> 0..Levels]
    BY RanksAre
  <2>3. QED
    BY <2>1, <2>2, AgreeByRank
<1>10. GetFrom \in Answers
  <2>1. \A c \in Calls : GetFrom[c] \in Int
    BY <1>9 DEF Answers
  <2>2. QED
    BY <1>8, <2>1, AnswersAgain
<1>11. QED
  BY <1>8, <1>10

-----------------------------------------------------------------------------
(* What a pointer reaches, level by level.                                 *)

LEMMA ChildNodesAre ==
  ASSUME NEW n, NEW h, FitNode(n, h)
  PROVE  /\ ChildNodes(n) \subseteq Pointers(h)
         /\ ChildNodes(n) = {SlotOf(n, c).word : c \in {d \in n.bitmap : ~IsValue(SlotOf(n, d).word)}}
<1>1. Dense(n) /\ \A c \in n.bitmap : Fits(SlotOf(n, c), h)
  BY DEF FitNode
<1>2. SlotsOf(n) = {SlotOf(n, c) : c \in n.bitmap}
  BY <1>1, DenseNode
<1>3. {t \in SlotsOf(n) : ~IsValue(t.word)} =
        {SlotOf(n, c) : c \in {d \in n.bitmap : ~IsValue(SlotOf(n, d).word)}}
  BY <1>2
<1>4. ChildNodes(n) = {SlotOf(n, c).word : c \in {d \in n.bitmap : ~IsValue(SlotOf(n, d).word)}}
  BY <1>3 DEF ChildNodes
<1>5. QED
  BY <1>1, <1>4 DEF Fits

ReachStep(h, f, left) ==
  [q \in Pointers(h) |->
     IF left = 0 \/ q = NULL THEN {}
     ELSE {q} \cup UNION {f[left - 1][c] : c \in ChildNodes(At(h, q))}]

LEMMA ReachStepIs ==
  ASSUME NEW h \in Memory, NEW f \in [0..Levels -> [Pointers(h) -> SUBSET Pointers(h)]],
         NEW left \in 0..Levels
  PROVE  ReachStep(h, f, left) \in [Pointers(h) -> SUBSET Pointers(h)]
<1>1. SUFFICES ASSUME NEW q \in Pointers(h)
               PROVE  (IF left = 0 \/ q = NULL THEN {}
                       ELSE {q} \cup UNION {f[left - 1][c] : c \in ChildNodes(At(h, q))})
                        \in SUBSET Pointers(h)
  BY DEF ReachStep
<1>2. CASE left = 0 \/ q = NULL
  BY <1>2
<1>3. CASE ~(left = 0 \/ q = NULL)
  <2>1. FitNode(At(h, q), h)
    BY <1>3, MemoryNode
  <2>2. ChildNodes(At(h, q)) \subseteq Pointers(h)
    BY <2>1, ChildNodesAre
  <2>3. left - 1 \in 0..Levels
    BY <1>3, LevelsAre
  <2>4. \A c \in ChildNodes(At(h, q)) : f[left - 1][c] \in SUBSET Pointers(h)
    BY <2>2, <2>3
  <2>5. QED
    BY <1>3, <2>4
<1>4. QED
  BY <1>2, <1>3

(* The function behind ReachFrom. *)
Reaches(h, from) == from = [left \in 0..Levels |-> ReachStep(h, from, left)]

LEMMA ReachesExists ==
  ASSUME NEW h \in Memory
  PROVE  \E f \in [0..Levels -> [Pointers(h) -> SUBSET Pointers(h)]] : Reaches(h, f)
<1> DEFINE D == 0..Levels
           X == [Pointers(h) -> SUBSET Pointers(h)]
           S == [D -> X]
           G == [f \in S |-> [left \in D |-> ReachStep(h, f, left)]]
           rank == [left \in D |-> left]
<1>1. \A f \in S : G[f] = [left \in D |-> ReachStep(h, f, left)]
  OBVIOUS
<1>2. Steps(G, S)
  <2>1. ASSUME NEW f \in S PROVE G[f] \in S
    <3>1. \A left \in D : ReachStep(h, f, left) \in X
      BY ReachStepIs
    <3>2. QED
      BY <1>1, <3>1
  <2>2. [left \in D |-> [q \in Pointers(h) |-> {}]] \in S
    OBVIOUS
  <2>3. QED
    BY <2>1, <2>2 DEF Steps
<1>3. ASSUME NEW f \in S, NEW g \in S, NEW left \in D,
             \A d \in D : rank[d] < rank[left] => f[d] = g[d]
      PROVE  ReachStep(h, f, left) = ReachStep(h, g, left)
  <2>1. CASE left = 0
    BY <2>1 DEF ReachStep
  <2>2. CASE left # 0
    <3>1. left - 1 \in D /\ left - 1 < left
      BY <2>2, LevelsAre
    <3>2. f[left - 1] = g[left - 1]
      BY <1>3, <3>1
    <3>3. QED
      BY <3>2 DEF ReachStep
  <2>3. QED
    BY <2>1, <2>2
<1>4. Descends(G, S, D, rank)
  <2>1. ASSUME NEW f \in S, NEW g \in S, NEW left \in D,
               \A d \in D : rank[d] < rank[left] => f[d] = g[d]
        PROVE  G[f][left] = G[g][left]
    <3>1. G[f][left] = ReachStep(h, f, left)
      BY <1>1
    <3>2. G[g][left] = ReachStep(h, g, left)
      BY <1>1
    <3>3. QED
      BY <1>3, <2>1, <3>1, <3>2
  <2>2. QED
    BY <2>1 DEF Descends
<1>5. Levels \in Nat /\ rank \in [D -> 0..Levels] /\ \A f \in S : f = [c \in D |-> f[c]]
  BY LevelsAre
<1>6. \E f \in S : f = G[f]
  <2> HIDE DEF G, S, D, rank
  <2>1. QED
    BY <1>2, <1>4, <1>5, FixedPoint
<1>7. QED
  BY <1>1, <1>6 DEF Reaches

From(h) == CHOOSE from : Reaches(h, from)

LEMMA FromIs ==
  ASSUME NEW h \in Memory
  PROVE  /\ \A left \in 0..Levels : From(h)[left] = ReachStep(h, From(h), left)
         /\ \A p, level : ReachFrom(h, p, level) = From(h)[Levels - level][p]
<1>1. Reaches(h, From(h))
  BY ReachesExists DEF From
<1>2. \A left \in 0..Levels : From(h)[left] = ReachStep(h, From(h), left)
  BY <1>1 DEF Reaches
<1>3. ASSUME NEW p, NEW level
      PROVE  ReachFrom(h, p, level) = From(h)[Levels - level][p]
  BY DEF ReachFrom, From, Reaches, ReachStep
<1>4. QED
  BY <1>2, <1>3

(* What is below a slot, and what is reached from a node. *)
ReachUnder(h, s, level) == IF IsValue(s.word) THEN {} ELSE ReachFrom(h, s.word, level)

LEMMA ReachIs ==
  ASSUME NEW h \in Memory, NEW p \in Pointers(h), NEW level \in 0..Levels
  PROVE  /\ level = Levels \/ p = NULL => ReachFrom(h, p, level) = {}
         /\ level < Levels /\ p # NULL =>
              /\ level + 1 \in 0..Levels
              /\ ReachFrom(h, p, level) =
                   {p} \cup UNION {ReachUnder(h, SlotOf(At(h, p), c), level + 1) : c \in At(h, p).bitmap}
<1>1. Levels \in Nat /\ Levels - level \in 0..Levels
  BY LevelsAre
<1>2. ReachFrom(h, p, level) =
        IF Levels - level = 0 \/ p = NULL THEN {}
        ELSE {p} \cup UNION {From(h)[(Levels - level) - 1][c] : c \in ChildNodes(At(h, p))}
  <2>1. ReachFrom(h, p, level) = From(h)[Levels - level][p]
    BY FromIs
  <2>2. From(h)[Levels - level] = ReachStep(h, From(h), Levels - level)
    BY <1>1, FromIs
  <2>3. ReachStep(h, From(h), Levels - level)[p] =
          IF Levels - level = 0 \/ p = NULL THEN {}
          ELSE {p} \cup UNION {From(h)[(Levels - level) - 1][c] : c \in ChildNodes(At(h, p))}
    BY DEF ReachStep
  <2>4. QED
    BY <2>1, <2>2, <2>3
<1>3. ASSUME level < Levels, p # NULL
      PROVE  /\ level + 1 \in 0..Levels
             /\ ReachFrom(h, p, level) =
                  {p} \cup UNION {ReachUnder(h, SlotOf(At(h, p), c), level + 1) : c \in At(h, p).bitmap}
  <2>1. (Levels - level) - 1 = Levels - (level + 1) /\ Levels - level # 0 /\ level + 1 \in 0..Levels
    BY <1>1, <1>3
  <2>2. \A c : From(h)[(Levels - level) - 1][c] = ReachFrom(h, c, level + 1)
    BY <2>1, FromIs
  <2>3. ReachFrom(h, p, level) = {p} \cup UNION {ReachFrom(h, c, level + 1) : c \in ChildNodes(At(h, p))}
    BY <1>2, <1>3, <2>1, <2>2
  <2>4. FitNode(At(h, p), h)
    BY <1>3, MemoryNode
  <2> DEFINE n == At(h, p)
             V == {d \in n.bitmap : ~IsValue(SlotOf(n, d).word)}
  <2> HIDE DEF n
  <2>5. ChildNodes(n) = {SlotOf(n, c).word : c \in V}
    BY <2>4, ChildNodesAre DEF n
  <2>6. UNION {ReachFrom(h, c, level + 1) : c \in ChildNodes(n)} =
          UNION {ReachUnder(h, SlotOf(n, c), level + 1) : c \in n.bitmap}
    <3>1. ASSUME NEW q \in UNION {ReachFrom(h, c, level + 1) : c \in ChildNodes(n)}
          PROVE  q \in UNION {ReachUnder(h, SlotOf(n, c), level + 1) : c \in n.bitmap}
      <4>1. PICK c \in V : q \in ReachFrom(h, SlotOf(n, c).word, level + 1)
        BY <2>5
      <4>2. q \in ReachUnder(h, SlotOf(n, c), level + 1)
        BY <4>1 DEF ReachUnder
      <4>3. QED
        BY <4>2
    <3>2. ASSUME NEW q \in UNION {ReachUnder(h, SlotOf(n, c), level + 1) : c \in n.bitmap}
          PROVE  q \in UNION {ReachFrom(h, c, level + 1) : c \in ChildNodes(n)}
      <4>1. PICK c \in n.bitmap : q \in ReachUnder(h, SlotOf(n, c), level + 1)
        OBVIOUS
      <4>2. c \in V /\ q \in ReachFrom(h, SlotOf(n, c).word, level + 1)
        BY <4>1 DEF ReachUnder
      <4>3. SlotOf(n, c).word \in ChildNodes(n)
        BY <2>5, <4>2
      <4>4. QED
        BY <4>2, <4>3
    <3>3. QED
      BY <3>1, <3>2
  <2>7. QED
    BY <2>1, <2>3, <2>6 DEF n
<1>4. QED
  BY <1>1, <1>2, <1>3

LEMMA ReachIn ==
  ASSUME NEW h \in Memory
  PROVE  \A p \in Pointers(h), level \in 0..Levels :
           ReachFrom(h, p, level) \subseteq Pointers(h) \ {NULL}
<1> DEFINE T == {n \in Nat : \A p \in Pointers(h), level \in 0..Levels :
                    Levels - level = n => ReachFrom(h, p, level) \subseteq Pointers(h) \ {NULL}}
<1>1. ASSUME NEW n \in Nat, n = 0 \/ n - 1 \in T PROVE n \in T
  <2>1. SUFFICES ASSUME NEW p \in Pointers(h), NEW level \in 0..Levels, Levels - level = n
                 PROVE  ReachFrom(h, p, level) \subseteq Pointers(h) \ {NULL}
    OBVIOUS
  <2>2. CASE level = Levels \/ p = NULL
    BY <2>2, ReachIs
  <2>3. CASE ~(level = Levels \/ p = NULL)
    <3>1. level < Levels /\ level + 1 \in 0..Levels /\ Levels - (level + 1) = n - 1 /\ n # 0
      BY <2>1, <2>3, LevelsAre
    <3>2. FitNode(At(h, p), h)
      BY <2>3, MemoryNode
    <3>3. ASSUME NEW c \in At(h, p).bitmap
          PROVE  ReachUnder(h, SlotOf(At(h, p), c), level + 1) \subseteq Pointers(h) \ {NULL}
      <4>1. Fits(SlotOf(At(h, p), c), h)
        BY <3>2 DEF FitNode
      <4>2. QED
        BY <1>1, <3>1, <4>1 DEF Fits, ReachUnder
    <3>4. ReachFrom(h, p, level) =
            {p} \cup UNION {ReachUnder(h, SlotOf(At(h, p), c), level + 1) : c \in At(h, p).bitmap}
      BY <2>3, <3>1, ReachIs
    <3>5. QED
      BY <2>3, <3>3, <3>4
  <2>4. QED
    BY <2>2, <2>3
<1>2. \A n \in Nat : n \in T
  <2> HIDE DEF T
  <2>1. QED
    BY <1>1, Induction
<1>3. \A level \in 0..Levels : Levels - level \in Nat
  BY LevelsAre
<1>4. QED
  BY <1>2, <1>3

-----------------------------------------------------------------------------
(* The pairs that are reached.                                             *)

PairsFrom(h, p, level) == LeavesOf(h, ReachFrom(h, p, level))
Under(h, s, level) == IF IsValue(s.word) THEN {s} ELSE PairsFrom(h, s.word, level)

LEMMA PairsIs ==
  ASSUME NEW h \in Memory, NEW p \in Pointers(h), NEW level \in 0..Levels
  PROVE  /\ level = Levels \/ p = NULL => PairsFrom(h, p, level) = {}
         /\ level < Levels /\ p # NULL =>
              PairsFrom(h, p, level) =
                UNION {Under(h, SlotOf(At(h, p), c), level + 1) : c \in At(h, p).bitmap}
<1>1. ASSUME level = Levels \/ p = NULL PROVE PairsFrom(h, p, level) = {}
  <2>1. ReachFrom(h, p, level) = {}
    BY <1>1, ReachIs
  <2>2. QED
    BY <2>1 DEF PairsFrom, LeavesOf
<1>2. ASSUME level < Levels, p # NULL
      PROVE  PairsFrom(h, p, level) =
               UNION {Under(h, SlotOf(At(h, p), c), level + 1) : c \in At(h, p).bitmap}
  <2>0. PICK n : n = At(h, p)
    OBVIOUS
  <2>1. SlotsOf(n) = {SlotOf(n, c) : c \in n.bitmap}
    BY <2>0, <1>2, MemoryNode, DenseNode
  <2>2. ReachFrom(h, p, level) = {p} \cup UNION {ReachUnder(h, SlotOf(n, c), level + 1) : c \in n.bitmap}
    BY <2>0, <1>2, ReachIs
  <2>3. ASSUME NEW t \in PairsFrom(h, p, level)
        PROVE  \E c \in n.bitmap : t \in Under(h, SlotOf(n, c), level + 1)
    <3>1. IsValue(t.word) /\ \E q \in ReachFrom(h, p, level) : t \in SlotsOf(At(h, q))
      BY DEF PairsFrom, LeavesOf
    <3>2. PICK q \in ReachFrom(h, p, level) : t \in SlotsOf(At(h, q))
      BY <3>1
    <3>3. CASE q = p
      <4>1. PICK c \in n.bitmap : t = SlotOf(n, c)
        BY <2>0, <2>1, <3>2, <3>3
      <4>2. t \in Under(h, SlotOf(n, c), level + 1)
        BY <3>1, <4>1 DEF Under
      <4>3. QED
        BY <4>2
    <3>4. CASE q # p
      <4>1. PICK c \in n.bitmap : q \in ReachUnder(h, SlotOf(n, c), level + 1)
        BY <2>2, <3>4
      <4>2. ~IsValue(SlotOf(n, c).word) /\ q \in ReachFrom(h, SlotOf(n, c).word, level + 1)
        BY <4>1 DEF ReachUnder
      <4>3. t \in PairsFrom(h, SlotOf(n, c).word, level + 1)
        BY <3>1, <3>2, <4>2 DEF PairsFrom, LeavesOf
      <4>4. t \in Under(h, SlotOf(n, c), level + 1)
        BY <4>2, <4>3 DEF Under
      <4>5. QED
        BY <4>4
    <3>5. QED
      BY <3>3, <3>4
  <2>4. ASSUME NEW c \in n.bitmap, NEW t \in Under(h, SlotOf(n, c), level + 1)
        PROVE  t \in PairsFrom(h, p, level)
    <3>1. CASE IsValue(SlotOf(n, c).word)
      <4>1. t = SlotOf(n, c) /\ IsValue(t.word)
        BY <3>1 DEF Under
      <4>2. t \in SlotsOf(At(h, p))
        BY <2>0, <2>1, <4>1
      <4>3. p \in ReachFrom(h, p, level)
        BY <2>2
      <4>4. QED
        BY <4>1, <4>2, <4>3 DEF PairsFrom, LeavesOf
    <3>2. CASE ~IsValue(SlotOf(n, c).word)
      <4>1. t \in PairsFrom(h, SlotOf(n, c).word, level + 1)
        BY <3>2 DEF Under
      <4>2. IsValue(t.word)
            /\ \E q \in ReachFrom(h, SlotOf(n, c).word, level + 1) : t \in SlotsOf(At(h, q))
        BY <4>1 DEF PairsFrom, LeavesOf
      <4>3. PICK q \in ReachFrom(h, SlotOf(n, c).word, level + 1) : t \in SlotsOf(At(h, q))
        BY <4>2
      <4>4. q \in ReachUnder(h, SlotOf(n, c), level + 1)
        BY <3>2 DEF ReachUnder
      <4>5. q \in ReachFrom(h, p, level)
        BY <2>2, <4>4
      <4>6. QED
        BY <4>2, <4>3, <4>5 DEF PairsFrom, LeavesOf
    <3>3. QED
      BY <3>1, <3>2
  <2>5. PairsFrom(h, p, level) = UNION {Under(h, SlotOf(n, c), level + 1) : c \in n.bitmap}
    BY <2>3, <2>4
  <2>6. QED
    BY <2>0, <2>5
<1>3. QED
  BY <1>1, <1>2

LEMMA PairsIn ==
  ASSUME NEW h \in Memory, NEW p \in Pointers(h), NEW level \in 0..Levels
  PROVE  \A t \in PairsFrom(h, p, level) : t \in SlotSet /\ IsValue(t.word) /\ t.key \in Keys
<1>1. SUFFICES ASSUME NEW t \in PairsFrom(h, p, level)
               PROVE  t \in SlotSet /\ IsValue(t.word) /\ t.key \in Keys
  OBVIOUS
<1>2. IsValue(t.word) /\ \E q \in ReachFrom(h, p, level) : t \in SlotsOf(At(h, q))
  BY DEF PairsFrom, LeavesOf
<1>3. PICK q \in ReachFrom(h, p, level) : t \in SlotsOf(At(h, q))
  BY <1>2
<1>4. q \in Pointers(h) /\ q # NULL
  BY ReachIn
<1>5. FitNode(At(h, q), h) /\ Dense(At(h, q))
  BY <1>4, MemoryNode
<1>6. PICK c \in At(h, q).bitmap : t = SlotOf(At(h, q), c)
  BY <1>3, <1>5, DenseNode
<1>7. t \in SlotSet /\ Fits(t, h)
  BY <1>5, <1>6, DenseNode DEF FitNode
<1>8. QED
  BY <1>2, <1>7 DEF Fits

-----------------------------------------------------------------------------
(* Memory that is the same where it is reached.                            *)

Same(g, h, p, level) ==
  \A q \in ReachFrom(h, p, level) : q \in Pointers(g) /\ At(g, q) = At(h, q)

LEMMA SameBelow ==
  ASSUME NEW h \in Memory, NEW g \in Memory, NEW p \in Pointers(h), p \in Pointers(g), p # NULL,
         NEW level \in 0..Levels, level < Levels, Same(g, h, p, level)
  PROVE  /\ At(g, p) = At(h, p)
         /\ \A c \in At(h, p).bitmap : ~IsValue(SlotOf(At(h, p), c).word) =>
              /\ SlotOf(At(h, p), c).word \in Pointers(h)
              /\ SlotOf(At(h, p), c).word \in Pointers(g)
              /\ Same(g, h, SlotOf(At(h, p), c).word, level + 1)
<1>1. ReachFrom(h, p, level) =
        {p} \cup UNION {ReachUnder(h, SlotOf(At(h, p), c), level + 1) : c \in At(h, p).bitmap}
  BY ReachIs
<1>2. p \in ReachFrom(h, p, level)
  BY <1>1
<1>3. At(g, p) = At(h, p)
  BY <1>2 DEF Same
<1>4. FitNode(At(h, p), h) /\ FitNode(At(g, p), g)
  BY MemoryNode
<1>5. ASSUME NEW c \in At(h, p).bitmap, ~IsValue(SlotOf(At(h, p), c).word)
      PROVE  /\ SlotOf(At(h, p), c).word \in Pointers(h)
             /\ SlotOf(At(h, p), c).word \in Pointers(g)
             /\ Same(g, h, SlotOf(At(h, p), c).word, level + 1)
  <2>1. SlotOf(At(h, p), c).word \in Pointers(h)
    BY <1>4, <1>5 DEF FitNode, Fits
  <2>2. SlotOf(At(g, p), c).word \in Pointers(g)
    BY <1>3, <1>4, <1>5 DEF FitNode, Fits
  <2>3. ReachFrom(h, SlotOf(At(h, p), c).word, level + 1) \subseteq ReachFrom(h, p, level)
    BY <1>1, <1>5 DEF ReachUnder
  <2>4. QED
    BY <1>3, <2>1, <2>2, <2>3 DEF Same
<1>6. QED
  BY <1>3, <1>5

LEMMA SameReach ==
  ASSUME NEW h \in Memory, NEW g \in Memory
  PROVE  \A p \in Pointers(h), level \in 0..Levels :
           p \in Pointers(g) /\ Same(g, h, p, level) =>
             /\ ReachFrom(g, p, level) = ReachFrom(h, p, level)
             /\ PairsFrom(g, p, level) = PairsFrom(h, p, level)
<1> DEFINE T == {n \in Nat : \A p \in Pointers(h), level \in 0..Levels :
                    Levels - level = n /\ p \in Pointers(g) /\ Same(g, h, p, level) =>
                      /\ ReachFrom(g, p, level) = ReachFrom(h, p, level)
                      /\ PairsFrom(g, p, level) = PairsFrom(h, p, level)}
<1>1. ASSUME NEW n \in Nat, n = 0 \/ n - 1 \in T PROVE n \in T
  <2>1. SUFFICES ASSUME NEW p \in Pointers(h), NEW level \in 0..Levels, Levels - level = n,
                        p \in Pointers(g), Same(g, h, p, level)
                 PROVE  /\ ReachFrom(g, p, level) = ReachFrom(h, p, level)
                        /\ PairsFrom(g, p, level) = PairsFrom(h, p, level)
    OBVIOUS
  <2>2. CASE level = Levels \/ p = NULL
    BY <2>1, <2>2, ReachIs, PairsIs
  <2>3. CASE ~(level = Levels \/ p = NULL)
    <3>1. level < Levels /\ level + 1 \in 0..Levels /\ Levels - (level + 1) = n - 1 /\ n # 0 /\ p # NULL
      BY <2>1, <2>3, LevelsAre
    <3>2. PICK o : o = At(h, p)
      OBVIOUS
    <3>3. /\ At(g, p) = o
          /\ \A c \in o.bitmap : ~IsValue(SlotOf(o, c).word) =>
               /\ SlotOf(o, c).word \in Pointers(h)
               /\ SlotOf(o, c).word \in Pointers(g)
               /\ Same(g, h, SlotOf(o, c).word, level + 1)
      BY <2>1, <3>1, <3>2, SameBelow
    <3>4. ASSUME NEW c \in o.bitmap
          PROVE  /\ ReachUnder(g, SlotOf(o, c), level + 1) = ReachUnder(h, SlotOf(o, c), level + 1)
                 /\ Under(g, SlotOf(o, c), level + 1) = Under(h, SlotOf(o, c), level + 1)
      <4>1. CASE IsValue(SlotOf(o, c).word)
        BY <4>1 DEF ReachUnder, Under
      <4>2. CASE ~IsValue(SlotOf(o, c).word)
        <5>1. /\ ReachFrom(g, SlotOf(o, c).word, level + 1) = ReachFrom(h, SlotOf(o, c).word, level + 1)
              /\ PairsFrom(g, SlotOf(o, c).word, level + 1) = PairsFrom(h, SlotOf(o, c).word, level + 1)
          BY <1>1, <3>1, <3>3, <4>2
        <5>2. QED
          BY <4>2, <5>1 DEF ReachUnder, Under
      <4>3. QED
        BY <4>1, <4>2
    <3>5. /\ UNION {ReachUnder(g, SlotOf(o, c), level + 1) : c \in o.bitmap} =
               UNION {ReachUnder(h, SlotOf(o, c), level + 1) : c \in o.bitmap}
          /\ UNION {Under(g, SlotOf(o, c), level + 1) : c \in o.bitmap} =
               UNION {Under(h, SlotOf(o, c), level + 1) : c \in o.bitmap}
      BY <3>4
    <3>6. /\ ReachFrom(g, p, level) = {p} \cup UNION {ReachUnder(g, SlotOf(o, c), level + 1) : c \in o.bitmap}
          /\ ReachFrom(h, p, level) = {p} \cup UNION {ReachUnder(h, SlotOf(o, c), level + 1) : c \in o.bitmap}
      BY <2>1, <3>1, <3>2, <3>3, ReachIs
    <3>7. /\ PairsFrom(g, p, level) = UNION {Under(g, SlotOf(o, c), level + 1) : c \in o.bitmap}
          /\ PairsFrom(h, p, level) = UNION {Under(h, SlotOf(o, c), level + 1) : c \in o.bitmap}
      BY <2>1, <3>1, <3>2, <3>3, PairsIs
    <3>8. QED
      BY <3>5, <3>6, <3>7
  <2>4. QED
    BY <2>2, <2>3
<1>2. \A n \in Nat : n \in T
  <2> HIDE DEF T
  <2>1. QED
    BY <1>1, Induction
<1>3. \A level \in 0..Levels : Levels - level \in Nat
  BY LevelsAre
<1>4. QED
  BY <1>2, <1>3

-----------------------------------------------------------------------------
(* Tries: a key is where its chunks lead, and the counts are right.        *)

GoodAt(h, q, level, below) ==
  /\ \A c \in At(h, q).bitmap :
       /\ ~IsValue(SlotOf(At(h, q), c).word) => SlotOf(At(h, q), c).word \in below
       /\ \A t \in Under(h, SlotOf(At(h, q), c), level + 1) : Chunk(t.key, level) = c
  /\ IsFiniteSet(PairsFrom(h, q, level))
  /\ At(h, q).count = Cardinality(PairsFrom(h, q, level))

(* Goods(h)[n]: the nodes of tries of at most n levels. *)
GoodStep(h) ==
  [x \in Nat \X SUBSET Pointers(h) |->
     {q \in Pointers(h) : q # NULL /\ GoodAt(h, q, Levels - x[1], x[2])}]
Goods(h) == CHOOSE f : Follows(f, SUBSET Pointers(h), {}, GoodStep(h))
Good(h, p, level) == p \in Goods(h)[Levels - level]

LEMMA GoodIs ==
  ASSUME NEW h \in Memory, NEW p \in Pointers(h), NEW level \in 0..Levels
  PROVE  Good(h, p, level) <=>
           /\ level < Levels /\ p # NULL
           /\ \A c \in At(h, p).bitmap :
                /\ ~IsValue(SlotOf(At(h, p), c).word) => Good(h, SlotOf(At(h, p), c).word, level + 1)
                /\ \A t \in Under(h, SlotOf(At(h, p), c), level + 1) : Chunk(t.key, level) = c
           /\ IsFiniteSet(PairsFrom(h, p, level))
           /\ At(h, p).count = Cardinality(PairsFrom(h, p, level))
<1> DEFINE S == SUBSET Pointers(h)
           G == GoodStep(h)
<1>1. \A n \in Nat : \A s \in S :
        G[<<n, s>>] = {q \in Pointers(h) : q # NULL /\ GoodAt(h, q, Levels - n, s)}
  BY DEF GoodStep
<1>2. Closed(S, {}, G)
  BY <1>1 DEF Closed
<1>3. Follows(Goods(h), S, {}, G)
  <2> HIDE DEF S, G
  <2>1. \E f : Follows(f, S, {}, G)
    BY <1>2, Recursion
  <2>2. QED
    BY <2>1 DEF Goods, S, G
<1>4. PICK n \in Nat : n = Levels - level
  BY LevelsAre
<1>5. Goods(h)[n] = IF n = 0 THEN {} ELSE G[<<n, Goods(h)[n - 1]>>]
  BY <1>3 DEF Follows
<1>6. CASE n = 0
  BY <1>4, <1>5, <1>6, LevelsAre DEF Good
<1>7. CASE n # 0
  <2>1. n - 1 \in Nat /\ n - 1 = Levels - (level + 1) /\ level < Levels /\ Levels - n = level
    BY <1>4, <1>7, LevelsAre
  <2>2. Goods(h)[n - 1] \in S
    BY <1>3, <2>1 DEF Follows
  <2>3. Goods(h)[n] = {q \in Pointers(h) : q # NULL /\ GoodAt(h, q, Levels - n, Goods(h)[n - 1])}
    BY <1>1, <1>5, <1>7, <2>2
  <2>4. Good(h, p, level) <=> p # NULL /\ GoodAt(h, p, level, Goods(h)[n - 1])
    BY <1>4, <2>1, <2>3 DEF Good
  <2>5. \A w : w \in Goods(h)[n - 1] <=> Good(h, w, level + 1)
    BY <2>1 DEF Good
  <2>6. QED
    BY <2>1, <2>4, <2>5 DEF GoodAt
<1>8. QED
  BY <1>6, <1>7

LEMMA SameGood ==
  ASSUME NEW h \in Memory, NEW g \in Memory
  PROVE  \A p \in Pointers(h), level \in 0..Levels :
           p \in Pointers(g) /\ Same(g, h, p, level) /\ Good(h, p, level) => Good(g, p, level)
<1> DEFINE T == {n \in Nat : \A p \in Pointers(h), level \in 0..Levels :
                    Levels - level = n /\ p \in Pointers(g) /\ Same(g, h, p, level)
                      /\ Good(h, p, level) => Good(g, p, level)}
<1>1. ASSUME NEW n \in Nat, n = 0 \/ n - 1 \in T PROVE n \in T
  <2>1. SUFFICES ASSUME NEW p \in Pointers(h), NEW level \in 0..Levels, Levels - level = n,
                        p \in Pointers(g), Same(g, h, p, level), Good(h, p, level)
                 PROVE  Good(g, p, level)
    OBVIOUS
  <2>2. PICK o : o = At(h, p)
    OBVIOUS
  <2>3. /\ level < Levels /\ p # NULL
        /\ \A c \in o.bitmap :
             /\ ~IsValue(SlotOf(o, c).word) => Good(h, SlotOf(o, c).word, level + 1)
             /\ \A t \in Under(h, SlotOf(o, c), level + 1) : Chunk(t.key, level) = c
        /\ IsFiniteSet(PairsFrom(h, p, level))
        /\ o.count = Cardinality(PairsFrom(h, p, level))
    BY <2>1, <2>2, GoodIs
  <2>4. level + 1 \in 0..Levels /\ Levels - (level + 1) = n - 1 /\ n # 0
    BY <2>1, <2>3, LevelsAre
  <2>5. /\ At(g, p) = o
        /\ \A c \in o.bitmap : ~IsValue(SlotOf(o, c).word) =>
             /\ SlotOf(o, c).word \in Pointers(h)
             /\ SlotOf(o, c).word \in Pointers(g)
             /\ Same(g, h, SlotOf(o, c).word, level + 1)
    BY <2>1, <2>2, <2>3, SameBelow
  <2>6. ASSUME NEW c \in o.bitmap, ~IsValue(SlotOf(o, c).word)
        PROVE  Good(g, SlotOf(o, c).word, level + 1)
    BY <1>1, <2>3, <2>4, <2>5, <2>6
  <2>7. ASSUME NEW c \in o.bitmap, NEW t \in Under(g, SlotOf(o, c), level + 1)
        PROVE  Chunk(t.key, level) = c
    <3>1. Under(g, SlotOf(o, c), level + 1) = Under(h, SlotOf(o, c), level + 1)
      BY <2>4, <2>5, SameReach DEF Under
    <3>2. QED
      BY <2>3, <2>7, <3>1
  <2>8. PairsFrom(g, p, level) = PairsFrom(h, p, level)
    BY <2>1, SameReach
  <2>9. QED
    BY <2>1, <2>3, <2>5, <2>6, <2>7, <2>8, GoodIs
<1>2. \A n \in Nat : n \in T
  <2> HIDE DEF T
  <2>1. QED
    BY <1>1, Induction
<1>3. \A level \in 0..Levels : Levels - level \in Nat
  BY LevelsAre
<1>4. QED
  BY <1>2, <1>3

LEMMA ExtendsSame ==
  ASSUME NEW h \in Memory, NEW g \in Memory, Extends(g, h), NEW p \in Pointers(h), NEW level \in 0..Levels
  PROVE  /\ p \in Pointers(g) /\ Same(g, h, p, level)
         /\ ReachFrom(g, p, level) = ReachFrom(h, p, level)
         /\ PairsFrom(g, p, level) = PairsFrom(h, p, level)
         /\ Good(h, p, level) => Good(g, p, level)
<1>1. p \in Pointers(g) /\ Same(g, h, p, level)
  BY ReachIn, ExtendsKeeps DEF Same
<1>2. QED
  BY <1>1, SameReach, SameGood

(* Every key is there once. *)
Unique(pairs) == \A s, t \in pairs : s.key = t.key => s = t

LEMMA GoodUnique ==
  ASSUME NEW h \in Memory
  PROVE  \A p \in Pointers(h), level \in 0..Levels : Good(h, p, level) => Unique(PairsFrom(h, p, level))
<1> DEFINE T == {n \in Nat : \A p \in Pointers(h), level \in 0..Levels :
                    Levels - level = n /\ Good(h, p, level) => Unique(PairsFrom(h, p, level))}
<1>1. ASSUME NEW n \in Nat, n = 0 \/ n - 1 \in T PROVE n \in T
  <2>1. SUFFICES ASSUME NEW p \in Pointers(h), NEW level \in 0..Levels, Levels - level = n,
                        Good(h, p, level)
                 PROVE  Unique(PairsFrom(h, p, level))
    OBVIOUS
  <2>2. PICK o : o = At(h, p)
    OBVIOUS
  <2>3. /\ level < Levels /\ p # NULL
        /\ \A c \in o.bitmap :
             /\ ~IsValue(SlotOf(o, c).word) => Good(h, SlotOf(o, c).word, level + 1)
             /\ \A t \in Under(h, SlotOf(o, c), level + 1) : Chunk(t.key, level) = c
    BY <2>1, <2>2, GoodIs
  <2>4. level + 1 \in 0..Levels /\ Levels - (level + 1) = n - 1 /\ n # 0
    BY <2>1, <2>3, LevelsAre
  <2>5. \A c \in o.bitmap : Fits(SlotOf(o, c), h)
    BY <2>2, <2>3, MemoryNode DEF FitNode
  <2>6. ASSUME NEW c \in o.bitmap PROVE Unique(Under(h, SlotOf(o, c), level + 1))
    <3>1. CASE IsValue(SlotOf(o, c).word)
      BY <3>1 DEF Under, Unique
    <3>2. CASE ~IsValue(SlotOf(o, c).word)
      <4>1. SlotOf(o, c).word \in Pointers(h) /\ Good(h, SlotOf(o, c).word, level + 1)
        BY <2>3, <2>5, <3>2 DEF Fits
      <4>2. Unique(PairsFrom(h, SlotOf(o, c).word, level + 1))
        BY <1>1, <2>4, <4>1
      <4>3. QED
        BY <3>2, <4>2 DEF Under
    <3>3. QED
      BY <3>1, <3>2
  <2>7. PairsFrom(h, p, level) = UNION {Under(h, SlotOf(o, c), level + 1) : c \in o.bitmap}
    BY <2>2, <2>3, PairsIs
  <2>8. ASSUME NEW s \in PairsFrom(h, p, level), NEW t \in PairsFrom(h, p, level), s.key = t.key
        PROVE  s = t
    <3>1. PICK c \in o.bitmap : s \in Under(h, SlotOf(o, c), level + 1)
      BY <2>7
    <3>2. PICK d \in o.bitmap : t \in Under(h, SlotOf(o, d), level + 1)
      BY <2>7
    <3>3. c = d
      BY <2>3, <2>8, <3>1, <3>2
    <3>4. QED
      BY <2>6, <2>8, <3>1, <3>2, <3>3 DEF Unique
  <2>9. QED
    BY <2>8 DEF Unique
<1>2. \A n \in Nat : n \in T
  <2> HIDE DEF T
  <2>1. QED
    BY <1>1, Induction
<1>3. \A level \in 0..Levels : Levels - level \in Nat
  BY LevelsAre
<1>4. QED
  BY <1>2, <1>3

(* The pairs with a chunk are those below its slot. *)
Along(pairs, level, chunk)  == {t \in pairs : Chunk(t.key, level) = chunk}
Beside(pairs, level, chunk) == {t \in pairs : Chunk(t.key, level) # chunk}

LEMMA PairsAlong ==
  ASSUME NEW h \in Memory, NEW p \in Pointers(h), NEW level \in 0..Levels, Good(h, p, level), NEW k
  PROVE  Along(PairsFrom(h, p, level), level, k) =
           IF k \in At(h, p).bitmap THEN Under(h, SlotOf(At(h, p), k), level + 1) ELSE {}
<1>2. PICK o : o = At(h, p)
  OBVIOUS
<1>3. /\ level < Levels /\ p # NULL
      /\ \A c \in o.bitmap : \A t \in Under(h, SlotOf(o, c), level + 1) : Chunk(t.key, level) = c
  BY <1>2, GoodIs
<1>4. PairsFrom(h, p, level) = UNION {Under(h, SlotOf(o, c), level + 1) : c \in o.bitmap}
  BY <1>2, <1>3, PairsIs
<1>5. Along(PairsFrom(h, p, level), level, k) =
        IF k \in o.bitmap THEN Under(h, SlotOf(o, k), level + 1) ELSE {}
  BY <1>3, <1>4 DEF Along
<1>6. QED
  BY <1>2, <1>5

(* A new node is a trie if its slots are, and its count is right. *)
LEMMA MadeGood ==
  ASSUME NEW g \in Memory, NEW r, NEW n, NEW flag \in BOOLEAN, Made(r, g, n, flag),
         NEW level \in 0..Levels, level < Levels,
         \A c \in n.bitmap :
           /\ ~IsValue(SlotOf(n, c).word) => Good(g, SlotOf(n, c).word, level + 1)
           /\ \A t \in Under(g, SlotOf(n, c), level + 1) : Chunk(t.key, level) = c,
         NEW Q, Q = UNION {Under(g, SlotOf(n, c), level + 1) : c \in n.bitmap},
         IsFiniteSet(Q), n.count = Cardinality(Q)
  PROVE  Good(r.heap, r.node, level) /\ PairsFrom(r.heap, r.node, level) = Q
<1>1. PICK h, p : h = r.heap /\ p = r.node
  OBVIOUS
<1>2. Extends(g, g) /\ FitNode(n, g)
  BY ExtendsSelf DEF Made
<1>3. h \in Memory /\ Extends(h, g) /\ p \in Pointers(h) /\ p # NULL /\ At(h, p) = n
  BY <1>1, <1>2, MadeIs
<1>4. level + 1 \in 0..Levels
  BY LevelsAre
<1>5. ASSUME NEW c \in n.bitmap
      PROVE  /\ ~IsValue(SlotOf(n, c).word) => Good(h, SlotOf(n, c).word, level + 1)
             /\ Under(h, SlotOf(n, c), level + 1) = Under(g, SlotOf(n, c), level + 1)
  <2>1. CASE IsValue(SlotOf(n, c).word)
    BY <2>1 DEF Under
  <2>2. CASE ~IsValue(SlotOf(n, c).word)
    <3>1. SlotOf(n, c).word \in Pointers(g)
      BY <1>2, <2>2 DEF FitNode, Fits
    <3>2. /\ PairsFrom(h, SlotOf(n, c).word, level + 1) = PairsFrom(g, SlotOf(n, c).word, level + 1)
          /\ Good(g, SlotOf(n, c).word, level + 1) => Good(h, SlotOf(n, c).word, level + 1)
      BY <1>3, <1>4, <3>1, ExtendsSame
    <3>3. QED
      BY <2>2, <3>2 DEF Under
  <2>3. QED
    BY <2>1, <2>2
<1>6. PairsFrom(h, p, level) = UNION {Under(h, SlotOf(n, c), level + 1) : c \in n.bitmap}
  BY <1>3, PairsIs
<1>7. PairsFrom(h, p, level) = Q
  BY <1>5, <1>6
<1>8. Good(h, p, level)
  BY <1>3, <1>5, <1>7, GoodIs
<1>9. QED
  BY <1>1, <1>7, <1>8

-----------------------------------------------------------------------------
(* Sets of pairs.                                                          *)

HasKey(pairs, key)  == \E t \in pairs : t.key = key
Without(pairs, key) == {t \in pairs : t.key # key}
With(pairs, slot)   == Without(pairs, slot.key) \cup {slot}

LEMMA WithoutCount ==
  ASSUME NEW P, IsFiniteSet(P), Unique(P), NEW k
  PROVE  /\ IsFiniteSet(Without(P, k)) /\ Cardinality(P) \in Nat
         /\ Cardinality(Without(P, k)) = Cardinality(P) - (IF HasKey(P, k) THEN 1 ELSE 0)
<1>1. Cardinality(P) \in Nat
  BY FS_CardinalityType
<1>2. CASE HasKey(P, k)
  <2>1. PICK t \in P : t.key = k
    BY <1>2 DEF HasKey
  <2>2. Without(P, k) = P \ {t}
    BY <2>1 DEF Without, Unique
  <2>3. IsFiniteSet(P \ {t}) /\ Cardinality(P \ {t}) = Cardinality(P) - 1
    BY <2>1, FS_RemoveElement
  <2>4. QED
    BY <1>1, <1>2, <2>2, <2>3
<1>3. CASE ~HasKey(P, k)
  <2>1. Without(P, k) = P
    BY <1>3 DEF Without, HasKey
  <2>2. QED
    BY <1>1, <1>3, <2>1
<1>4. QED
  BY <1>2, <1>3

LEMMA WithCount ==
  ASSUME NEW P, IsFiniteSet(P), Unique(P), NEW s
  PROVE  /\ IsFiniteSet(With(P, s)) /\ Cardinality(With(P, s)) \in Nat
         /\ Cardinality(With(P, s)) = Cardinality(P) + (IF HasKey(P, s.key) THEN 0 ELSE 1)
<1>1. PICK W : W = Without(P, s.key)
  OBVIOUS
<1>2. /\ IsFiniteSet(W) /\ Cardinality(P) \in Nat
      /\ Cardinality(W) = Cardinality(P) - (IF HasKey(P, s.key) THEN 1 ELSE 0)
  BY <1>1, WithoutCount
<1>3. s \notin W
  BY <1>1 DEF Without
<1>4. IsFiniteSet(W \cup {s}) /\ Cardinality(W \cup {s}) = Cardinality(W) + 1
  BY <1>2, <1>3, FS_AddElement
<1>5. Cardinality(W \cup {s}) \in Nat
  BY <1>4, FS_CardinalityType
<1>6. QED
  BY <1>1, <1>2, <1>4, <1>5 DEF With

(* What changes along the chunk of the key is what changes. *)
LEMMA AlongKey ==
  ASSUME NEW P, NEW level, NEW key, NEW k, k = Chunk(key, level)
  PROVE  /\ HasKey(P, key) <=> HasKey(Along(P, level, k), key)
         /\ Without(P, key) = Beside(P, level, k) \cup Without(Along(P, level, k), key)
         /\ \A s : s.key = key => With(P, s) = Beside(P, level, k) \cup With(Along(P, level, k), s)
<1>1. HasKey(P, key) <=> HasKey(Along(P, level, k), key)
  BY DEF HasKey, Along
<1>2. Without(P, key) = Beside(P, level, k) \cup Without(Along(P, level, k), key)
  BY DEF Without, Along, Beside
<1>3. QED
  BY <1>1, <1>2 DEF With

-----------------------------------------------------------------------------
(* A new version of a node.                                                *)

PairsAt(c) == PairsFrom(c.heap, c.node, c.level)

LEMMA KeptSlots ==
  ASSUME NEW c \in Calls, Good(c.heap, c.node, c.level), NEW g \in Memory, Extends(g, c.heap)
  PROVE  /\ NodeHere(c) /\ c.level + 1 \in 0..Levels
         /\ \A d \in NodeAt(c).bitmap :
              /\ ~IsValue(SlotOf(NodeAt(c), d).word) => Good(g, SlotOf(NodeAt(c), d).word, c.level + 1)
              /\ Under(g, SlotOf(NodeAt(c), d), c.level + 1) =
                   Along(PairsAt(c), c.level, d)
         /\ \A d : d \notin NodeAt(c).bitmap => Along(PairsAt(c), c.level, d) = {}
         /\ PairsAt(c) = UNION {Along(PairsAt(c), c.level, d) : d \in NodeAt(c).bitmap}
<1>0. PICK h, p, o, level : h = c.heap /\ p = c.node /\ o = NodeAt(c) /\ level = c.level
  OBVIOUS
<1>1. h \in Memory /\ p \in Pointers(h) /\ level \in 0..Levels /\ Good(h, p, level) /\ Extends(g, h)
  BY <1>0, CallHas
<1>2. o = At(h, p)
  BY <1>0 DEF NodeAt
<1>3. /\ level < Levels /\ p # NULL
      /\ \A d \in o.bitmap :
           ~IsValue(SlotOf(o, d).word) => Good(h, SlotOf(o, d).word, level + 1)
  BY <1>1, <1>2, GoodIs
<1>4. NodeHere(c) /\ level + 1 \in 0..Levels
  BY <1>0, <1>1, <1>3, LevelsAre DEF NodeHere
<1>5. FitNode(o, h)
  BY <1>1, <1>2, <1>3, MemoryNode
<1>6. ASSUME NEW d \in o.bitmap
      PROVE  /\ ~IsValue(SlotOf(o, d).word) => Good(g, SlotOf(o, d).word, level + 1)
             /\ Under(g, SlotOf(o, d), level + 1) = Under(h, SlotOf(o, d), level + 1)
  <2>1. CASE IsValue(SlotOf(o, d).word)
    BY <2>1 DEF Under
  <2>2. CASE ~IsValue(SlotOf(o, d).word)
    <3>1. SlotOf(o, d).word \in Pointers(h)
      BY <1>5, <2>2 DEF FitNode, Fits
    <3>2. /\ PairsFrom(g, SlotOf(o, d).word, level + 1) = PairsFrom(h, SlotOf(o, d).word, level + 1)
          /\ Good(h, SlotOf(o, d).word, level + 1) => Good(g, SlotOf(o, d).word, level + 1)
      BY <1>1, <1>4, <3>1, ExtendsSame
    <3>3. QED
      BY <1>3, <2>2, <3>2 DEF Under
  <2>3. QED
    BY <2>1, <2>2
<1>7. PICK P : P = PairsFrom(h, p, level)
  OBVIOUS
<1>8. \A d : Along(P, level, d) = IF d \in o.bitmap THEN Under(h, SlotOf(o, d), level + 1) ELSE {}
  BY <1>1, <1>2, <1>7, PairsAlong
<1>9. P = UNION {Under(h, SlotOf(o, d), level + 1) : d \in o.bitmap}
  BY <1>1, <1>2, <1>3, <1>7, PairsIs
<1>10. P = UNION {Along(P, level, d) : d \in o.bitmap}
  BY <1>8, <1>9
<1>11. P = PairsAt(c)
  BY <1>0, <1>7 DEF PairsAt
<1>12. \A d \in o.bitmap : Under(g, SlotOf(o, d), level + 1) = Along(P, level, d)
  BY <1>6, <1>8
<1>13. QED
  BY <1>0, <1>4, <1>6, <1>8, <1>10, <1>11, <1>12

LEMMA PutGood ==
  ASSUME NEW c \in Calls, Good(c.heap, c.node, c.level), NEW g \in Memory, Extends(g, c.heap),
         NEW r, NEW n, NEW flag \in BOOLEAN, Made(r, g, n, flag), NEW s,
         n.bitmap = NodeAt(c).bitmap \cup {ChunkAt(c)}, Puts(n, NodeAt(c), ChunkAt(c), s),
         ~IsValue(s.word) => Good(g, s.word, c.level + 1),
         \A t \in Under(g, s, c.level + 1) : Chunk(t.key, c.level) = ChunkAt(c),
         NEW Q, Q = Beside(PairsAt(c), c.level, ChunkAt(c)) \cup Under(g, s, c.level + 1),
         IsFiniteSet(Q), n.count = Cardinality(Q)
  PROVE  Good(r.heap, r.node, c.level) /\ PairsFrom(r.heap, r.node, c.level) = Q
<1>0. PICK o, k, level, P : o = NodeAt(c) /\ k = ChunkAt(c) /\ level = c.level /\ P = PairsAt(c)
  OBVIOUS
<1>1. /\ NodeHere(c) /\ level + 1 \in 0..Levels
      /\ \A d \in o.bitmap :
           /\ ~IsValue(SlotOf(o, d).word) => Good(g, SlotOf(o, d).word, level + 1)
           /\ Under(g, SlotOf(o, d), level + 1) = Along(P, level, d)
      /\ P = UNION {Along(P, level, d) : d \in o.bitmap}
  BY <1>0, KeptSlots
<1>2. level \in 0..Levels /\ level < Levels
  BY <1>0, <1>1, CallHas DEF NodeHere
<1>3. \A d \in n.bitmap : SlotOf(n, d) = IF d = k THEN s ELSE SlotOf(o, d)
  BY <1>0 DEF Puts
<1>4. n.bitmap = o.bitmap \cup {k}
  BY <1>0
<1>5. \A t \in Under(g, s, level + 1) : Chunk(t.key, level) = k
  BY <1>0
<1>6. \A d \in n.bitmap :
        /\ ~IsValue(SlotOf(n, d).word) => Good(g, SlotOf(n, d).word, level + 1)
        /\ \A t \in Under(g, SlotOf(n, d), level + 1) : Chunk(t.key, level) = d
  BY <1>0, <1>1, <1>3, <1>4, <1>5 DEF Along
<1>7. Q = UNION {Under(g, SlotOf(n, d), level + 1) : d \in n.bitmap}
  <2>1. Q = Beside(P, level, k) \cup Under(g, s, level + 1)
    BY <1>0
  <2>2. ASSUME NEW t \in Q PROVE \E d \in n.bitmap : t \in Under(g, SlotOf(n, d), level + 1)
    <3>1. CASE t \in Under(g, s, level + 1)
      BY <1>3, <1>4, <3>1
    <3>2. CASE t \in Beside(P, level, k)
      <4>1. t \in P /\ Chunk(t.key, level) # k
        BY <3>2 DEF Beside
      <4>2. PICK d \in o.bitmap : t \in Along(P, level, d)
        BY <1>1, <4>1
      <4>3. d # k
        BY <4>1, <4>2 DEF Along
      <4>4. QED
        BY <1>1, <1>3, <1>4, <4>2, <4>3
    <3>3. QED
      BY <2>1, <3>1, <3>2
  <2>3. ASSUME NEW d \in n.bitmap, NEW t \in Under(g, SlotOf(n, d), level + 1) PROVE t \in Q
    <3>1. CASE d = k
      BY <1>3, <2>1, <2>3, <3>1
    <3>2. CASE d # k
      <4>1. t \in Along(P, level, d)
        BY <1>1, <1>3, <1>4, <2>3, <3>2
      <4>2. t \in Beside(P, level, k)
        BY <3>2, <4>1 DEF Along, Beside
      <4>3. QED
        BY <2>1, <4>2
    <3>3. QED
      BY <3>1, <3>2
  <2>4. QED
    BY <2>2, <2>3
<1>8. Good(r.heap, r.node, level) /\ PairsFrom(r.heap, r.node, level) = Q
  BY <1>2, <1>6, <1>7, MadeGood
<1>9. QED
  BY <1>0, <1>8

LEMMA KeepGood ==
  ASSUME NEW c \in Calls, Good(c.heap, c.node, c.level), NEW g \in Memory, Extends(g, c.heap),
         NEW r, NEW n, NEW flag \in BOOLEAN, Made(r, g, n, flag),
         n.bitmap = NodeAt(c).bitmap \ {ChunkAt(c)}, Keeps(n, NodeAt(c)),
         NEW Q, Q = Beside(PairsAt(c), c.level, ChunkAt(c)),
         IsFiniteSet(Q), n.count = Cardinality(Q)
  PROVE  Good(r.heap, r.node, c.level) /\ PairsFrom(r.heap, r.node, c.level) = Q
<1>0. PICK o, k, level, P : o = NodeAt(c) /\ k = ChunkAt(c) /\ level = c.level /\ P = PairsAt(c)
  OBVIOUS
<1>1. /\ NodeHere(c) /\ level + 1 \in 0..Levels
      /\ \A d \in o.bitmap :
           /\ ~IsValue(SlotOf(o, d).word) => Good(g, SlotOf(o, d).word, level + 1)
           /\ Under(g, SlotOf(o, d), level + 1) = Along(P, level, d)
      /\ P = UNION {Along(P, level, d) : d \in o.bitmap}
  BY <1>0, KeptSlots
<1>2. level \in 0..Levels /\ level < Levels
  BY <1>0, <1>1, CallHas DEF NodeHere
<1>3. \A d \in n.bitmap : SlotOf(n, d) = SlotOf(o, d)
  BY <1>0 DEF Keeps
<1>4. n.bitmap = o.bitmap \ {k}
  BY <1>0
<1>6. \A d \in n.bitmap :
        /\ ~IsValue(SlotOf(n, d).word) => Good(g, SlotOf(n, d).word, level + 1)
        /\ Under(g, SlotOf(n, d), level + 1) = Along(P, level, d)
        /\ \A t \in Under(g, SlotOf(n, d), level + 1) : Chunk(t.key, level) = d
  BY <1>0, <1>1, <1>3, <1>4 DEF Along
<1>7. Q = UNION {Under(g, SlotOf(n, d), level + 1) : d \in n.bitmap}
  <2>1. Q = Beside(P, level, k)
    BY <1>0
  <2>2. ASSUME NEW t \in Q PROVE \E d \in n.bitmap : t \in Under(g, SlotOf(n, d), level + 1)
    <3>1. t \in P /\ Chunk(t.key, level) # k
      BY <2>1 DEF Beside
    <3>2. PICK d \in o.bitmap : t \in Along(P, level, d)
      BY <1>1, <3>1
    <3>3. d # k
      BY <3>1, <3>2 DEF Along
    <3>4. QED
      BY <1>4, <1>6, <3>2, <3>3
  <2>3. ASSUME NEW d \in n.bitmap, NEW t \in Under(g, SlotOf(n, d), level + 1) PROVE t \in Q
    BY <1>4, <1>6, <2>1, <2>3 DEF Along, Beside
  <2>4. QED
    BY <2>2, <2>3
<1>8. Good(r.heap, r.node, level) /\ PairsFrom(r.heap, r.node, level) = Q
  BY <1>2, <1>6, <1>7, MadeGood
<1>9. QED
  BY <1>0, <1>8

-----------------------------------------------------------------------------
(* hamt_set_impl: the pair of the key is put among the pairs.              *)

Counted(h) == \A i \in 1..Len(h) : h[i].count \in Nat

LEMMA MadeCounted ==
  ASSUME NEW g \in Memory, NEW r, NEW n, NEW flag \in BOOLEAN, Made(r, g, n, flag),
         n.count \in Nat, Counted(g)
  PROVE  Counted(r.heap)
<1>1. Extends(g, g) /\ Len(g) \in Nat
  BY ExtendsSelf, MemoryLen
<1>2. Extends(r.heap, g) /\ Len(r.heap) = Len(g) + 1 /\ r.heap[Len(g) + 1] = n
  BY <1>1, MadeIs
<1>3. SUFFICES ASSUME NEW i \in 1..Len(r.heap) PROVE r.heap[i].count \in Nat
  BY DEF Counted
<1>4. CASE i \in 1..Len(g)
  BY <1>2, <1>4 DEF Counted, Extends
<1>5. CASE i \notin 1..Len(g)
  <2>1. i = Len(g) + 1
    BY <1>1, <1>2, <1>5
  <2>2. QED
    BY <1>2, <2>1
<1>6. QED
  BY <1>4, <1>5

(* The keys below a node at a level agree with key on the chunks above.    *)
Leads(pairs, key, level) == \A t \in pairs : \A i \in 0..level - 1 : Chunk(t.key, i) = Chunk(key, i)

SetPre(c) ==
  /\ c \in Calls /\ c.level < Levels
  /\ c.node = NULL \/ Good(c.heap, c.node, c.level)
  /\ Leads(PairsAt(c), c.key, c.level)

SetPost(c, r) ==
  /\ Outcome(r, c.heap) /\ r.node \notin Pointers(c.heap)
  /\ Good(r.heap, r.node, c.level)
  /\ PairsFrom(r.heap, r.node, c.level) = With(PairsAt(c), Leaf(c.key, c.value))
  /\ r.flag <=> ~HasKey(PairsAt(c), c.key)
  /\ Counted(c.heap) => Counted(r.heap)

(* A node in which the slot of the key has changed. *)
LEMMA SetNode ==
  ASSUME NEW c \in Calls, Good(c.heap, c.node, c.level), NEW g \in Memory, Extends(g, c.heap),
         Counted(c.heap) => Counted(g),
         NEW r, NEW n, NEW flag \in BOOLEAN, Made(r, g, n, flag), NEW s,
         n.bitmap = NodeAt(c).bitmap \cup {ChunkAt(c)}, Puts(n, NodeAt(c), ChunkAt(c), s),
         ~IsValue(s.word) => Good(g, s.word, c.level + 1),
         Under(g, s, c.level + 1) = With(Along(PairsAt(c), c.level, ChunkAt(c)), Leaf(c.key, c.value)),
         flag <=> ~HasKey(Along(PairsAt(c), c.level, ChunkAt(c)), c.key),
         n.count = NodeAt(c).count + (IF flag THEN 1 ELSE 0)
  PROVE  SetPost(c, r)
<1>0. PICK k, level, P, leaf : k = ChunkAt(c) /\ level = c.level /\ P = PairsAt(c)
                               /\ leaf = Leaf(c.key, c.value)
  OBVIOUS
<1>1. leaf.key = c.key /\ k = Chunk(leaf.key, level)
  BY <1>0 DEF Leaf, ChunkAt
<1>2. /\ HasKey(P, c.key) <=> HasKey(Along(P, level, k), c.key)
      /\ With(P, leaf) = Beside(P, level, k) \cup With(Along(P, level, k), leaf)
  BY <1>1, AlongKey
<1>3. /\ c.heap \in Memory /\ c.node \in Pointers(c.heap) /\ level \in 0..Levels
      /\ P = PairsFrom(c.heap, c.node, level)
  BY <1>0, CallHas DEF PairsAt
<1>4. IsFiniteSet(P) /\ NodeAt(c).count = Cardinality(P) /\ Unique(P)
  BY <1>0, <1>3, GoodIs, GoodUnique DEF NodeAt
<1>5. PICK Q : Q = With(P, leaf)
  OBVIOUS
<1>6. /\ IsFiniteSet(Q) /\ Cardinality(Q) \in Nat
      /\ Cardinality(Q) = Cardinality(P) + (IF HasKey(P, leaf.key) THEN 0 ELSE 1)
  BY <1>4, <1>5, WithCount
<1>7. flag <=> ~HasKey(P, c.key)
  BY <1>0, <1>2
<1>8. n.count = Cardinality(Q)
  BY <1>1, <1>4, <1>6, <1>7
<1>9. Q = Beside(P, level, k) \cup Under(g, s, level + 1)
  BY <1>0, <1>2, <1>5
<1>10. \A t \in Under(g, s, c.level + 1) : Chunk(t.key, c.level) = ChunkAt(c)
  BY <1>0, <1>1 DEF With, Without, Along
<1>11. Good(r.heap, r.node, level) /\ PairsFrom(r.heap, r.node, level) = Q
  <2>1. Q = Beside(PairsAt(c), c.level, ChunkAt(c)) \cup Under(g, s, c.level + 1)
    BY <1>0, <1>9
  <2>2. QED
    BY <1>0, <1>6, <1>8, <1>10, <2>1, PutGood
<1>12. Outcome(r, c.heap) /\ r.flag = flag /\ r.node \notin Pointers(g)
  BY <1>3, MadeIs
<1>13. r.node \notin Pointers(c.heap)
  BY <1>3, <1>12, ExtendsKeeps
<1>14. Counted(c.heap) => Counted(r.heap)
  BY <1>6, <1>8, MadeCounted
<1>15. QED
  BY <1>0, <1>5, <1>7, <1>11, <1>12, <1>13, <1>14 DEF SetPost

LEMMA SetNull ==
  ASSUME NEW c, SetPre(c), Kind(c) = "null"
  PROVE  SetPost(c, SetImpl[c])
<1>1. /\ c \in Calls /\ c.level < Levels /\ c.node = NULL /\ c.heap \in Memory
      /\ c.level \in 0..Levels /\ c.level + 1 \in 0..Levels
      /\ c.key \in Keys /\ c.value \in Int /\ Extends(c.heap, c.heap)
  BY KindIs, CallHas, LevelsAre, ExtendsSelf DEF SetPre
<1>2. PairsAt(c) = {}
  BY <1>1, CallHas, PairsIs DEF PairsAt
<1>3. PICK r, leaf, k, level : r = SetImpl[c] /\ leaf = Leaf(c.key, c.value) /\ k = ChunkAt(c) /\ level = c.level
  OBVIOUS
<1>4. r = NewLeaf(c)
  BY <1>1, <1>3, SetImplIs, SetCases
<1>5. PICK n : Made(r, c.heap, n, TRUE) /\ n.bitmap = {k} /\ n.count = 1 /\ SlotOf(n, k) = leaf
  BY <1>1, <1>3, <1>4, NewLeafMade
<1>6. leaf.key = c.key /\ IsValue(leaf.word)
  BY <1>1, <1>3, LeafIs
<1>7. Under(c.heap, leaf, level + 1) = {leaf}
  BY <1>6 DEF Under
<1>8. {leaf} = UNION {Under(c.heap, SlotOf(n, d), level + 1) : d \in n.bitmap}
  BY <1>5, <1>7
<1>9. IsFiniteSet({leaf}) /\ Cardinality({leaf}) = 1
  BY FS_Singleton
<1>10. \A d \in n.bitmap :
         /\ ~IsValue(SlotOf(n, d).word) => Good(c.heap, SlotOf(n, d).word, level + 1)
         /\ \A t \in Under(c.heap, SlotOf(n, d), level + 1) : Chunk(t.key, level) = d
  BY <1>3, <1>5, <1>6, <1>7 DEF ChunkAt
<1>11. Good(r.heap, r.node, level) /\ PairsFrom(r.heap, r.node, level) = {leaf}
  <2>1. PICK Q : Q = {leaf}
    OBVIOUS
  <2>2. Q = UNION {Under(c.heap, SlotOf(n, d), level + 1) : d \in n.bitmap}
        /\ IsFiniteSet(Q) /\ n.count = Cardinality(Q)
    BY <1>5, <1>8, <1>9, <2>1
  <2>3. PICK g, flag : g = c.heap /\ flag = TRUE
    OBVIOUS
  <2>4. /\ g \in Memory /\ flag \in BOOLEAN /\ Made(r, g, n, flag)
        /\ level \in 0..Levels /\ level < Levels
    BY <1>1, <1>3, <1>5, <2>3
  <2>5. \A d \in n.bitmap :
         /\ ~IsValue(SlotOf(n, d).word) => Good(g, SlotOf(n, d).word, level + 1)
         /\ \A t \in Under(g, SlotOf(n, d), level + 1) : Chunk(t.key, level) = d
    BY <1>10, <2>3
  <2>6. Q = UNION {Under(g, SlotOf(n, d), level + 1) : d \in n.bitmap}
    BY <2>2, <2>3
  <2>7. Good(r.heap, r.node, level) /\ PairsFrom(r.heap, r.node, level) = Q
    BY <2>2, <2>4, <2>5, <2>6, MadeGood
  <2>8. QED
    BY <2>1, <2>7
<1>12. Outcome(r, c.heap) /\ r.flag = TRUE /\ r.node \notin Pointers(c.heap)
  <2>1. PICK h, flag : h = c.heap /\ flag = TRUE
    OBVIOUS
  <2>2. h \in Memory /\ Extends(h, h) /\ flag \in BOOLEAN /\ Made(r, h, n, flag)
    BY <1>1, <1>5, <2>1, ExtendsSelf
  <2>3. Outcome(r, h) /\ r.flag = flag /\ r.node \notin Pointers(h)
    BY ONLY <2>2, MadeIs
  <2>4. QED
    BY <2>1, <2>3
<1>13. Counted(c.heap) => Counted(r.heap)
  <2>1. n.count \in Nat
    BY <1>5
  <2>2. QED
    BY <1>1, <1>5, <2>1, MadeCounted
<1>14. With(PairsAt(c), leaf) = {leaf} /\ ~HasKey(PairsAt(c), c.key)
  BY <1>2 DEF With, Without, HasKey
<1>15. SetPost(c, r)
  BY <1>3, <1>11, <1>12, <1>13, <1>14 DEF SetPost
<1>16. QED
  BY <1>3, <1>15

LEMMA SetHere ==
  ASSUME NEW c, SetPre(c), NodeHere(c)
  PROVE  /\ c \in Calls /\ Good(c.heap, c.node, c.level) /\ c.heap \in Memory
         /\ Extends(c.heap, c.heap) /\ c.key \in Keys /\ c.value \in Int
         /\ c.level \in 0..Levels - 1 /\ c.level + 1 \in 0..Levels /\ NodeAt(c).count \in Int
         /\ Leaf(c.key, c.value).key = c.key /\ IsValue(Leaf(c.key, c.value).word)
         /\ \A h : Under(h, Leaf(c.key, c.value), c.level + 1) = {Leaf(c.key, c.value)}
<1>1. c \in Calls /\ Good(c.heap, c.node, c.level)
  BY DEF SetPre, NodeHere
<1>2. c.heap \in Memory /\ c.key \in Keys /\ c.value \in Int /\ Extends(c.heap, c.heap)
  BY <1>1, CallHas, ExtendsSelf
<1>3. c.level \in 0..Levels - 1 /\ c.level + 1 \in 0..Levels /\ NodeAt(c).count \in Int
  BY <1>1, AtNode
<1>4. Leaf(c.key, c.value).key = c.key /\ IsValue(Leaf(c.key, c.value).word)
  BY <1>2, LeafIs
<1>5. QED
  BY <1>1, <1>2, <1>3, <1>4 DEF Under

(* The pairs along a chunk that is occupied. *)
LEMMA AlongSlot ==
  ASSUME NEW c \in Calls, Good(c.heap, c.node, c.level)
  PROVE  /\ Kind(c) = "free" => Along(PairsAt(c), c.level, ChunkAt(c)) = {}
         /\ Kind(c) \in {"found", "other"} =>
              /\ Along(PairsAt(c), c.level, ChunkAt(c)) = {SlotAt(c)}
              /\ SlotAt(c) \in PairsAt(c) /\ Chunk(SlotAt(c).key, c.level) = ChunkAt(c)
         /\ Kind(c) = "child" =>
              /\ Along(PairsAt(c), c.level, ChunkAt(c)) = PairsAt(NextCall(c))
              /\ Good(c.heap, SlotAt(c).word, c.level + 1)
<1>0. PICK o, k, level, P, s : o = NodeAt(c) /\ k = ChunkAt(c) /\ level = c.level /\ P = PairsAt(c)
                               /\ s = SlotAt(c)
  OBVIOUS
<1>1. c.heap \in Memory /\ Extends(c.heap, c.heap)
  BY CallHas, ExtendsSelf
<1>2. /\ \A d \in o.bitmap :
           /\ ~IsValue(SlotOf(o, d).word) => Good(c.heap, SlotOf(o, d).word, level + 1)
           /\ Under(c.heap, SlotOf(o, d), level + 1) = Along(P, level, d)
      /\ \A d : d \notin o.bitmap => Along(P, level, d) = {}
  BY <1>0, <1>1, KeptSlots
<1>3. s = SlotOf(o, k)
  BY <1>0 DEF SlotAt
<1>4. CASE Kind(c) = "free"
  BY <1>0, <1>2, <1>4, KindIs DEF Occupied
<1>5. CASE Kind(c) \in {"found", "other"}
  <2>1. k \in o.bitmap /\ IsValue(s.word)
    BY <1>0, <1>5, KindIs DEF Occupied, Found, LeafAt
  <2>2. Along(P, level, k) = {s}
    BY <1>2, <1>3, <2>1 DEF Under
  <2>3. s \in P /\ Chunk(s.key, level) = k
    BY <2>2 DEF Along
  <2>4. QED
    BY <1>0, <1>5, <2>2, <2>3
<1>6. CASE Kind(c) = "child"
  <2>1. k \in o.bitmap /\ ~IsValue(s.word)
    BY <1>0, <1>6, KindIs DEF Occupied, BranchAt
  <2>2. Along(P, level, k) = PairsFrom(c.heap, s.word, level + 1) /\ Good(c.heap, s.word, level + 1)
    BY <1>2, <1>3, <2>1 DEF Under
  <2>3. PairsAt(NextCall(c)) = PairsFrom(c.heap, s.word, level + 1)
    BY <1>0, <1>6, NextCallIs DEF PairsAt
  <2>4. QED
    BY <1>0, <1>6, <2>2, <2>3
<1>7. QED
  BY <1>4, <1>5, <1>6

LEMMA SetFree ==
  ASSUME NEW c, SetPre(c), Kind(c) = "free"
  PROVE  SetPost(c, SetImpl[c])
<1>1. NodeHere(c) /\ ~Occupied(c) /\ c \in Calls
  BY KindIs DEF SetPre
<1>2. PICK g, r, s, k, flag : g = c.heap /\ r = SetImpl[c] /\ s = Leaf(c.key, c.value)
                              /\ k = ChunkAt(c) /\ flag = TRUE
  OBVIOUS
<1>3. r = AddLeaf(c)
  BY <1>1, <1>2, SetImplIs, SetCases
<1>4. PICK n : /\ Made(r, g, n, flag)
               /\ n.bitmap = NodeAt(c).bitmap \cup {k} /\ n.count = NodeAt(c).count + 1
               /\ Puts(n, NodeAt(c), k, s)
  BY <1>1, <1>2, <1>3, AddLeafMade
<1>5. Along(PairsAt(c), c.level, k) = {}
  BY <1>1, <1>2, AlongSlot, SetHere
<1>6. /\ Good(c.heap, c.node, c.level) /\ g \in Memory /\ Extends(g, c.heap)
      /\ flag \in BOOLEAN /\ IsValue(s.word)
      /\ Under(g, s, c.level + 1) = With(Along(PairsAt(c), c.level, k), s)
      /\ flag <=> ~HasKey(Along(PairsAt(c), c.level, k), c.key)
      /\ n.count = NodeAt(c).count + (IF flag THEN 1 ELSE 0)
  BY <1>1, <1>2, <1>4, <1>5, SetHere DEF With, Without, HasKey
<1>7. SetPost(c, r)
  BY <1>1, <1>2, <1>4, <1>6, SetNode
<1>8. QED
  BY <1>2, <1>7

LEMMA SetFound ==
  ASSUME NEW c, SetPre(c), Kind(c) = "found"
  PROVE  SetPost(c, SetImpl[c])
<1>1. NodeHere(c) /\ Occupied(c) /\ Found(c) /\ c \in Calls
  BY KindIs DEF SetPre
<1>2. PICK g, r, s, k, flag : g = c.heap /\ r = SetImpl[c] /\ s = Leaf(c.key, c.value)
                              /\ k = ChunkAt(c) /\ flag = FALSE
  OBVIOUS
<1>3. r = SetLeaf(c)
  BY <1>1, <1>2, SetImplIs, SetCases
<1>4. PICK n : /\ Made(r, g, n, flag)
               /\ n.bitmap = NodeAt(c).bitmap /\ n.count = NodeAt(c).count
               /\ Puts(n, NodeAt(c), k, s)
  BY <1>1, <1>2, <1>3, SetLeafMade
<1>5. Along(PairsAt(c), c.level, k) = {SlotAt(c)} /\ SlotAt(c).key = c.key
  BY <1>1, <1>2, AlongSlot, SetHere DEF Found
<1>6. /\ Good(c.heap, c.node, c.level) /\ g \in Memory /\ Extends(g, c.heap)
      /\ flag \in BOOLEAN /\ IsValue(s.word) /\ s.key = c.key /\ NodeAt(c).count \in Int
      /\ Under(g, s, c.level + 1) = {s}
  BY <1>1, <1>2, SetHere
<1>7. /\ Under(g, s, c.level + 1) = With(Along(PairsAt(c), c.level, k), s)
      /\ flag <=> ~HasKey(Along(PairsAt(c), c.level, k), c.key)
      /\ n.count = NodeAt(c).count + (IF flag THEN 1 ELSE 0)
      /\ n.bitmap = NodeAt(c).bitmap \cup {k}
  BY <1>1, <1>2, <1>4, <1>5, <1>6 DEF With, Without, HasKey, Occupied
<1>8. SetPost(c, r)
  BY <1>1, <1>2, <1>4, <1>6, <1>7, SetNode
<1>9. QED
  BY <1>2, <1>8

LEMMA SetChild ==
  ASSUME NEW c, SetPre(c), Kind(c) = "child",
         \A d : SetPre(d) /\ d.level = c.level + 1 => SetPost(d, SetImpl[d])
  PROVE  SetPost(c, SetImpl[c])
<1>1. NodeHere(c) /\ Occupied(c) /\ c \in Calls
  BY KindIs DEF SetPre
<1>2. PICK d, b, r, k, leaf : d = NextCall(c) /\ b = SetImpl[d] /\ r = SetImpl[c] /\ k = ChunkAt(c)
                              /\ leaf = Leaf(c.key, c.value)
  OBVIOUS
<1>3. /\ d \in Calls /\ d.heap = c.heap /\ d.node = SlotAt(c).word /\ d.key = c.key
      /\ d.value = c.value /\ d.level = c.level + 1 /\ SlotAt(c).word \in Pointers(c.heap)
  BY <1>1, <1>2, NextCallIs
<1>4. /\ Good(c.heap, c.node, c.level) /\ c.heap \in Memory /\ c.level \in 0..Levels - 1
      /\ c.level + 1 \in 0..Levels /\ leaf.key = c.key /\ NodeAt(c).count \in Int
  BY <1>1, <1>2, SetHere
<1>5. PICK A : A = Along(PairsAt(c), c.level, k)
  OBVIOUS
<1>6. A = PairsAt(d) /\ Good(d.heap, d.node, d.level)
  BY <1>1, <1>2, <1>3, <1>4, <1>5, AlongSlot
<1>7. d.level < Levels
  BY <1>3, <1>4, <1>6, GoodIs
<1>8. Leads(PairsAt(d), d.key, d.level)
  <2>1. SUFFICES ASSUME NEW t \in A, NEW i \in 0..d.level - 1 PROVE Chunk(t.key, i) = Chunk(c.key, i)
    BY <1>3, <1>6 DEF Leads
  <2>2. t \in PairsAt(c) /\ Chunk(t.key, c.level) = Chunk(c.key, c.level)
    BY <1>2, <1>5 DEF Along, ChunkAt
  <2>3. CASE i = c.level
    BY <2>2, <2>3
  <2>4. CASE i # c.level
    <3>1. i \in 0..c.level - 1
      BY <1>3, <1>4, <2>4
    <3>2. QED
      BY <2>2, <3>1 DEF SetPre, Leads
  <2>5. QED
    BY <2>3, <2>4
<1>9. SetPost(d, b)
  <2>1. SetPre(d)
    BY <1>3, <1>6, <1>7, <1>8 DEF SetPre
  <2>2. QED
    BY <1>2, <1>3, <2>1
<1>10. /\ Outcome(b, c.heap) /\ b.node \notin Pointers(c.heap)
       /\ Good(b.heap, b.node, c.level + 1)
       /\ PairsFrom(b.heap, b.node, c.level + 1) = With(A, leaf)
       /\ b.flag <=> ~HasKey(A, c.key)
       /\ Counted(c.heap) => Counted(b.heap)
  BY <1>2, <1>3, <1>6, <1>9 DEF SetPost
<1>11. /\ b.heap \in Memory /\ b.node \in Pointers(b.heap) /\ b.flag \in BOOLEAN
       /\ Extends(b.heap, c.heap)
  BY <1>10, OutcomeHas
<1>12. PICK count, flag, s : count = CountUp(NodeAt(c), b) /\ flag = b.flag /\ s = Branch(b.node)
  OBVIOUS
<1>13. count \in Int /\ count = NodeAt(c).count + (IF flag THEN 1 ELSE 0) /\ flag \in BOOLEAN
  BY <1>4, <1>11, <1>12 DEF CountUp
<1>14. r = SetBranch(c, b, count, flag)
  <2>1. b.node # SlotAt(c).word
    BY <1>3, <1>10
  <2>2. QED
    BY <1>1, <1>2, <1>12, <2>1, SetImplIs, SetCases
<1>15. PICK n : /\ Made(r, b.heap, n, flag)
                /\ n.bitmap = NodeAt(c).bitmap /\ n.count = count
                /\ Puts(n, NodeAt(c), k, s)
  BY <1>1, <1>2, <1>10, <1>12, <1>13, <1>14, SetBranchMade
<1>16. s.word = b.node /\ ~IsValue(s.word)
  BY <1>11, <1>12, BranchIs
<1>17. Under(b.heap, s, c.level + 1) = With(A, leaf) /\ Good(b.heap, s.word, c.level + 1)
  BY <1>10, <1>16 DEF Under
<1>18. /\ n.bitmap = NodeAt(c).bitmap \cup {k}
       /\ flag <=> ~HasKey(A, c.key)
  <2>1. k \in NodeAt(c).bitmap
    BY <1>1, <1>2 DEF Occupied
  <2>2. QED
    BY <1>10, <1>12, <1>15, <2>1
<1>19. SetPost(c, r)
  <2>1. PICK g : g = b.heap
    OBVIOUS
  <2>2. /\ g \in Memory /\ Extends(g, c.heap) /\ (Counted(c.heap) => Counted(g))
        /\ Made(r, g, n, flag) /\ (~IsValue(s.word) => Good(g, s.word, c.level + 1))
        /\ Under(g, s, c.level + 1) = With(A, leaf)
    BY <1>10, <1>11, <1>15, <1>17, <2>1
  <2>3. n.bitmap = NodeAt(c).bitmap \cup {ChunkAt(c)} /\ Puts(n, NodeAt(c), ChunkAt(c), s)
        /\ n.count = NodeAt(c).count + (IF flag THEN 1 ELSE 0)
    BY <1>2, <1>13, <1>15, <1>18
  <2>4. /\ Under(g, s, c.level + 1) = With(Along(PairsAt(c), c.level, ChunkAt(c)), Leaf(c.key, c.value))
        /\ flag <=> ~HasKey(Along(PairsAt(c), c.level, ChunkAt(c)), c.key)
    BY <1>2, <1>5, <1>18, <2>2
  <2>5. QED
    BY <1>1, <1>4, <1>13, <2>2, <2>3, <2>4, SetNode
<1>20. QED
  BY <1>2, <1>19

LEMMA SetOther ==
  ASSUME NEW c, SetPre(c), Kind(c) = "other",
         \A d : SetPre(d) /\ d.level = c.level + 1 => SetPost(d, SetImpl[d])
  PROVE  SetPost(c, SetImpl[c])
<1>1. NodeHere(c) /\ Occupied(c) /\ LeafAt(c) /\ c \in Calls
  BY KindIs DEF SetPre
<1>2. PICK d, one, e, b, r, k, slot, leaf :
        /\ d = OtherCall(c) /\ one = SetImpl[d] /\ e = BothCall(c, one) /\ b = SetImpl[e]
        /\ r = SetImpl[c] /\ k = ChunkAt(c) /\ slot = SlotAt(c) /\ leaf = Leaf(c.key, c.value)
  OBVIOUS
<1>3. /\ d \in Calls /\ d.heap = c.heap /\ d.node = NULL /\ d.key = slot.key /\ slot.key \in Keys
      /\ slot.key # c.key /\ d.value = Untagged(slot.word) /\ d.level = c.level + 1
  BY <1>1, <1>2, OtherCallIs
<1>4. /\ Good(c.heap, c.node, c.level) /\ c.heap \in Memory /\ c.level \in 0..Levels - 1
      /\ c.level + 1 \in 0..Levels /\ leaf.key = c.key /\ NodeAt(c).count \in Int /\ c.key \in Keys
  BY <1>1, <1>2, SetHere
<1>5. PICK A : A = Along(PairsAt(c), c.level, k)
  OBVIOUS
<1>6. A = {slot} /\ slot \in PairsAt(c) /\ Chunk(slot.key, c.level) = k
  BY <1>1, <1>2, <1>4, <1>5, AlongSlot
<1>7. Leads({slot}, c.key, c.level + 1)
  <2>1. SUFFICES ASSUME NEW i \in 0..(c.level + 1) - 1 PROVE Chunk(slot.key, i) = Chunk(c.key, i)
    BY DEF Leads
  <2>2. CASE i = c.level
    BY <1>2, <1>6, <2>2 DEF ChunkAt
  <2>3. CASE i # c.level
    <3>1. i \in 0..c.level - 1
      BY <1>4, <2>3
    <3>2. QED
      BY <1>6, <3>1 DEF SetPre, Leads
  <2>4. QED
    BY <2>2, <2>3
  (* Two keys part before the hash ends. *)
<1>8. c.level + 1 < Levels
  <2>1. SUFFICES ASSUME c.level + 1 = Levels PROVE FALSE
    BY <1>4, LevelsAre
  <2>2. \A i \in 0..Levels - 1 : Chunk(slot.key, i) = Chunk(c.key, i)
    <3>1. Leads({slot}, c.key, Levels)
      BY <1>7, <2>1
    <3>2. QED
      BY <3>1 DEF Leads
  <2>3. slot.key = c.key
    BY <1>3, <1>4, <2>2, KeysPart
  <2>4. QED
    BY <1>3, <2>3
<1>9. Leaf(d.key, d.value) = slot
  <2>1. Tagged(Untagged(slot.word)) = slot.word /\ slot \in SlotSet
    BY <1>1, <1>2, AtSlot
  <2>2. QED
    BY <1>3, <2>1 DEF Leaf, SlotSet
<1>10. PairsAt(d) = {}
  BY <1>3, CallHas, PairsIs DEF PairsAt
<1>11. SetPost(d, one)
  <2>1. Leads(PairsAt(d), d.key, d.level)
    BY <1>10 DEF Leads
  <2>2. SetPre(d)
    BY <1>3, <1>8, <2>1 DEF SetPre
  <2>3. QED
    BY <1>2, <1>3, <2>2
<1>12. /\ Outcome(one, c.heap) /\ Good(one.heap, one.node, c.level + 1)
       /\ PairsFrom(one.heap, one.node, c.level + 1) = {slot}
       /\ Counted(c.heap) => Counted(one.heap)
  BY <1>3, <1>9, <1>10, <1>11 DEF SetPost, With, Without
<1>13. /\ e \in Calls /\ e.heap = one.heap /\ e.node = one.node /\ e.key = c.key /\ e.value = c.value
       /\ e.level = c.level + 1
  BY <1>1, <1>2, <1>12, BothCallIs
<1>14. PairsAt(e) = {slot}
  BY <1>12, <1>13 DEF PairsAt
<1>15. SetPost(e, b)
  <2>1. SetPre(e)
    BY <1>7, <1>8, <1>12, <1>13, <1>14 DEF SetPre
  <2>2. QED
    BY <1>2, <1>13, <2>1
<1>16. one.heap \in Memory /\ Extends(one.heap, c.heap)
  BY <1>12, OutcomeHas
<1>17. /\ Outcome(b, one.heap)
       /\ Good(b.heap, b.node, c.level + 1)
       /\ PairsFrom(b.heap, b.node, c.level + 1) = With(A, leaf)
       /\ Counted(c.heap) => Counted(b.heap)
  BY <1>2, <1>6, <1>12, <1>13, <1>14, <1>15 DEF SetPost
<1>18. Outcome(b, c.heap)
  BY <1>4, <1>16, <1>17, OutcomeTrans
<1>19. b.heap \in Memory /\ b.node \in Pointers(b.heap) /\ Extends(b.heap, c.heap)
  BY <1>18, OutcomeHas
<1>20. PICK count, flag, s : count = NodeAt(c).count + 1 /\ flag = TRUE /\ s = Branch(b.node)
  OBVIOUS
<1>21. count \in Int /\ count = NodeAt(c).count + (IF flag THEN 1 ELSE 0) /\ flag \in BOOLEAN
  BY <1>4, <1>20
<1>22. r = SetBranch(c, b, count, flag)
  BY <1>1, <1>2, <1>20, SetImplIs, SetCases DEF BothOf
<1>23. PICK n : /\ Made(r, b.heap, n, flag)
                /\ n.bitmap = NodeAt(c).bitmap /\ n.count = count
                /\ Puts(n, NodeAt(c), k, s)
  <2>1. PICK n : /\ Made(SetBranch(c, b, count, flag), b.heap, n, flag)
                 /\ n.bitmap = NodeAt(c).bitmap /\ n.count = count
                 /\ Puts(n, NodeAt(c), ChunkAt(c), Branch(b.node))
    BY <1>1, <1>18, <1>21, SetBranchMade
  <2>2. s = Branch(b.node) /\ k = ChunkAt(c)
    BY <1>2, <1>20
  <2>3. QED
    BY <1>22, <2>1, <2>2
<1>24. s.word = b.node /\ ~IsValue(s.word)
  BY <1>19, <1>20, BranchIs
<1>25. Under(b.heap, s, c.level + 1) = With(A, leaf) /\ Good(b.heap, s.word, c.level + 1)
  BY <1>17, <1>24 DEF Under
<1>26. /\ n.bitmap = NodeAt(c).bitmap \cup {k}
       /\ flag <=> ~HasKey(A, c.key)
  <2>1. k \in NodeAt(c).bitmap
    BY <1>1, <1>2 DEF Occupied
  <2>2. QED
    BY <1>3, <1>6, <1>20, <1>23, <2>1 DEF HasKey
<1>27. SetPost(c, r)
  <2>1. PICK g : g = b.heap
    OBVIOUS
  <2>2. /\ g \in Memory /\ Extends(g, c.heap) /\ (Counted(c.heap) => Counted(g))
        /\ Made(r, g, n, flag) /\ (~IsValue(s.word) => Good(g, s.word, c.level + 1))
        /\ Under(g, s, c.level + 1) = With(A, leaf)
    BY <1>17, <1>19, <1>23, <1>25, <2>1
  <2>3. n.bitmap = NodeAt(c).bitmap \cup {ChunkAt(c)} /\ Puts(n, NodeAt(c), ChunkAt(c), s)
        /\ n.count = NodeAt(c).count + (IF flag THEN 1 ELSE 0)
    BY <1>2, <1>21, <1>23, <1>26
  <2>4. /\ Under(g, s, c.level + 1) = With(Along(PairsAt(c), c.level, ChunkAt(c)), Leaf(c.key, c.value))
        /\ flag <=> ~HasKey(Along(PairsAt(c), c.level, ChunkAt(c)), c.key)
    BY <1>2, <1>5, <1>26, <2>2
  <2>5. QED
    BY <1>1, <1>4, <1>21, <2>2, <2>3, <2>4, SetNode
<1>28. QED
  BY <1>2, <1>27

LEMMA SetWorks ==
  ASSUME NEW c, SetPre(c)
  PROVE  SetPost(c, SetImpl[c])
<1> DEFINE T == {n \in Nat : \A d : SetPre(d) /\ Levels - d.level = n => SetPost(d, SetImpl[d])}
<1>1. ASSUME NEW n \in Nat, n = 0 \/ n - 1 \in T PROVE n \in T
  <2>1. SUFFICES ASSUME NEW d, SetPre(d), Levels - d.level = n PROVE SetPost(d, SetImpl[d])
    OBVIOUS
  <2>2. d \in Calls /\ d.level < Levels /\ d.level \in 0..Levels /\ Levels \in Nat
    BY <2>1, CallHas, LevelsAre DEF SetPre
  <2>3. ASSUME NEW e, SetPre(e), e.level = d.level + 1 PROVE SetPost(e, SetImpl[e])
    <3>1. Levels - e.level = n - 1 /\ n # 0
      BY <2>1, <2>2, <2>3
    <3>2. QED
      BY <1>1, <2>3, <3>1
  <2>4. Kind(d) \in Kinds /\ Kind(d) # "end"
    BY <2>2, KindIs
  <2>5. Kind(d) = "null" => SetPost(d, SetImpl[d])
    BY <2>1, SetNull
  <2>6. Kind(d) = "free" => SetPost(d, SetImpl[d])
    BY <2>1, SetFree
  <2>7. Kind(d) = "found" => SetPost(d, SetImpl[d])
    BY <2>1, SetFound
  <2>8. Kind(d) = "other" => SetPost(d, SetImpl[d])
    BY <2>1, <2>3, SetOther
  <2>9. Kind(d) = "child" => SetPost(d, SetImpl[d])
    BY <2>1, <2>3, SetChild
  <2>10. QED
    BY <2>4, <2>5, <2>6, <2>7, <2>8, <2>9 DEF Kinds
<1>2. \A n \in Nat : n \in T
  <2> HIDE DEF T
  <2>1. QED
    BY <1>1, Induction
<1>3. Levels - c.level \in Nat
  BY CallHas, LevelsAre DEF SetPre
<1>4. QED
  BY <1>2, <1>3

-----------------------------------------------------------------------------
(* hamt_remove_impl: the pair of the key is taken out.                     *)

RemovePre(c) == c \in Calls /\ (c.node = NULL \/ Good(c.heap, c.node, c.level))

RemovePost(c, r) ==
  /\ Outcome(r, c.heap)
  /\ r.node = NULL \/ Good(r.heap, r.node, c.level)
  /\ PairsFrom(r.heap, r.node, c.level) = Without(PairsAt(c), c.key)
  /\ r.flag <=> HasKey(PairsAt(c), c.key)
  /\ ~r.flag => r.heap = c.heap /\ r.node = c.node
  /\ r.flag => r.node # c.node
  /\ Counted(c.heap) => Counted(r.heap)

LEMMA RemoveSame ==
  ASSUME NEW c, RemovePre(c), ~HasKey(PairsAt(c), c.key)
  PROVE  RemovePost(c, Result(c.heap, c.node, FALSE))
<1>1. c \in Calls /\ c.heap \in Memory /\ c.node \in Pointers(c.heap)
  BY CallHas DEF RemovePre
<1>2. PICK r : r = Result(c.heap, c.node, FALSE)
  OBVIOUS
<1>3. r.heap = c.heap /\ r.node = c.node /\ r.flag = FALSE
  BY <1>2 DEF Result
<1>4. Outcome(r, c.heap)
  BY <1>1, <1>2, UnchangedOutcome
<1>5. Without(PairsAt(c), c.key) = PairsAt(c)
  BY DEF Without, HasKey
<1>6. RemovePost(c, r)
  BY <1>3, <1>4, <1>5 DEF RemovePost, RemovePre, PairsAt
<1>7. QED
  BY <1>2, <1>6

(* The slot of the key has another child. *)
LEMMA RemoveNode ==
  ASSUME NEW c \in Calls, Good(c.heap, c.node, c.level), NEW g \in Memory, Extends(g, c.heap),
         Counted(c.heap) => Counted(g),
         NEW r, NEW n, NEW flag \in BOOLEAN, flag = TRUE, Made(r, g, n, flag), NEW s,
         n.bitmap = NodeAt(c).bitmap \cup {ChunkAt(c)}, Puts(n, NodeAt(c), ChunkAt(c), s),
         ~IsValue(s.word) => Good(g, s.word, c.level + 1),
         Under(g, s, c.level + 1) = Without(Along(PairsAt(c), c.level, ChunkAt(c)), c.key),
         HasKey(Along(PairsAt(c), c.level, ChunkAt(c)), c.key),
         n.count = NodeAt(c).count - 1
  PROVE  RemovePost(c, r)
<1>0. PICK k, level, P : k = ChunkAt(c) /\ level = c.level /\ P = PairsAt(c)
  OBVIOUS
<1>1. k = Chunk(c.key, level)
  BY <1>0 DEF ChunkAt
<1>2. /\ HasKey(P, c.key)
      /\ Without(P, c.key) = Beside(P, level, k) \cup Without(Along(P, level, k), c.key)
  BY <1>0, <1>1, AlongKey
<1>3. /\ c.heap \in Memory /\ c.node \in Pointers(c.heap) /\ level \in 0..Levels
      /\ P = PairsFrom(c.heap, c.node, level)
  BY <1>0, CallHas DEF PairsAt
<1>4. IsFiniteSet(P) /\ NodeAt(c).count = Cardinality(P) /\ Unique(P)
  BY <1>0, <1>3, GoodIs, GoodUnique DEF NodeAt
<1>5. PICK Q : Q = Without(P, c.key)
  OBVIOUS
<1>6. IsFiniteSet(Q) /\ Cardinality(Q) = Cardinality(P) - 1 /\ Cardinality(Q) \in Nat
  <2>1. IsFiniteSet(Q) /\ Cardinality(Q) = Cardinality(P) - 1
    BY <1>2, <1>4, <1>5, WithoutCount
  <2>2. QED
    BY <2>1, FS_CardinalityType
<1>8. n.count = Cardinality(Q)
  BY <1>4, <1>6
<1>9. Q = Beside(P, level, k) \cup Under(g, s, level + 1)
  BY <1>0, <1>2, <1>5
<1>10. \A t \in Under(g, s, c.level + 1) : Chunk(t.key, c.level) = ChunkAt(c)
  BY DEF Without, Along
<1>11. Good(r.heap, r.node, level) /\ PairsFrom(r.heap, r.node, level) = Q
  <2>1. Q = Beside(PairsAt(c), c.level, ChunkAt(c)) \cup Under(g, s, c.level + 1)
    BY <1>0, <1>9
  <2>2. QED
    BY <1>0, <1>6, <1>8, <1>10, <2>1, PutGood
<1>12. Outcome(r, c.heap) /\ r.flag = flag /\ r.node \notin Pointers(g)
  BY <1>3, MadeIs
<1>13. r.node # c.node
  BY <1>3, <1>12, ExtendsKeeps
<1>14. Counted(c.heap) => Counted(r.heap)
  BY <1>6, <1>8, MadeCounted
<1>15. QED
  BY <1>0, <1>2, <1>5, <1>11, <1>12, <1>13, <1>14 DEF RemovePost

(* The slot of the key is gone. *)
LEMMA RemoveGone ==
  ASSUME NEW c \in Calls, Good(c.heap, c.node, c.level), Occupied(c),
         NEW g \in Memory, Extends(g, c.heap), Counted(c.heap) => Counted(g),
         Without(Along(PairsAt(c), c.level, ChunkAt(c)), c.key) = {},
         HasKey(Along(PairsAt(c), c.level, ChunkAt(c)), c.key)
  PROVE  RemovePost(c, CloneWithout(g, c.node, ChunkAt(c)))
<1>0. PICK r, k, level, P : /\ r = CloneWithout(g, c.node, ChunkAt(c)) /\ k = ChunkAt(c)
                            /\ level = c.level /\ P = PairsAt(c)
  OBVIOUS
<1>1. k = Chunk(c.key, level)
  BY <1>0 DEF ChunkAt
<1>2. HasKey(P, c.key) /\ Without(P, c.key) = Beside(P, level, k)
  <2>1. HasKey(Along(P, level, k), c.key) /\ Without(Along(P, level, k), c.key) = {}
    BY <1>0
  <2>2. /\ HasKey(P, c.key) <=> HasKey(Along(P, level, k), c.key)
        /\ Without(P, c.key) = Beside(P, level, k) \cup Without(Along(P, level, k), c.key)
    BY <1>1, AlongKey
  <2>3. QED
    BY <2>1, <2>2
<1>3. /\ c.heap \in Memory /\ c.node \in Pointers(c.heap) /\ level \in 0..Levels
      /\ P = PairsFrom(c.heap, c.node, level) /\ c.node # NULL /\ NULL \in Pointers(g)
  BY <1>0, CallHas, MemoryLen, PointersAre DEF PairsAt, Occupied, NodeHere
<1>4. CASE r = Result(g, NULL, TRUE) /\ NodeAt(c).bitmap = {k}
  <2>1. P = Along(P, level, k)
    <3>1. P = UNION {Along(P, level, d) : d \in NodeAt(c).bitmap}
      BY <1>0, KeptSlots
    <3>2. QED
      BY <1>4, <3>1
  <2>2. Without(P, c.key) = {}
    BY <1>0, <2>1
  <2>3. PairsFrom(g, NULL, level) = {}
    BY <1>3, PairsIs
  <2>4. Outcome(r, c.heap)
    <3>1. Outcome(r, g)
      BY <1>3, <1>4, UnchangedOutcome
    <3>2. QED
      BY <1>3, <3>1, OutcomeTrans
  <2>5. r.heap = g /\ r.node = NULL /\ r.flag = TRUE
    BY <1>4 DEF Result
  <2>6. RemovePost(c, r)
    BY <1>0, <1>2, <1>3, <2>2, <2>3, <2>4, <2>5 DEF RemovePost
  <2>7. QED
    BY <1>0, <2>6
<1>5. CASE \E n : /\ Made(r, g, n, TRUE)
                  /\ n.bitmap = NodeAt(c).bitmap \ {k} /\ n.count = NodeAt(c).count - 1
                  /\ n.bitmap # {} /\ Keeps(n, NodeAt(c))
  <2>0. PICK n, flag : /\ Made(r, g, n, flag) /\ flag = TRUE
                       /\ n.bitmap = NodeAt(c).bitmap \ {k} /\ n.count = NodeAt(c).count - 1
                       /\ n.bitmap # {} /\ Keeps(n, NodeAt(c))
    BY <1>5
  <2>1. IsFiniteSet(P) /\ NodeAt(c).count = Cardinality(P) /\ Unique(P)
    BY <1>0, <1>3, GoodIs, GoodUnique DEF NodeAt
  <2>2. PICK Q : Q = Without(P, c.key)
    OBVIOUS
  <2>3. IsFiniteSet(Q) /\ Cardinality(Q) = Cardinality(P) - 1 /\ Cardinality(Q) \in Nat
    <3>1. IsFiniteSet(Q) /\ Cardinality(Q) = Cardinality(P) - 1
      BY <1>2, <2>1, <2>2, WithoutCount
    <3>2. QED
      BY <3>1, FS_CardinalityType
  <2>4. n.count = Cardinality(Q) /\ flag \in BOOLEAN
    BY <2>0, <2>1, <2>3
  <2>5. Q = Beside(PairsAt(c), c.level, ChunkAt(c)) /\ n.bitmap = NodeAt(c).bitmap \ {ChunkAt(c)}
    BY <1>0, <1>2, <2>0, <2>2
  <2>6. Good(r.heap, r.node, c.level) /\ PairsFrom(r.heap, r.node, c.level) = Q
    BY <2>0, <2>3, <2>4, <2>5, KeepGood
  <2>7. Outcome(r, c.heap) /\ r.flag = flag /\ r.node \notin Pointers(g)
    BY <1>3, <2>0, <2>4, MadeIs
  <2>8. r.node # c.node
    BY <1>3, <2>7, ExtendsKeeps
  <2>9. Counted(c.heap) => Counted(r.heap)
    BY <2>0, <2>3, <2>4, MadeCounted
  <2>10. RemovePost(c, r)
    BY <1>0, <1>2, <2>0, <2>2, <2>6, <2>7, <2>8, <2>9 DEF RemovePost
  <2>11. QED
    BY <1>0, <2>10
<1>6. QED
  BY <1>0, <1>4, <1>5, CloneWithoutMade

LEMMA RemoveChild ==
  ASSUME NEW c, RemovePre(c), Kind(c) = "child",
         \A d : RemovePre(d) /\ d.level = c.level + 1 => RemovePost(d, RemoveImpl[d])
  PROVE  RemovePost(c, RemoveImpl[c])
<1>1. NodeHere(c) /\ Occupied(c) /\ c \in Calls
  BY KindIs DEF RemovePre
<1>2. PICK d, b, r, k : d = NextCall(c) /\ b = RemoveImpl[d] /\ r = RemoveImpl[c] /\ k = ChunkAt(c)
  OBVIOUS
<1>3. /\ d \in Calls /\ d.heap = c.heap /\ d.node = SlotAt(c).word /\ d.key = c.key
      /\ d.level = c.level + 1 /\ SlotAt(c).word \in Pointers(c.heap)
  BY <1>1, <1>2, NextCallIs
<1>4. /\ Good(c.heap, c.node, c.level) /\ c.heap \in Memory /\ c.level \in 0..Levels - 1
      /\ c.level + 1 \in 0..Levels /\ NodeAt(c).count \in Int
  BY <1>1, CallHas, AtNode DEF RemovePre, NodeHere
<1>5. PICK A : A = Along(PairsAt(c), c.level, k)
  OBVIOUS
<1>6. A = PairsAt(d) /\ Good(d.heap, d.node, d.level)
  BY <1>1, <1>2, <1>3, <1>4, <1>5, AlongSlot
<1>7. RemovePost(d, b)
  <2>1. RemovePre(d)
    BY <1>3, <1>6 DEF RemovePre
  <2>2. QED
    BY <1>2, <1>3, <2>1
<1>8. /\ Outcome(b, c.heap)
      /\ b.node = NULL \/ Good(b.heap, b.node, c.level + 1)
      /\ PairsFrom(b.heap, b.node, c.level + 1) = Without(A, c.key)
      /\ b.flag <=> HasKey(A, c.key)
      /\ ~b.flag => b.node = SlotAt(c).word
      /\ b.flag => b.node # SlotAt(c).word
      /\ Counted(c.heap) => Counted(b.heap)
  BY <1>3, <1>6, <1>7 DEF RemovePost
<1>9. /\ b.heap \in Memory /\ b.node \in Pointers(b.heap) /\ b.flag \in BOOLEAN
      /\ Extends(b.heap, c.heap)
  BY <1>8, OutcomeHas
<1>10. HasKey(PairsAt(c), c.key) <=> HasKey(A, c.key)
  BY <1>2, <1>5, AlongKey DEF ChunkAt
<1>11. CASE b.node = SlotAt(c).word
  <2>1. r = Result(c.heap, c.node, FALSE)
    BY <1>1, <1>2, <1>11, RemoveImplIs, RemoveCases
  <2>2. ~HasKey(PairsAt(c), c.key)
    BY <1>8, <1>10, <1>11
  <2>3. QED
    BY <1>2, <2>1, <2>2, RemoveSame
<1>12. CASE b.node # SlotAt(c).word /\ b.node = NULL
  <2>1. r = CloneWithout(b.heap, c.node, k)
    BY <1>1, <1>2, <1>12, RemoveImplIs, RemoveCases
  <2>2. HasKey(A, c.key)
    BY <1>8, <1>12
  <2>3. Without(A, c.key) = {}
    BY <1>4, <1>8, <1>9, <1>12, PairsIs
  <2>4. RemovePost(c, CloneWithout(b.heap, c.node, ChunkAt(c)))
    BY <1>1, <1>2, <1>4, <1>5, <1>8, <1>9, <2>2, <2>3, RemoveGone
  <2>5. QED
    BY <1>2, <2>1, <2>4
<1>13. CASE b.node # SlotAt(c).word /\ b.node # NULL
  <2>1. PICK count, flag, s : count = CountDown(NodeAt(c), b) /\ flag = b.flag /\ s = Branch(b.node)
    OBVIOUS
  <2>2. flag = TRUE /\ HasKey(A, c.key) /\ flag \in BOOLEAN
    BY <1>8, <1>9, <1>13, <2>1
  <2>3. count \in Int /\ count = NodeAt(c).count - 1
    BY <1>4, <2>1, <2>2 DEF CountDown
  <2>4. r = SetBranch(c, b, count, flag)
    <3>1. RemoveStep(RemoveImpl, c) = SetBranch(c, b, count, flag)
      BY <1>1, <1>2, <1>13, <2>1, RemoveCases
    <3>2. QED
      BY <1>1, <1>2, <3>1, RemoveImplIs
  <2>5. PICK n : /\ Made(r, b.heap, n, flag)
                 /\ n.bitmap = NodeAt(c).bitmap /\ n.count = count
                 /\ Puts(n, NodeAt(c), k, s)
    <3>1. PICK n : /\ Made(SetBranch(c, b, count, flag), b.heap, n, flag)
                   /\ n.bitmap = NodeAt(c).bitmap /\ n.count = count
                   /\ Puts(n, NodeAt(c), ChunkAt(c), Branch(b.node))
      BY <1>1, <1>8, <2>2, <2>3, SetBranchMade
    <3>2. QED
      BY <1>2, <2>1, <2>4, <3>1
  <2>6. s.word = b.node /\ ~IsValue(s.word)
    BY <1>9, <2>1, BranchIs
  <2>7. Under(b.heap, s, c.level + 1) = Without(A, c.key) /\ Good(b.heap, s.word, c.level + 1)
    BY <1>8, <1>13, <2>6 DEF Under
  <2>8. n.bitmap = NodeAt(c).bitmap \cup {ChunkAt(c)} /\ Puts(n, NodeAt(c), ChunkAt(c), s)
        /\ n.count = NodeAt(c).count - 1
    BY <1>1, <1>2, <2>3, <2>5 DEF Occupied
  <2>9. /\ Under(b.heap, s, c.level + 1) = Without(Along(PairsAt(c), c.level, ChunkAt(c)), c.key)
        /\ HasKey(Along(PairsAt(c), c.level, ChunkAt(c)), c.key)
    BY <1>2, <1>5, <2>2, <2>7
  <2>10. RemovePost(c, r)
    <3>1. PICK g : g = b.heap
      OBVIOUS
    <3>2. /\ g \in Memory /\ Extends(g, c.heap) /\ (Counted(c.heap) => Counted(g))
          /\ Made(r, g, n, flag) /\ (~IsValue(s.word) => Good(g, s.word, c.level + 1))
          /\ Under(g, s, c.level + 1) = Without(Along(PairsAt(c), c.level, ChunkAt(c)), c.key)
      BY <1>8, <1>9, <2>5, <2>7, <2>9, <3>1
    <3>3. QED
      BY <1>1, <1>4, <2>2, <2>8, <2>9, <3>2, RemoveNode
  <2>11. QED
    BY <1>2, <2>10
<1>14. QED
  BY <1>11, <1>12, <1>13

LEMMA RemoveWorks ==
  ASSUME NEW c, RemovePre(c)
  PROVE  RemovePost(c, RemoveImpl[c])
<1> DEFINE T == {n \in Nat : \A d : RemovePre(d) /\ Levels - d.level = n => RemovePost(d, RemoveImpl[d])}
<1>1. ASSUME NEW n \in Nat, n = 0 \/ n - 1 \in T PROVE n \in T
  <2>1. SUFFICES ASSUME NEW d, RemovePre(d), Levels - d.level = n PROVE RemovePost(d, RemoveImpl[d])
    OBVIOUS
  <2>2. d \in Calls /\ d.level \in 0..Levels /\ Levels \in Nat /\ d.heap \in Memory
        /\ d.node \in Pointers(d.heap)
    BY <2>1, CallHas, LevelsAre DEF RemovePre
  <2>3. Kind(d) \in Kinds
    BY <2>2, KindIs
  <2>4. CASE Kind(d) \in {"end", "null", "free", "other"}
    <3>1. RemoveImpl[d] = Result(d.heap, d.node, FALSE)
      BY <2>2, <2>4, RemoveImplIs, RemoveCases
    <3>2. ~HasKey(PairsAt(d), d.key)
      <4>1. CASE Kind(d) \in {"end", "null"}
        <5>1. d.level = Levels \/ d.node = NULL
          BY <2>2, <4>1, KindIs
        <5>2. PairsAt(d) = {}
          BY <2>2, <5>1, PairsIs DEF PairsAt
        <5>3. QED
          BY <5>2 DEF HasKey
      <4>2. CASE Kind(d) \in {"free", "other"}
        <5>1. Good(d.heap, d.node, d.level)
          BY <2>1, <2>2, <4>2, KindIs DEF NodeHere, RemovePre
        <5>2. ~HasKey(Along(PairsAt(d), d.level, ChunkAt(d)), d.key)
          <6>1. CASE Kind(d) = "free"
            BY <2>2, <5>1, <6>1, AlongSlot DEF HasKey
          <6>2. CASE Kind(d) = "other"
            <7>1. SlotAt(d).key # d.key
              BY <2>2, <6>2, OtherCallIs
            <7>2. Along(PairsAt(d), d.level, ChunkAt(d)) = {SlotAt(d)}
              BY <2>2, <5>1, <6>2, AlongSlot
            <7>3. QED
              BY <7>1, <7>2 DEF HasKey
          <6>3. QED
            BY <4>2, <6>1, <6>2
        <5>3. QED
          BY <5>2, AlongKey DEF ChunkAt
      <4>3. QED
        BY <2>4, <4>1, <4>2
    <3>3. QED
      BY <2>1, <3>1, <3>2, RemoveSame
  <2>5. CASE Kind(d) = "found"
    <3>1. RemoveImpl[d] = CloneWithout(d.heap, d.node, ChunkAt(d))
      BY <2>2, <2>5, RemoveImplIs, RemoveCases
    <3>2. Occupied(d) /\ SlotAt(d).key = d.key /\ Good(d.heap, d.node, d.level) /\ Extends(d.heap, d.heap)
      BY <2>1, <2>2, <2>5, KindIs, ExtendsSelf DEF Found, Occupied, NodeHere, RemovePre
    <3>3. Along(PairsAt(d), d.level, ChunkAt(d)) = {SlotAt(d)}
      BY <2>2, <2>5, <3>2, AlongSlot
    <3>4. /\ Without(Along(PairsAt(d), d.level, ChunkAt(d)), d.key) = {}
          /\ HasKey(Along(PairsAt(d), d.level, ChunkAt(d)), d.key)
      BY <3>2, <3>3 DEF Without, HasKey
    <3>5. RemovePost(d, CloneWithout(d.heap, d.node, ChunkAt(d)))
      BY <2>2, <3>2, <3>4, RemoveGone
    <3>6. QED
      BY <3>1, <3>5
  <2>6. CASE Kind(d) = "child"
    <3>1. d.level < Levels
      BY <2>2, <2>6, KindIs DEF BranchAt, Occupied, NodeHere
    <3>2. ASSUME NEW e, RemovePre(e), e.level = d.level + 1 PROVE RemovePost(e, RemoveImpl[e])
      <4>1. Levels - e.level = n - 1 /\ n # 0
        BY <2>1, <2>2, <3>1, <3>2
      <4>2. QED
        BY <1>1, <3>2, <4>1
    <3>3. QED
      BY <2>1, <2>6, <3>2, RemoveChild
  <2>7. QED
    BY <2>3, <2>4, <2>5, <2>6 DEF Kinds
<1>2. \A n \in Nat : n \in T
  <2> HIDE DEF T
  <2>1. QED
    BY <1>1, Induction
<1>3. Levels - c.level \in Nat
  BY CallHas, LevelsAre DEF RemovePre
<1>4. QED
  BY <1>2, <1>3

-----------------------------------------------------------------------------
(* hamt_get follows the chunks of the key.                                 *)

GetPre(c) == c \in Calls /\ (c.node = NULL \/ Good(c.heap, c.node, c.level))

GetPost(c) ==
  /\ \A t \in PairsAt(c) : t.key = c.key => GetFrom[c] = Untagged(t.word)
  /\ ~HasKey(PairsAt(c), c.key) => GetFrom[c] = 0

(* What matters is along the chunk of the key. *)
LEMMA GetAlong ==
  ASSUME NEW c \in Calls,
         \A t \in Along(PairsAt(c), c.level, ChunkAt(c)) : t.key = c.key => GetFrom[c] = Untagged(t.word),
         ~HasKey(Along(PairsAt(c), c.level, ChunkAt(c)), c.key) => GetFrom[c] = 0
  PROVE  GetPost(c)
<1>1. \A t \in PairsAt(c) : t.key = c.key => t \in Along(PairsAt(c), c.level, ChunkAt(c))
  BY DEF Along, ChunkAt, Chunk
<1>2. HasKey(Along(PairsAt(c), c.level, ChunkAt(c)), c.key) => HasKey(PairsAt(c), c.key)
  BY DEF HasKey, Along
<1>3. HasKey(PairsAt(c), c.key) => HasKey(Along(PairsAt(c), c.level, ChunkAt(c)), c.key)
  BY <1>1 DEF HasKey
<1>4. QED
  BY <1>1, <1>2, <1>3 DEF GetPost

LEMMA GetWorks ==
  ASSUME NEW c, GetPre(c)
  PROVE  GetPost(c)
<1> DEFINE T == {n \in Nat : \A d : GetPre(d) /\ Levels - d.level = n => GetPost(d)}
<1>1. ASSUME NEW n \in Nat, n = 0 \/ n - 1 \in T PROVE n \in T
  <2>1. SUFFICES ASSUME NEW d, GetPre(d), Levels - d.level = n PROVE GetPost(d)
    OBVIOUS
  <2>2. d \in Calls /\ d.level \in 0..Levels /\ Levels \in Nat /\ d.heap \in Memory
        /\ d.node \in Pointers(d.heap) /\ Kind(d) \in Kinds
    BY <2>1, CallHas, LevelsAre, KindIs DEF GetPre
  <2>3. PICK A : A = Along(PairsAt(d), d.level, ChunkAt(d))
    OBVIOUS
  <2>4. CASE Kind(d) \in {"end", "null"}
    <3>1. GetFrom[d] = 0
      BY <2>2, <2>4, GetFromIs, GetCases
    <3>2. PairsAt(d) = {}
      <4>1. d.level = Levels \/ d.node = NULL
        BY <2>2, <2>4, KindIs
      <4>2. QED
        BY <2>2, <4>1, PairsIs DEF PairsAt
    <3>3. QED
      BY <3>1, <3>2 DEF GetPost
  <2>5. CASE Kind(d) \in {"free", "found", "other", "child"}
    <3>0. Good(d.heap, d.node, d.level)
      BY <2>1, <2>2, <2>5, KindIs DEF NodeHere, GetPre
    <3>1. CASE Kind(d) = "free"
      <4>1. A = {}
        BY <2>2, <2>3, <3>0, <3>1, AlongSlot
      <4>2. GetFrom[d] = 0
        BY <2>2, <3>1, GetFromIs, GetCases
      <4>3. QED
        BY <2>2, <2>3, <4>1, <4>2, GetAlong
    <3>2. CASE Kind(d) \in {"found", "other"}
      <4>1. A = {SlotAt(d)}
        BY <2>2, <2>3, <3>0, <3>2, AlongSlot
      <4>2. CASE Kind(d) = "found"
        <5>1. SlotAt(d).key = d.key /\ GetFrom[d] = Untagged(SlotAt(d).word)
          BY <2>2, <4>2, KindIs, GetFromIs, GetCases DEF Found
        <5>2. HasKey(A, d.key) /\ \A t \in A : t.key = d.key => GetFrom[d] = Untagged(t.word)
          BY <4>1, <5>1 DEF HasKey
        <5>3. QED
          BY <2>2, <2>3, <5>2, GetAlong
      <4>3. CASE Kind(d) = "other"
        <5>1. SlotAt(d).key # d.key /\ GetFrom[d] = 0
          BY <2>2, <4>3, OtherCallIs, GetFromIs, GetCases
        <5>2. \A t \in A : t.key = d.key => GetFrom[d] = Untagged(t.word)
          BY <4>1, <5>1
        <5>3. QED
          BY <2>2, <2>3, <5>1, <5>2, GetAlong
      <4>4. QED
        BY <3>2, <4>2, <4>3
    <3>3. CASE Kind(d) = "child"
      <4>1. PICK e : e = NextCall(d)
        OBVIOUS
      <4>2. e \in Calls /\ e.level = d.level + 1 /\ e.key = d.key /\ e.heap = d.heap /\ e.node = SlotAt(d).word
        BY <2>2, <3>3, <4>1, NextCallIs
      <4>3. A = PairsAt(e) /\ Good(d.heap, SlotAt(d).word, d.level + 1)
        BY <2>2, <2>3, <3>0, <3>3, <4>1, AlongSlot
      <4>4. GetPre(e)
        BY <4>2, <4>3 DEF GetPre
      <4>5. e.level \in 0..Levels
        BY <4>2, CallHas
      <4>6. n # 0 /\ Levels - e.level = n - 1
        BY <2>1, <2>2, <4>2, <4>5
      <4>7. GetPost(e)
        BY <1>1, <4>4, <4>6
      <4>8. GetFrom[d] = GetFrom[e]
        BY <2>2, <3>3, <4>1, GetFromIs, GetCases
      <4>9. /\ \A t \in A : t.key = d.key => GetFrom[d] = Untagged(t.word)
            /\ ~HasKey(A, d.key) => GetFrom[d] = 0
        BY <4>2, <4>3, <4>7, <4>8 DEF GetPost
      <4>10. QED
        BY <2>2, <2>3, <4>9, GetAlong
    <3>4. QED
      BY <2>5, <3>1, <3>2, <3>3
  <2>6. QED
    BY <2>2, <2>4, <2>5 DEF Kinds
<1>2. \A n \in Nat : n \in T
  <2> HIDE DEF T
  <2>1. QED
    BY <1>1, Induction
<1>3. Levels - c.level \in Nat
  BY CallHas, LevelsAre DEF GetPre
<1>4. QED
  BY <1>2, <1>3

-----------------------------------------------------------------------------
(* At the root.                                                            *)

(* A root in memory: what hamt_set and hamt_remove start from and return.  *)
Rooted(h, p) == p \in Pointers(h) /\ (p = NULL \/ Good(h, p, 0))
Sound == {r \in Results : Counted(r.heap) /\ Rooted(r.heap, r.node)}

LEMMA RootCall ==
  ASSUME NEW h \in Memory, NEW p, Rooted(h, p), NEW k \in Keys, NEW x \in Int, NEW c,
         c = Call(h, p, k, x, 0)
  PROVE  /\ c \in Calls /\ c.heap = h /\ c.node = p /\ c.key = k /\ c.value = x /\ c.level = 0
         /\ SetPre(c) /\ RemovePre(c) /\ GetPre(c)
<1>1. 0 \in 0..Levels /\ 0 < Levels /\ p \in Pointers(h)
  BY LevelsAre DEF Rooted
<1>2. c \in Calls /\ c.heap = h /\ c.node = p /\ c.key = k /\ c.value = x /\ c.level = 0
  BY <1>1, CallIs
<1>3. c.node = NULL \/ Good(c.heap, c.node, c.level)
  BY <1>2 DEF Rooted
<1>4. Leads(PairsAt(c), c.key, c.level)
  BY <1>2 DEF Leads
<1>5. QED
  BY <1>1, <1>2, <1>3, <1>4 DEF SetPre, RemovePre, GetPre

LEMMA SetRoot ==
  ASSUME NEW h \in Memory, Counted(h), NEW p, Rooted(h, p), NEW k \in Keys, NEW x \in Int, NEW r,
         r = SetImpl[Call(h, p, k, x, 0)]
  PROVE  /\ r \in Sound /\ Extends(r.heap, h)
         /\ PairsFrom(r.heap, r.node, 0) = With(PairsFrom(h, p, 0), Leaf(k, x))
<1>1. PICK c : c = Call(h, p, k, x, 0)
  OBVIOUS
<1>2. /\ c \in Calls /\ c.heap = h /\ c.node = p /\ c.key = k /\ c.value = x /\ c.level = 0
      /\ SetPre(c)
  BY <1>1, RootCall
<1>3. SetPost(c, r)
  BY <1>1, <1>2, SetWorks
<1>4. Outcome(r, h) /\ Good(r.heap, r.node, 0) /\ Counted(r.heap)
  BY <1>2, <1>3 DEF SetPost
<1>5. r \in Sound /\ Extends(r.heap, h)
  BY <1>4, OutcomeHas DEF Sound, Rooted, Outcome
<1>6. QED
  BY <1>2, <1>3, <1>5 DEF SetPost, PairsAt

LEMMA RemoveRoot ==
  ASSUME NEW h \in Memory, Counted(h), NEW p, Rooted(h, p), NEW k \in Keys, NEW r,
         r = RemoveImpl[Call(h, p, k, 0, 0)]
  PROVE  /\ r \in Sound /\ Extends(r.heap, h)
         /\ PairsFrom(r.heap, r.node, 0) = Without(PairsFrom(h, p, 0), k)
<1>1. PICK c : c = Call(h, p, k, 0, 0)
  OBVIOUS
<1>2. /\ c \in Calls /\ c.heap = h /\ c.node = p /\ c.key = k /\ c.level = 0
      /\ RemovePre(c)
  BY <1>1, RootCall
<1>3. RemovePost(c, r)
  BY <1>1, <1>2, RemoveWorks
<1>4. Outcome(r, h) /\ (r.node = NULL \/ Good(r.heap, r.node, 0)) /\ Counted(r.heap)
  BY <1>2, <1>3 DEF RemovePost
<1>5. r \in Sound /\ Extends(r.heap, h)
  BY <1>4, OutcomeHas DEF Sound, Rooted, Outcome
<1>6. QED
  BY <1>2, <1>3, <1>5 DEF RemovePost, PairsAt

LEMMA GetRoot ==
  ASSUME NEW h \in Memory, NEW p, Rooted(h, p), NEW k \in Keys
  PROVE  LET got == GetFrom[Call(h, p, k, 0, 0)]
         IN  /\ \A t \in PairsFrom(h, p, 0) : t.key = k => got = Untagged(t.word)
             /\ ~HasKey(PairsFrom(h, p, 0), k) => got = 0
<1>1. PICK c : c = Call(h, p, k, 0, 0)
  OBVIOUS
<1>2. /\ c \in Calls /\ c.heap = h /\ c.node = p /\ c.key = k /\ c.level = 0
      /\ GetPre(c)
  BY <1>1, RootCall
<1>3. GetPost(c)
  BY <1>2, GetWorks
<1>4. QED
  BY <1>1, <1>2, <1>3 DEF GetPost, PairsAt

-----------------------------------------------------------------------------
(* A map that is there from the start.                                     *)

Builds(built, history, value) ==
  built = [n \in 0..Len(history) |->
             IF n = 0 THEN Result(<<>>, NULL, TRUE)
             ELSE SetImpl[Call(built[n - 1].heap, built[n - 1].node, history[n], value, 0)]]

LEMMA NothingBuilt == Result(<<>>, NULL, TRUE) \in Sound
<1>1. PICK r : r = Result(<<>>, NULL, TRUE)
  OBVIOUS
<1>2. r.heap = <<>> /\ r.node = NULL
  BY <1>1 DEF Result
<1>3. <<>> \in Memory /\ NULL \in Pointers(<<>>)
  BY EmptyMemory DEF Pointers, NULL
<1>4. Outcome(r, <<>>)
  BY <1>1, <1>3, UnchangedOutcome
<1>5. Counted(<<>>)
  BY EmptyMemory DEF Counted
<1>6. QED
  BY <1>1, <1>2, <1>3, <1>4, <1>5 DEF Sound, Rooted, Outcome

LEMMA BuiltExists ==
  ASSUME NEW history \in Seq(Keys), NEW value \in Int
  PROVE  \E built : Builds(built, history, value)
<1> DEFINE Put(r, n) == SetImpl[Call(r.heap, r.node, history[n], value, 0)]
           G == [x \in Nat \X Sound |-> IF x[1] \in 1..Len(history) THEN Put(x[2], x[1]) ELSE x[2]]
           a == Result(<<>>, NULL, TRUE)
<1>1. ASSUME NEW r \in Sound, NEW n \in 1..Len(history) PROVE Put(r, n) \in Sound
  <2>1. r.heap \in Memory /\ Counted(r.heap) /\ Rooted(r.heap, r.node) /\ history[n] \in Keys
    BY DEF Sound, Results
  <2>2. QED
    BY <2>1, SetRoot
<1>2. \A n \in Nat : \A r \in Sound :
        /\ G[<<n, r>>] = IF n \in 1..Len(history) THEN Put(r, n) ELSE r
        /\ G[<<n, r>>] \in Sound
  <2>1. \A n \in Nat : \A r \in Sound : G[<<n, r>>] = IF n \in 1..Len(history) THEN Put(r, n) ELSE r
    OBVIOUS
  <2> HIDE DEF G, Put
  <2>2. QED
    BY <1>1, <2>1
<1> HIDE DEF G, a
<1>3. Closed(Sound, a, G)
  BY <1>2, NothingBuilt DEF Closed, a
<1>4. PICK f : Follows(f, Sound, a, G)
  BY <1>3, Recursion
<1>5. PICK b : b = [n \in 0..Len(history) |-> f[n]]
  OBVIOUS
<1>6. Len(history) \in Nat
  OBVIOUS
<1>7. \A n \in 0..Len(history) : f[n] = IF n = 0 THEN a ELSE Put(f[n - 1], n)
  <2>1. ASSUME NEW n \in 0..Len(history), n # 0 PROVE f[n] = Put(f[n - 1], n)
    <3>1. n \in Nat /\ n - 1 \in Nat /\ n \in 1..Len(history)
      BY <1>6, <2>1
    <3>2. f[n - 1] \in Sound /\ f[n] = G[<<n, f[n - 1]>>]
      BY <1>4, <2>1, <3>1 DEF Follows
    <3> HIDE DEF Put
    <3>3. QED
      BY <1>2, <3>1, <3>2
  <2>2. f[0] = a
    BY <1>4 DEF Follows
  <2>3. QED
    BY <2>1, <2>2
<1>8. \A n \in 0..Len(history) : b[n] = IF n = 0 THEN a ELSE Put(b[n - 1], n)
  <2>1. \A n \in 0..Len(history) : b[n] = f[n] /\ (n # 0 => b[n - 1] = f[n - 1])
    BY <1>5, <1>6
  <2> HIDE DEF Put
  <2>2. QED
    BY <1>7, <2>1 DEF Put
<1>9. b = [n \in 0..Len(history) |-> b[n]]
  BY <1>5
<1>10. Builds(b, history, value)
  BY <1>8, <1>9 DEF Builds, a
<1>11. QED
  BY <1>10

LEMMA BuiltSound ==
  ASSUME NEW history \in Seq(Keys), NEW value \in Int
  PROVE  Built(history, value) \in Sound
<1>1. PICK b : b = CHOOSE built : Builds(built, history, value)
  OBVIOUS
<1>2. Builds(b, history, value)
  BY <1>1, BuiltExists
<1>3. Built(history, value) = b[Len(history)]
  BY <1>1 DEF Built, Builds
<1>4. \A n \in 0..Len(history) :
        b[n] = IF n = 0 THEN Result(<<>>, NULL, TRUE)
               ELSE SetImpl[Call(b[n - 1].heap, b[n - 1].node, history[n], value, 0)]
  BY <1>2 DEF Builds
<1>5. Len(history) \in Nat
  OBVIOUS
<1> DEFINE T == {n \in Nat : n <= Len(history) => b[n] \in Sound}
<1>6. ASSUME NEW n \in Nat, n = 0 \/ n - 1 \in T PROVE n \in T
  <2>1. SUFFICES ASSUME n <= Len(history) PROVE b[n] \in Sound
    OBVIOUS
  <2>2. CASE n = 0
    <3>1. 0 \in 0..Len(history)
      BY <1>5
    <3>2. b[0] = Result(<<>>, NULL, TRUE)
      BY <1>4, <3>1
    <3>3. QED
      BY <2>2, <3>2, NothingBuilt
  <2>3. CASE n # 0
    <3>1. n - 1 \in Nat /\ n - 1 <= Len(history) /\ n \in 1..Len(history) /\ n \in 0..Len(history)
      BY <1>5, <2>1, <2>3
    <3>2. b[n - 1] \in Sound
      BY <1>6, <2>3, <3>1
    <3>3. /\ b[n - 1].heap \in Memory /\ Counted(b[n - 1].heap) /\ Rooted(b[n - 1].heap, b[n - 1].node)
          /\ history[n] \in Keys
      BY <3>1, <3>2 DEF Sound, Results
    <3>4. b[n] = SetImpl[Call(b[n - 1].heap, b[n - 1].node, history[n], value, 0)]
      BY <1>4, <2>3, <3>1
    <3>5. QED
      BY <3>3, <3>4, SetRoot
  <2>4. QED
    BY <2>2, <2>3
<1>7. \A n \in Nat : n \in T
  <2> HIDE DEF T
  <2>1. QED
    BY <1>6, Induction
<1>8. QED
  BY <1>3, <1>5, <1>7

-----------------------------------------------------------------------------
(* What pairs say of keys.                                                 *)

LEMMA MappingIs ==
  ASSUME NEW P, Unique(P)
  PROVE  /\ DOMAIN Mapping(P) = {s.key : s \in P}
         /\ \A s \in P : Mapping(P)[s.key] = Untagged(s.word)
         /\ Mapping(P) = [k \in {s.key : s \in P} |-> Mapping(P)[k]]
<1>1. /\ DOMAIN Mapping(P) = {s.key : s \in P}
      /\ Mapping(P) = [k \in {s.key : s \in P} |-> Mapping(P)[k]]
  BY DEF Mapping
<1>2. ASSUME NEW s \in P PROVE Mapping(P)[s.key] = Untagged(s.word)
  <2>1. Mapping(P)[s.key] = Untagged((CHOOSE t \in P : t.key = s.key).word)
    BY DEF Mapping
  <2>2. (CHOOSE t \in P : t.key = s.key) \in P /\ (CHOOSE t \in P : t.key = s.key).key = s.key
    OBVIOUS
  <2>3. (CHOOSE t \in P : t.key = s.key) = s
    BY <2>2 DEF Unique
  <2>4. QED
    BY <2>1, <2>3
<1>3. QED
  BY <1>1, <1>2

LEMMA KeysCounted ==
  ASSUME NEW P, Unique(P), IsFiniteSet(P)
  PROVE  Cardinality(DOMAIN Mapping(P)) = Cardinality(P)
<1> DEFINE K == {s.key : s \in P}
           f == [s \in P |-> s.key]
<1>1. f \in [P -> K] /\ \A s \in P : f[s] = s.key
  OBVIOUS
<1>2. \A k \in K : \E s \in P : s.key = k
  OBVIOUS
<1> HIDE DEF f, K
<1>3. f \in Surjection(P, K)
  BY <1>1, <1>2 DEF Surjection
<1>4. f \in Injection(P, K)
  <2>1. \A s, t \in P : f[s] = f[t] => s = t
    BY <1>1 DEF Unique
  <2>2. QED
    BY <1>1, <2>1 DEF Injection, IsInjective
<1>5. Cardinality(K) = Cardinality(P)
  BY <1>3, <1>4, FS_Surjection
<1>6. QED
  BY <1>5, MappingIs DEF K

(* f is m with another value of k; without k. *)
PutIn(f, m, k, value) == f = [j \in DOMAIN m \cup {k} |-> IF j = k THEN value ELSE m[j]]
TakenOut(f, m, k)     == f = [j \in DOMAIN m \ {k} |-> m[j]]

LEMMA MappingWith ==
  ASSUME NEW P, Unique(P), NEW s
  PROVE  PutIn(Mapping(With(P, s)), Mapping(P), s.key, Untagged(s.word))
<1>1. PICK Q : Q = With(P, s)
  OBVIOUS
<1>2. s \in Q /\ \A t \in Q : t = s \/ (t \in P /\ t.key # s.key)
  BY <1>1 DEF With, Without
<1>3. \A t \in P : t.key # s.key => t \in Q
  BY <1>1 DEF With, Without
<1>4. Unique(Q)
  BY <1>2 DEF Unique
<1>5. {t.key : t \in Q} = {t.key : t \in P} \cup {s.key}
  BY <1>2, <1>3
<1>6. ASSUME NEW j \in {t.key : t \in P} \cup {s.key}
      PROVE  Mapping(Q)[j] = IF j = s.key THEN Untagged(s.word) ELSE Mapping(P)[j]
  <2>1. CASE j = s.key
    BY <1>2, <1>4, <2>1, MappingIs
  <2>2. CASE j # s.key
    <3>1. PICK t \in P : t.key = j
      BY <2>2
    <3>2. t \in Q
      BY <1>3, <2>2, <3>1
    <3>3. Mapping(Q)[t.key] = Untagged(t.word)
      BY <1>4, <3>2, MappingIs
    <3>4. Mapping(P)[t.key] = Untagged(t.word)
      BY MappingIs
    <3>5. QED
      BY <2>2, <3>1, <3>3, <3>4
  <2>3. QED
    BY <2>1, <2>2
<1>7. Mapping(Q) = [k \in {t.key : t \in P} \cup {s.key} |-> Mapping(Q)[k]]
  <2>1. Mapping(Q) = [k \in {t.key : t \in Q} |-> Mapping(Q)[k]]
    BY <1>4, MappingIs
  <2>2. QED
    BY <1>5, <2>1
<1>8. DOMAIN Mapping(P) = {t.key : t \in P}
  BY MappingIs
<1>9. QED
  BY <1>1, <1>6, <1>7, <1>8 DEF PutIn

LEMMA MappingWithout ==
  ASSUME NEW P, Unique(P), NEW k
  PROVE  TakenOut(Mapping(Without(P, k)), Mapping(P), k)
<1>1. PICK Q : Q = Without(P, k)
  OBVIOUS
<1>2. \A t : t \in Q <=> t \in P /\ t.key # k
  BY <1>1 DEF Without
<1>3. Unique(Q)
  BY <1>2 DEF Unique
<1>4. {t.key : t \in Q} = {t.key : t \in P} \ {k}
  BY <1>2
<1>5. ASSUME NEW j \in {t.key : t \in P} \ {k}
      PROVE  Mapping(Q)[j] = Mapping(P)[j]
  <2>1. PICK t \in P : t.key = j
    OBVIOUS
  <2>2. t \in Q
    BY <1>2, <2>1
  <2>3. Mapping(Q)[t.key] = Untagged(t.word)
    BY <1>3, <2>2, MappingIs
  <2>4. Mapping(P)[t.key] = Untagged(t.word)
    BY MappingIs
  <2>5. QED
    BY <2>1, <2>3, <2>4
<1>6. Mapping(Q) = [j \in {t.key : t \in P} \ {k} |-> Mapping(Q)[j]]
  <2>1. Mapping(Q) = [j \in {t.key : t \in Q} |-> Mapping(Q)[j]]
    BY <1>3, MappingIs
  <2>2. QED
    BY <1>4, <2>1
<1>7. DOMAIN Mapping(P) = {t.key : t \in P}
  BY MappingIs
<1>8. QED
  BY <1>1, <1>5, <1>6, <1>7 DEF TakenOut

LEMMA KeptIs ==
  ASSUME NEW k, NEW x \in Int
  PROVE  Leaf(k, x).key = k /\ Untagged(Leaf(k, x).word) = Maps!Kept(x)
<1>1. Leaf(k, x).key = k /\ Untagged(Leaf(k, x).word) = Untagged(x)
  BY TagBit DEF Leaf
<1>2. Untagged(x) = x - (x % 2)
  BY Halves DEF Untagged
<1>3. QED
  BY <1>1, <1>2 DEF Maps!Kept

-----------------------------------------------------------------------------
(* The versions.  Every version that is not freed is a trie.               *)

TriesIn(h, vs) ==
  /\ h \in Memory /\ Counted(h)
  /\ vs \in Seq([root : Nat, freed : BOOLEAN])
  /\ \A v \in 1..Len(vs) :
       vs[v].root \in Pointers(h) /\ (~vs[v].freed => Rooted(h, vs[v].root))

TrieInv == TriesIn(nodes, versions)

(* What MapStore sees of memory and versions. *)
MapAt(h, vs, v) == Mapping(PairsFrom(h, IF ~vs[v].freed THEN vs[v].root ELSE NULL, 0))
MapsOf(h, vs)   == [v \in 1..Len(vs) |-> MapAt(h, vs, v)]
LiveOf(vs)      == {v \in 1..Len(vs) : ~vs[v].freed}

LEMMA RootedPairs ==
  ASSUME NEW h \in Memory, NEW p, Rooted(h, p)
  PROVE  Unique(PairsFrom(h, p, 0)) /\ IsFiniteSet(PairsFrom(h, p, 0))
<1>1. p \in Pointers(h) /\ 0 \in 0..Levels /\ NULL \in Pointers(h)
  BY LevelsAre, MemoryLen, PointersAre DEF Rooted
<1>2. CASE p = NULL
  <2>1. PairsFrom(h, p, 0) = {}
    BY <1>1, <1>2, PairsIs
  <2>2. IsFiniteSet({})
    BY FS_EmptySet
  <2>3. QED
    BY <2>1, <2>2 DEF Unique
<1>3. CASE Good(h, p, 0)
  BY <1>1, <1>3, GoodIs, GoodUnique
<1>4. QED
  BY <1>2, <1>3 DEF Rooted

(* There is one more version; version v has been freed. *)
AddedTo(ws, vs, p) == ws = Append(vs, Version(p))
FreedIn(ws, vs, v) == ws = [vs EXCEPT ![v].freed = TRUE]

(* Memory grows, and there is one more version. *)
LEMMA Grow ==
  ASSUME NEW h, NEW vs, TriesIn(h, vs), NEW g \in Memory, Counted(g), Extends(g, h),
         NEW p, Rooted(g, p), NEW ws, AddedTo(ws, vs, p)
  PROVE  /\ TriesIn(g, ws)
         /\ MapsOf(g, ws) = Append(MapsOf(h, vs), Mapping(PairsFrom(g, p, 0)))
         /\ LiveOf(ws) = LiveOf(vs) \cup {Len(vs) + 1}
<1>1. /\ h \in Memory /\ vs \in Seq([root : Nat, freed : BOOLEAN]) /\ Len(vs) \in Nat
      /\ \A v \in 1..Len(vs) : vs[v].root \in Pointers(h) /\ (~vs[v].freed => Rooted(h, vs[v].root))
  BY DEF TriesIn
<1>2. p \in Pointers(g) /\ Len(g) \in Nat /\ p \in Nat /\ 0 \in 0..Levels /\ NULL \in Pointers(h)
  BY <1>1, MemoryLen, PointersAre, LevelsAre DEF Rooted
<1>3. PICK u : u = Version(p)
  OBVIOUS
<1>4. u.root = p /\ u.freed = FALSE /\ u \in [root : Nat, freed : BOOLEAN]
  BY <1>2, <1>3 DEF Version
<1>5. /\ ws \in Seq([root : Nat, freed : BOOLEAN]) /\ Len(ws) = Len(vs) + 1
      /\ ws[Len(vs) + 1] = u /\ \A v \in 1..Len(vs) : ws[v] = vs[v]
  BY <1>1, <1>3, <1>4 DEF AddedTo
<1>6. \A q \in Pointers(h) : /\ q \in Pointers(g) /\ PairsFrom(g, q, 0) = PairsFrom(h, q, 0)
                             /\ Rooted(h, q) => Rooted(g, q)
  BY <1>1, <1>2, ExtendsSame DEF Rooted
<1>7. TriesIn(g, ws)
  <2>1. ASSUME NEW v \in 1..Len(ws)
        PROVE  ws[v].root \in Pointers(g) /\ (~ws[v].freed => Rooted(g, ws[v].root))
    <3>1. CASE v = Len(vs) + 1
      BY <1>2, <1>4, <1>5, <3>1
    <3>2. CASE v \in 1..Len(vs)
      BY <1>1, <1>5, <1>6, <3>2
    <3>3. QED
      BY <1>1, <1>5, <3>1, <3>2
  <2>2. QED
    BY <1>5, <2>1 DEF TriesIn
<1>8. MapsOf(g, ws) = Append(MapsOf(h, vs), Mapping(PairsFrom(g, p, 0)))
  <2>1. PICK f : f = Mapping(PairsFrom(g, p, 0))
    OBVIOUS
  <2>2. MapAt(g, ws, Len(vs) + 1) = f
    BY <1>4, <1>5, <2>1 DEF MapAt
  <2>3. ASSUME NEW v \in 1..Len(vs) PROVE MapAt(g, ws, v) = MapAt(h, vs, v)
    <3>1. (IF ~vs[v].freed THEN vs[v].root ELSE NULL) \in Pointers(h) /\ ws[v] = vs[v]
      BY <1>1, <1>2, <1>5
    <3>2. QED
      BY <1>6, <3>1 DEF MapAt
  <2>4. \A v \in 1..Len(vs) + 1 : MapAt(g, ws, v) = IF v <= Len(vs) THEN MapAt(h, vs, v) ELSE f
    BY <1>1, <2>2, <2>3
  <2>5. PICK m : m = MapsOf(h, vs)
    OBVIOUS
  <2>6. DOMAIN m = 1..Len(vs) /\ (\A v \in 1..Len(vs) : m[v] = MapAt(h, vs, v)) /\ Len(m) = Len(vs)
        /\ m \in Seq({MapAt(h, vs, v) : v \in 1..Len(vs)})
    BY <1>1, <2>5 DEF MapsOf
  <2>7. Append(m, f) = [v \in 1..Len(vs) + 1 |-> IF v <= Len(vs) THEN m[v] ELSE f]
    <3>1. PICK X : X = {MapAt(h, vs, v) : v \in 1..Len(vs)} \cup {f}
      OBVIOUS
    <3>2. m \in Seq(X) /\ f \in X
      BY <1>1, <2>6, <3>1
    <3>3. PICK a : a = Append(m, f)
      OBVIOUS
    <3>4. /\ a \in Seq(X) /\ Len(a) = Len(vs) + 1
          /\ \A v \in 1..Len(vs) : a[v] = m[v]
          /\ a[Len(vs) + 1] = f
      BY <2>6, <3>2, <3>3, AppendProperties
    <3>5. a = [v \in 1..Len(vs) + 1 |-> a[v]]
      BY <3>4
    <3>6. \A v \in 1..Len(vs) + 1 : a[v] = IF v <= Len(vs) THEN m[v] ELSE f
      BY <1>1, <3>4
    <3>7. QED
      BY <3>3, <3>5, <3>6
  <2>8. MapsOf(g, ws) = [v \in 1..Len(vs) + 1 |-> MapAt(g, ws, v)]
    BY <1>5 DEF MapsOf
  <2>9. QED
    BY <1>1, <2>1, <2>4, <2>5, <2>6, <2>7, <2>8
<1>9. LiveOf(ws) = LiveOf(vs) \cup {Len(vs) + 1}
  BY <1>1, <1>4, <1>5 DEF LiveOf
<1>10. QED
  BY <1>7, <1>8, <1>9

(* Memory that is freed: set R of pointers. *)
FreedMemory(h, R) == [i \in 1..Len(h) |-> IF 2 * i \in R THEN Gone ELSE h[i]]

LEMMA FreedFits ==
  ASSUME NEW h \in Memory, NEW R, NEW g, g = FreedMemory(h, R)
  PROVE  /\ g \in Memory /\ Len(g) = Len(h) /\ Pointers(g) = Pointers(h)
         /\ \A i \in 1..Len(h) : g[i] = IF 2 * i \in R THEN Gone ELSE h[i]
<1>1. h \in Seq(Nodes) /\ Len(h) \in Nat /\ \A i \in 1..Len(h) : FitNode(h[i], h) /\ h[i] \in Nodes
  BY MemoryIs, FitNodeIs
<1>2. Gone \in Nodes /\ Gone.slots = <<>> /\ Gone.bitmap = {}
  <2>1. <<>> \in Seq([key : Nat, word : Int])
    OBVIOUS
  <2>2. QED
    BY <2>1 DEF Gone, Node, Nodes
<1>3. /\ g = [i \in 1..Len(h) |-> g[i]]
      /\ \A i \in 1..Len(h) : g[i] = IF 2 * i \in R THEN Gone ELSE h[i]
  BY DEF FreedMemory
<1>4. g \in Seq(Nodes) /\ Len(g) = Len(h)
  <2>1. \A i \in 1..Len(h) : g[i] \in Nodes
    BY <1>1, <1>2, <1>3
  <2>2. QED
    BY <1>1, <1>3, <2>1
<1>5. Pointers(g) = Pointers(h)
  BY <1>4 DEF Pointers
<1>6. ASSUME NEW i \in 1..Len(g) PROVE WellFormed(g[i], g)
  <2>1. CASE g[i] = Gone
    <3>1. Cardinality({}) = 0 /\ Len(<<>>) = 0
      BY FS_EmptySet
    <3>2. WellFormed(Gone, g)
      BY <1>2, <3>1 DEF WellFormed
    <3>3. QED
      BY <2>1, <3>2
  <2>2. CASE g[i] = h[i]
    <3>1. WellFormed(h[i], h)
      BY <1>1, <1>4, FitNodeIs
    <3>2. WellFormed(h[i], g)
      BY <1>5, <3>1 DEF WellFormed
    <3>3. QED
      BY <2>2, <3>2
  <2>3. QED
    BY <1>3, <1>4, <2>1, <2>2
<1>7. QED
  BY <1>3, <1>4, <1>5, <1>6 DEF Memory

LEMMA FreedIs ==
  ASSUME NEW h \in Memory, Counted(h), NEW R, NEW g, g = FreedMemory(h, R)
  PROVE  /\ g \in Memory /\ Counted(g) /\ Pointers(g) = Pointers(h)
         /\ \A p \in Pointers(h) : p # NULL /\ p \notin R => At(g, p) = At(h, p)
<1>1. /\ g \in Memory /\ Len(g) = Len(h) /\ Pointers(g) = Pointers(h)
      /\ \A i \in 1..Len(h) : g[i] = IF 2 * i \in R THEN Gone ELSE h[i]
  BY FreedFits
<1>2. Counted(g)
  <2>1. Gone.count \in Nat
    BY DEF Gone, Node
  <2>2. QED
    BY <1>1, <2>1 DEF Counted
<1>3. ASSUME NEW p \in Pointers(h), p # NULL, p \notin R PROVE At(g, p) = At(h, p)
  <2>1. p \div 2 \in 1..Len(h) /\ p = 2 * (p \div 2)
    BY <1>3, MemoryNode
  <2>2. QED
    BY <1>1, <1>3, <2>1 DEF At
<1>4. QED
  BY <1>1, <1>2, <1>3

(* t is s with e at i. *)
Updated(t, s, i, e) == t = [s EXCEPT ![i] = e]

LEMMA UpdatedIs ==
  ASSUME NEW X, NEW s \in Seq(X), NEW i \in 1..Len(s), NEW e \in X, NEW t, Updated(t, s, i, e)
  PROVE  /\ t \in Seq(X) /\ Len(t) = Len(s)
         /\ \A j \in 1..Len(s) : t[j] = IF j = i THEN e ELSE s[j]
BY ExceptSeq DEF Updated

LEMMA VersionFreed ==
  ASSUME NEW vs \in Seq([root : Nat, freed : BOOLEAN]), NEW v \in 1..Len(vs),
         NEW ws, FreedIn(ws, vs, v)
  PROVE  /\ ws \in Seq([root : Nat, freed : BOOLEAN]) /\ Len(ws) = Len(vs)
         /\ ws[v].freed
         /\ \A w \in 1..Len(vs) : ws[w].root = vs[w].root /\ (w # v => ws[w] = vs[w])
<1>1. PICK X : X = [root : Nat, freed : BOOLEAN]
  OBVIOUS
<1>2. PICK u : u = [vs[v] EXCEPT !.freed = TRUE]
  OBVIOUS
<1>3. vs[v] \in X
  BY <1>1, ElementOfSeq
<1>4. u \in X /\ u.freed = TRUE /\ u.root = vs[v].root
  BY <1>1, <1>2, <1>3
<1>5. Updated(ws, vs, v, u)
  BY <1>2 DEF Updated, FreedIn
<1>6. /\ ws \in Seq(X) /\ Len(ws) = Len(vs)
      /\ \A w \in 1..Len(vs) : ws[w] = IF w = v THEN u ELSE vs[w]
  <2>1. vs \in Seq(X) /\ u \in X
    BY <1>1, <1>4
  <2>2. QED
    BY ONLY <1>5, <2>1, UpdatedIs
<1>7. ws[v] = u /\ \A w \in 1..Len(vs) : w # v => ws[w] = vs[w]
  BY <1>6
<1>8. ASSUME NEW w \in 1..Len(vs)
      PROVE  ws[w].root = vs[w].root /\ (w # v => ws[w] = vs[w])
  <2>1. CASE w = v
    BY ONLY <1>4, <1>7, <2>1
  <2>2. CASE w # v
    BY ONLY <1>7, <2>2, <1>8
  <2>3. QED
    BY <2>1, <2>2
<1>9. ws[v].freed
  BY ONLY <1>4, <1>7
<1>10. ws \in Seq([root : Nat, freed : BOOLEAN]) /\ Len(ws) = Len(vs)
  BY ONLY <1>1, <1>6
<1>11. QED
  BY ONLY <1>8, <1>9, <1>10

(* A version is freed, which shares nothing with the others. *)
LEMMA Release ==
  ASSUME NEW h, NEW vs, TriesIn(h, vs), NEW v \in 1..Len(vs), ~vs[v].freed,
         \A w \in 1..Len(vs) : w # v /\ ~vs[w].freed =>
           ReachFrom(h, vs[w].root, 0) \cap ReachFrom(h, vs[v].root, 0) = {},
         NEW g, g = FreedMemory(h, ReachFrom(h, vs[v].root, 0)),
         NEW ws, FreedIn(ws, vs, v)
  PROVE  /\ TriesIn(g, ws)
         /\ MapsOf(g, ws) = [MapsOf(h, vs) EXCEPT ![v] = Mapping({})]
         /\ LiveOf(ws) = LiveOf(vs) \ {v}
<1>1. /\ h \in Memory /\ Counted(h) /\ vs \in Seq([root : Nat, freed : BOOLEAN]) /\ Len(vs) \in Nat
      /\ \A w \in 1..Len(vs) : vs[w].root \in Pointers(h) /\ (~vs[w].freed => Rooted(h, vs[w].root))
  BY DEF TriesIn
<1>2. PICK R : R = ReachFrom(h, vs[v].root, 0)
  OBVIOUS
<1>3. /\ g \in Memory /\ Counted(g) /\ Pointers(g) = Pointers(h)
      /\ \A p \in Pointers(h) : p # NULL /\ p \notin R => At(g, p) = At(h, p)
  BY <1>1, <1>2, FreedIs
<1>4. 0 \in 0..Levels /\ NULL \in Pointers(h) /\ NULL \in Pointers(g)
  BY <1>1, <1>3, MemoryLen, PointersAre, LevelsAre
<1>5. /\ ws \in Seq([root : Nat, freed : BOOLEAN]) /\ Len(ws) = Len(vs)
      /\ ws[v].freed
      /\ \A w \in 1..Len(vs) : ws[w].root = vs[w].root /\ (w # v => ws[w] = vs[w])
  <2>1. FreedIn(ws, vs, v) /\ v \in 1..Len(vs)
    OBVIOUS
  <2>2. QED
    BY ONLY <1>1, <2>1, VersionFreed
<1>6. ASSUME NEW w \in 1..Len(vs), w # v, ~vs[w].freed
      PROVE  Rooted(g, vs[w].root) /\ PairsFrom(g, vs[w].root, 0) = PairsFrom(h, vs[w].root, 0)
  <2>1. PICK p : p = vs[w].root
    OBVIOUS
  <2>2. p \in Pointers(h) /\ p \in Pointers(g) /\ Rooted(h, p) /\ ReachFrom(h, p, 0) \cap R = {}
    BY <1>1, <1>2, <1>3, <1>6, <2>1
  <2>3. ReachFrom(h, p, 0) \subseteq Pointers(h) \ {NULL}
    BY <1>1, <1>4, <2>2, ReachIn
  <2>4. Same(g, h, p, 0)
    BY <1>3, <2>2, <2>3 DEF Same
  <2>5. PairsFrom(g, p, 0) = PairsFrom(h, p, 0)
    BY <1>1, <1>3, <1>4, <2>2, <2>4, SameReach
  <2>6. Good(h, p, 0) => Good(g, p, 0)
    BY <1>1, <1>3, <1>4, <2>2, <2>4, SameGood
  <2>7. QED
    BY <2>1, <2>2, <2>5, <2>6 DEF Rooted
<1>7. TriesIn(g, ws)
  <2>1. ASSUME NEW w \in 1..Len(ws)
        PROVE  ws[w].root \in Pointers(g) /\ (~ws[w].freed => Rooted(g, ws[w].root))
    BY <1>1, <1>3, <1>5, <1>6
  <2>2. QED
    BY <1>3, <1>5, <2>1 DEF TriesIn
<1>8. MapsOf(g, ws) = [MapsOf(h, vs) EXCEPT ![v] = Mapping({})]
  <2>1. \A k \in Memory : NULL \in Pointers(k) => PairsFrom(k, NULL, 0) = {}
    BY <1>4, PairsIs
  <2>2. PairsFrom(h, NULL, 0) = {} /\ PairsFrom(g, NULL, 0) = {}
    BY <1>1, <1>3, <1>4, <2>1
  <2>3. MapAt(g, ws, v) = Mapping({})
    BY <1>5, <2>2 DEF MapAt
  <2>4. ASSUME NEW w \in 1..Len(vs), w # v PROVE MapAt(g, ws, w) = MapAt(h, vs, w)
    <3>1. CASE vs[w].freed
      BY <1>5, <2>2, <2>4, <3>1 DEF MapAt
    <3>2. CASE ~vs[w].freed
      BY <1>5, <1>6, <2>4, <3>2 DEF MapAt
    <3>3. QED
      BY <3>1, <3>2
  <2>5. QED
    BY <1>5, <2>3, <2>4 DEF MapsOf
<1>9. LiveOf(ws) = LiveOf(vs) \ {v}
  BY <1>5 DEF LiveOf
<1>10. QED
  BY <1>7, <1>8, <1>9

-----------------------------------------------------------------------------
(* The steps of the program.                                               *)

LEMMA ContentsAre ==
  \A p : Contents(p) = Mapping(PairsFrom(nodes, p, 0)) /\ Reach(p) = ReachFrom(nodes, p, 0)
BY DEF Contents, Pairs, PairsFrom, Reach

(* The variables of MapStore. *)
Seen == [v \in 1..Len(versions) |-> Contents(IF Live(v) THEN versions[v].root ELSE NULL)]
SeenIs == Seen = MapsOf(nodes, versions) /\ LiveVersions = LiveOf(versions)

LEMMA SeenAs == SeenIs
<1>1. \A v \in 1..Len(versions) :
        /\ Live(v) <=> ~versions[v].freed
        /\ Contents(IF Live(v) THEN versions[v].root ELSE NULL) = MapAt(nodes, versions, v)
  BY ContentsAre DEF Live, MapAt
<1>2. Seen = MapsOf(nodes, versions)
  BY <1>1 DEF MapsOf, Seen
<1>3. LiveVersions = LiveOf(versions)
  BY <1>1 DEF LiveVersions, LiveOf
<1>4. QED
  BY <1>2, <1>3 DEF SeenIs

LEMMA SeenNext == SeenIs /\ SeenIs'
BY SeenAs, PTL

LEMMA Added ==
  ASSUME NEW f, Len(versions) \in Nat,
         MapsOf(nodes, versions)' = Append(MapsOf(nodes, versions), f),
         LiveOf(versions)' = LiveOf(versions) \cup {Len(versions) + 1}
  PROVE  Maps!Add(f)
<1>1. Len(MapsOf(nodes, versions)) = Len(versions)
  BY DEF MapsOf
<1>2. /\ Seen = MapsOf(nodes, versions) /\ LiveVersions = LiveOf(versions)
      /\ Seen' = MapsOf(nodes, versions)' /\ LiveVersions' = LiveOf(versions)'
  BY SeenNext DEF SeenIs
<1>3. Seen' = Append(Seen, f) /\ LiveVersions' = LiveVersions \cup {Len(Seen) + 1}
  BY <1>1, <1>2
<1>4. QED
  BY ONLY <1>3 DEF Maps!Add, Seen

LEMMA NothingMapped == Mapping({}) = Maps!Empty
BY DEF Mapping, Maps!Empty

(* Live versions of the program and of MapStore. *)
LEMMA LiveVersion ==
  ASSUME TrieInv, NEW v \in 1..Len(versions), Live(v)
  PROVE  /\ nodes \in Memory /\ Counted(nodes) /\ Rooted(nodes, versions[v].root)
         /\ v \in LiveVersions /\ ~versions[v].freed
         /\ Seen[v] = Mapping(PairsFrom(nodes, versions[v].root, 0))
         /\ Contents(versions[v].root) = Mapping(PairsFrom(nodes, versions[v].root, 0))
         /\ Unique(PairsFrom(nodes, versions[v].root, 0))
         /\ IsFiniteSet(PairsFrom(nodes, versions[v].root, 0))
<1>1. nodes \in Memory /\ Counted(nodes) /\ Rooted(nodes, versions[v].root) /\ ~versions[v].freed
  BY DEF TrieInv, TriesIn, Live
<1>2. v \in LiveVersions
  BY DEF LiveVersions
<1>3. Seen[v] = Mapping(PairsFrom(nodes, versions[v].root, 0))
  BY ContentsAre DEF Seen
<1>4. Contents(versions[v].root) = Mapping(PairsFrom(nodes, versions[v].root, 0))
  BY ContentsAre
<1>5. Unique(PairsFrom(nodes, versions[v].root, 0)) /\ IsFiniteSet(PairsFrom(nodes, versions[v].root, 0))
  BY <1>1, RootedPairs
<1>6. QED
  BY <1>1, <1>2, <1>3, <1>4, <1>5

(* A step that adds a version with root p in memory g. *)
LEMMA GrowStep ==
  ASSUME TrieInv, NEW g \in Memory, Counted(g), Extends(g, nodes), NEW p, Rooted(g, p),
         nodes' = g, versions' = Append(versions, Version(p)),
         NEW f, f = Mapping(PairsFrom(g, p, 0))
  PROVE  TrieInv' /\ Maps!Add(f)
<1>1. /\ TriesIn(nodes', versions')
      /\ MapsOf(nodes', versions') = Append(MapsOf(nodes, versions), f)
      /\ LiveOf(versions') = LiveOf(versions) \cup {Len(versions) + 1}
  <2>1. PICK ws, vs, h : ws = versions' /\ vs = versions /\ h = nodes
    OBVIOUS
  <2>2. TriesIn(h, vs) /\ g \in Memory /\ Counted(g) /\ Extends(g, h) /\ Rooted(g, p)
        /\ AddedTo(ws, vs, p)
    BY <2>1 DEF TrieInv, AddedTo
  <2>3. /\ TriesIn(g, ws)
        /\ MapsOf(g, ws) = Append(MapsOf(h, vs), Mapping(PairsFrom(g, p, 0)))
        /\ LiveOf(ws) = LiveOf(vs) \cup {Len(vs) + 1}
    BY ONLY <2>2, Grow
  <2>4. QED
    BY <2>1, <2>3
<1>2. TrieInv'
  BY <1>1 DEF TrieInv
<1>3. Len(versions) \in Nat
  BY DEF TrieInv, TriesIn
<1>4. QED
  BY <1>1, <1>2, <1>3, Added

LEMMA NewStep ==
  ASSUME TrieInv, New
  PROVE  TrieInv' /\ Maps!New
<1>1. nodes \in Memory /\ Counted(nodes) /\ Extends(nodes, nodes) /\ 0 \in 0..Levels
  BY ExtendsSelf, LevelsAre DEF TrieInv, TriesIn
<1>2. NULL \in Pointers(nodes) /\ Rooted(nodes, NULL)
  BY <1>1, MemoryLen, PointersAre DEF Rooted
<1>3. PairsFrom(nodes, NULL, 0) = {}
  BY <1>1, <1>2, PairsIs
<1>4. nodes' = nodes /\ versions' = Append(versions, Version(NULL))
  BY DEF New
<1>5. TrieInv' /\ Maps!Add(Mapping({}))
  <2>1. PICK g, p, f : g = nodes /\ p = NULL /\ f = Mapping({})
    OBVIOUS
  <2>2. TrieInv' /\ Maps!Add(f)
    BY <1>1, <1>2, <1>3, <1>4, <2>1, GrowStep
  <2>3. QED
    BY <2>1, <2>2
<1>6. QED
  BY <1>5, NothingMapped DEF Maps!New

LEMMA SetStepped ==
  ASSUME TrieInv, NEW v \in 1..Len(versions), NEW k \in Keys, NEW x \in Values, Set(v, k, x)
  PROVE  TrieInv' /\ Maps!Set(v, k, x)
<1>1. PICK r, p : r = HamtSet(versions[v].root, k, x) /\ p = versions[v].root
  OBVIOUS
<1>2. Live(v) /\ nodes' = r.heap /\ versions' = Append(versions, Version(r.node))
  BY <1>1 DEF Set
<1>3. /\ nodes \in Memory /\ Counted(nodes) /\ Rooted(nodes, p) /\ v \in LiveVersions
      /\ Seen[v] = Mapping(PairsFrom(nodes, p, 0)) /\ Unique(PairsFrom(nodes, p, 0))
  BY <1>1, <1>2, LiveVersion
<1>4. x \in Int /\ r = SetImpl[Call(nodes, p, k, x, 0)]
  BY <1>1, HashAssumption DEF HamtSet
<1>5. /\ r \in Sound /\ Extends(r.heap, nodes)
      /\ PairsFrom(r.heap, r.node, 0) = With(PairsFrom(nodes, p, 0), Leaf(k, x))
  BY <1>3, <1>4, SetRoot
<1>6. r.heap \in Memory /\ Counted(r.heap) /\ Rooted(r.heap, r.node)
  BY <1>5 DEF Sound, Results
<1>7. PICK f : f = Mapping(PairsFrom(r.heap, r.node, 0))
  OBVIOUS
<1>8. TrieInv' /\ Maps!Add(f)
  BY <1>2, <1>5, <1>6, <1>7, GrowStep
<1>9. f = [j \in DOMAIN Seen[v] \cup {k} |-> IF j = k THEN Maps!Kept(x) ELSE Seen[v][j]]
  <2>1. PICK P, s, m : P = PairsFrom(nodes, p, 0) /\ s = Leaf(k, x) /\ m = Seen[v]
    OBVIOUS
  <2>2. Unique(P) /\ m = Mapping(P) /\ f = Mapping(With(P, s))
    BY <1>3, <1>5, <1>7, <2>1
  <2>3. s.key = k /\ Untagged(s.word) = Maps!Kept(x)
    BY <1>4, <2>1, KeptIs
  <2>4. PutIn(f, m, s.key, Untagged(s.word))
    BY ONLY <2>2, MappingWith
  <2>5. f = [j \in DOMAIN m \cup {k} |-> IF j = k THEN Maps!Kept(x) ELSE m[j]]
    BY ONLY <2>3, <2>4 DEF PutIn
  <2>6. QED
    BY <2>1, <2>5
<1>10. QED
  BY ONLY <1>3, <1>8, <1>9 DEF Maps!Set, Seen

LEMMA RemoveStepped ==
  ASSUME TrieInv, NEW v \in 1..Len(versions), NEW k \in Keys, Remove(v, k)
  PROVE  TrieInv' /\ Maps!Remove(v, k)
<1>1. PICK r, p : r = HamtRemove(versions[v].root, k) /\ p = versions[v].root
  OBVIOUS
<1>2. Live(v) /\ nodes' = r.heap /\ versions' = Append(versions, Version(r.node))
  BY <1>1 DEF Remove
<1>3. /\ nodes \in Memory /\ Counted(nodes) /\ Rooted(nodes, p) /\ v \in LiveVersions
      /\ Seen[v] = Mapping(PairsFrom(nodes, p, 0)) /\ Unique(PairsFrom(nodes, p, 0))
  BY <1>1, <1>2, LiveVersion
<1>4. r = RemoveImpl[Call(nodes, p, k, 0, 0)]
  BY <1>1 DEF HamtRemove
<1>5. /\ r \in Sound /\ Extends(r.heap, nodes)
      /\ PairsFrom(r.heap, r.node, 0) = Without(PairsFrom(nodes, p, 0), k)
  BY <1>3, <1>4, RemoveRoot
<1>6. r.heap \in Memory /\ Counted(r.heap) /\ Rooted(r.heap, r.node)
  BY <1>5 DEF Sound, Results
<1>7. PICK f : f = Mapping(PairsFrom(r.heap, r.node, 0))
  OBVIOUS
<1>8. TrieInv' /\ Maps!Add(f)
  BY <1>2, <1>5, <1>6, <1>7, GrowStep
<1>9. f = [j \in DOMAIN Seen[v] \ {k} |-> Seen[v][j]]
  <2>1. PICK P, m : P = PairsFrom(nodes, p, 0) /\ m = Seen[v]
    OBVIOUS
  <2>2. Unique(P) /\ m = Mapping(P) /\ f = Mapping(Without(P, k))
    BY <1>3, <1>5, <1>7, <2>1
  <2>3. TakenOut(f, m, k)
    BY ONLY <2>2, MappingWithout
  <2>4. QED
    BY <2>1, <2>3 DEF TakenOut
<1>10. QED
  BY ONLY <1>3, <1>8, <1>9 DEF Maps!Remove, Seen

LEMMA FreeStep ==
  ASSUME TrieInv, NEW v \in 1..Len(versions), Free(v)
  PROVE  TrieInv' /\ Maps!Free(v)
<1>1. Live(v) /\ ~versions[v].freed /\ v \in LiveVersions /\ TriesIn(nodes, versions)
  BY LiveVersion DEF Free, TrieInv
<1>2. \A w \in 1..Len(versions) : w # v /\ ~versions[w].freed =>
        ReachFrom(nodes, versions[w].root, 0) \cap ReachFrom(nodes, versions[v].root, 0) = {}
  BY ContentsAre DEF Free, Unshared, Live
<1>3. nodes' = FreedMemory(nodes, ReachFrom(nodes, versions[v].root, 0))
  BY ContentsAre DEF Free, FreedMemory
<1>4. versions' = [versions EXCEPT ![v].freed = TRUE]
  BY DEF Free
<1>5. /\ TriesIn(nodes', versions')
      /\ MapsOf(nodes', versions') = [MapsOf(nodes, versions) EXCEPT ![v] = Mapping({})]
      /\ LiveOf(versions') = LiveOf(versions) \ {v}
  <2>1. PICK ws, g, vs, h, R : /\ ws = versions' /\ g = nodes' /\ vs = versions /\ h = nodes
                               /\ R = ReachFrom(nodes, versions[v].root, 0)
    OBVIOUS
  <2>2. /\ TriesIn(g, ws)
        /\ MapsOf(g, ws) = [MapsOf(h, vs) EXCEPT ![v] = Mapping({})]
        /\ LiveOf(ws) = LiveOf(vs) \ {v}
    <3>1. /\ TriesIn(h, vs) /\ ~vs[v].freed /\ v \in 1..Len(vs)
          /\ \A w \in 1..Len(vs) : w # v /\ ~vs[w].freed => ReachFrom(h, vs[w].root, 0) \cap R = {}
          /\ g = FreedMemory(h, R) /\ R = ReachFrom(h, vs[v].root, 0)
      BY <1>1, <1>2, <1>3, <2>1
    <3>2. FreedIn(ws, vs, v)
      BY <1>4, <2>1 DEF FreedIn
    <3>3. QED
      BY ONLY <3>1, <3>2, Release
  <2>3. QED
    BY <2>1, <2>2
<1>6. /\ Seen = MapsOf(nodes, versions) /\ LiveVersions = LiveOf(versions)
      /\ Seen' = MapsOf(nodes, versions)' /\ LiveVersions' = LiveOf(versions)'
  BY SeenNext DEF SeenIs
<1>7. Seen' = [Seen EXCEPT ![v] = Maps!Empty] /\ LiveVersions' = LiveVersions \ {v}
  BY <1>5, <1>6, NothingMapped
<1>8. Maps!Free(v)
  BY ONLY <1>1, <1>7 DEF Maps!Free, Seen
<1>9. QED
  BY <1>5, <1>8 DEF TrieInv

LEMMA TrieInit ==
  ASSUME Init
  PROVE  TrieInv /\ Maps!Init
<1>0. PICK history \in Histories, value \in Values :
        /\ nodes = Built(history, value).heap
        /\ versions = <<Version(Built(history, value).node)>>
  BY DEF Init
<1>1. PICK b : /\ b = Built(history, value)
               /\ nodes = b.heap /\ versions = <<Version(b.node)>>
  BY <1>0
<1>2. history \in Seq(Keys) /\ value \in Int
  BY HashAssumption
<1>3. b \in Sound
  BY <1>1, <1>2, BuiltSound
<1>4. nodes \in Memory /\ Counted(nodes) /\ Rooted(nodes, b.node) /\ b.node \in Nat
  BY <1>1, <1>3 DEF Sound, Results
<1>5. PICK u : u = Version(b.node)
  OBVIOUS
<1>6. u \in [root : Nat, freed : BOOLEAN] /\ u.root = b.node /\ ~u.freed
  BY <1>4, <1>5 DEF Version
<1>7. versions \in Seq([root : Nat, freed : BOOLEAN]) /\ Len(versions) = 1 /\ versions[1] = u
  BY <1>1, <1>5, <1>6
<1>8. TrieInv
  BY <1>4, <1>6, <1>7 DEF TrieInv, TriesIn, Rooted
<1>9. LiveVersions = 1..Len(Seen)
  <2>1. Len(Seen) = 1
    BY <1>7 DEF Seen
  <2>2. LiveVersions = {1}
    BY <1>6, <1>7 DEF LiveVersions, Live
  <2>3. QED
    BY <2>1, <2>2
<1>10. Maps!Init
  BY ONLY <1>9 DEF Maps!Init, Seen
<1>11. QED
  BY <1>8, <1>10

LEMMA TrieNext ==
  ASSUME TrieInv, [Next]_vars
  PROVE  TrieInv' /\ [Maps!Next]_(Maps!vars)
<1>1. Len(Seen) = Len(versions)
  BY DEF Seen, TrieInv, TriesIn
<1>2. CASE New
  BY <1>2, NewStep DEF Maps!Next
<1>3. ASSUME NEW v \in 1..Len(versions), NEW k \in Keys, NEW x \in Values, Set(v, k, x)
      PROVE  TrieInv' /\ Maps!Next
  <2>1. TrieInv' /\ Maps!Set(v, k, x)
    BY <1>3, SetStepped
  <2>2. v \in 1..Len(Seen)
    BY <1>1
  <2>3. QED
    BY <2>1, <2>2 DEF Maps!Next, Seen
<1>4. ASSUME NEW v \in 1..Len(versions), NEW k \in Keys, Remove(v, k)
      PROVE  TrieInv' /\ Maps!Next
  <2>1. TrieInv' /\ Maps!Remove(v, k)
    BY <1>4, RemoveStepped
  <2>2. v \in 1..Len(Seen)
    BY <1>1
  <2>3. QED
    BY <2>1, <2>2 DEF Maps!Next, Seen
<1>5. ASSUME NEW v \in 1..Len(versions), Free(v)
      PROVE  TrieInv' /\ Maps!Next
  <2>1. TrieInv' /\ Maps!Free(v)
    BY <1>5, FreeStep
  <2>2. v \in 1..Len(Seen)
    BY <1>1
  <2>3. QED
    BY <2>1, <2>2 DEF Maps!Next, Seen
<1>6. CASE UNCHANGED vars
  <2>1. nodes' = nodes /\ versions' = versions
    BY <1>6 DEF vars
  <2>2. TrieInv'
    BY <2>1 DEF TrieInv
  <2>3. Seen' = Seen /\ LiveVersions' = LiveVersions
    BY <2>1, SeenNext DEF SeenIs, MapsOf, MapAt, LiveOf
  <2>4. UNCHANGED Maps!vars
    BY ONLY <2>3 DEF Maps!vars, Seen
  <2>5. QED
    BY <2>2, <2>4
<1>7. QED
  BY <1>2, <1>3, <1>4, <1>5, <1>6 DEF Next

-----------------------------------------------------------------------------
(* Every version that is not freed is a trie in which each key is where    *)
(* its chunks lead and each counter is right.                              *)
THEOREM AlwaysTries == Spec => []TrieInv
<1>1. Init => TrieInv
  BY TrieInit
<1>2. TrieInv /\ [Next]_vars => TrieInv'
  BY TrieNext
<1>3. QED
  BY <1>1, <1>2, PTL DEF Spec

LEMMA VersionsTyped ==
  ASSUME NEW vs \in Seq([root : Nat, freed : BOOLEAN]), NEW Q,
         \A v \in 1..Len(vs) : vs[v].root \in Q
  PROVE  vs \in Seq([root : Q, freed : BOOLEAN])
<1>1. PICK X, Y : X = [root : Nat, freed : BOOLEAN] /\ Y = [root : Q, freed : BOOLEAN]
  OBVIOUS
<1>2. ASSUME NEW v \in 1..Len(vs) PROVE vs[v] \in Y
  <2>1. PICK u : u = vs[v]
    OBVIOUS
  <2>2. u \in [root : Nat, freed : BOOLEAN] /\ u.root \in Q
    BY <2>1, ElementOfSeq
  <2>3. u \in [root : Q, freed : BOOLEAN]
    BY ONLY <2>2
  <2>4. QED
    BY <1>1, <2>1, <2>3
<1>3. Len(vs) \in Nat /\ vs = [v \in 1..Len(vs) |-> vs[v]]
  OBVIOUS
<1>4. vs \in Seq(Y)
  BY ONLY <1>2, <1>3
<1>5. QED
  BY <1>1, <1>4

(* Memory stays well formed. *)
THEOREM TrieTyped == Spec => []TypeOK
<1>1. TrieInv => TypeOK
  <2>1. SUFFICES ASSUME TrieInv PROVE TypeOK
    OBVIOUS
  <2>2. /\ nodes \in Memory /\ Counted(nodes) /\ versions \in Seq([root : Nat, freed : BOOLEAN])
        /\ Len(versions) \in Nat
        /\ \A v \in 1..Len(versions) : versions[v].root \in Pointers(nodes)
    BY <2>1 DEF TrieInv, TriesIn
  <2>3. versions \in Seq([root : Pointers(nodes), freed : BOOLEAN])
    BY <2>2, VersionsTyped
  <2>4. QED
    BY <2>2, <2>3 DEF TypeOK, Counted
<1>2. QED
  BY <1>1, AlwaysTries, PTL

(* hamt_get finds every key of a version with its value, and no other. *)
THEOREM GetFinds == Spec => []GetAgrees
<1>1. TrieInv => GetAgrees
  <2>1. SUFFICES ASSUME TrieInv, NEW v \in 1..Len(versions), Live(v), NEW k \in Keys
                 PROVE  LET map == Contents(versions[v].root)
                        IN  Get(versions[v].root, k) = IF k \in DOMAIN map THEN map[k] ELSE 0
    BY DEF GetAgrees
  <2>2. PICK p, P, map : /\ p = versions[v].root /\ P = PairsFrom(nodes, p, 0)
                         /\ map = Contents(versions[v].root)
    OBVIOUS
  <2>3. nodes \in Memory /\ Rooted(nodes, p) /\ map = Mapping(P) /\ Unique(P)
    BY <2>1, <2>2, LiveVersion
  <2>4. /\ \A t \in P : t.key = k => Get(p, k) = Untagged(t.word)
        /\ ~HasKey(P, k) => Get(p, k) = 0
    BY <2>1, <2>2, <2>3, GetRoot DEF Get
  <2>5. DOMAIN map = {s.key : s \in P} /\ \A s \in P : map[s.key] = Untagged(s.word)
    BY <2>3, MappingIs
  <2>6. CASE k \in DOMAIN map
    <3>1. PICK t \in P : t.key = k
      BY <2>5, <2>6
    <3>2. Get(p, k) = map[k]
      BY <2>4, <2>5, <3>1
    <3>3. QED
      BY <2>2, <2>6, <3>2
  <2>7. CASE k \notin DOMAIN map
    <3>1. ~HasKey(P, k)
      BY <2>5, <2>7 DEF HasKey
    <3>2. QED
      BY <2>2, <2>4, <2>7, <3>1
  <2>8. QED
    BY <2>6, <2>7
<1>2. QED
  BY <1>1, AlwaysTries, PTL

(* hamt_size is the number of keys. *)
THEOREM SizeCounts == Spec => []SizeAgrees
<1>1. TrieInv => SizeAgrees
  <2>1. SUFFICES ASSUME TrieInv, NEW v \in 1..Len(versions), Live(v)
                 PROVE  Size(versions[v].root) = Cardinality(DOMAIN Contents(versions[v].root))
    BY DEF SizeAgrees
  <2>2. PICK p, P : p = versions[v].root /\ P = PairsFrom(nodes, p, 0)
    OBVIOUS
  <2>3. /\ nodes \in Memory /\ Rooted(nodes, p) /\ Contents(p) = Mapping(P)
        /\ Unique(P) /\ IsFiniteSet(P) /\ p \in Pointers(nodes) /\ 0 \in 0..Levels
    BY <2>1, <2>2, LiveVersion, LevelsAre DEF Rooted
  <2>4. Cardinality(DOMAIN Contents(p)) = Cardinality(P)
    BY <2>3, KeysCounted
  <2>5. CASE p = NULL
    <3>1. P = {} /\ Cardinality({}) = 0
      BY <2>2, <2>3, <2>5, PairsIs, FS_EmptySet
    <3>2. QED
      BY <2>2, <2>4, <2>5, <3>1 DEF Size
  <2>6. CASE p # NULL
    <3>1. At(nodes, p).count = Cardinality(P)
      BY <2>2, <2>3, <2>6, GoodIs DEF Rooted
    <3>2. QED
      BY <2>2, <2>4, <2>6, <3>1 DEF Size
  <2>7. QED
    BY <2>5, <2>6
<1>2. QED
  BY <1>1, AlwaysTries, PTL

(* Hamt refines MapStore. *)
THEOREM MapRefinement == Spec => MapSpec
<1>1. Init => TrieInv /\ Maps!Init
  BY TrieInit
<1>2. TrieInv /\ [Next]_vars => TrieInv' /\ [Maps!Next]_(Maps!vars)
  BY TrieNext
<1>3. QED
  BY <1>1, <1>2, PTL DEF Spec, MapSpec, Maps!Spec
===============================================================================
