---------------------- MODULE ConcurrentMapQueueProofs ----------------------
(* What the operators of ConcurrentMapQueue preserve, for every set of keys. *)
EXTENDS ConcurrentMapQueue, FiniteSetTheorems, WellFoundedInduction, TLAPS

\* A map has finitely many entries, so size() is a number.
LEMMA KeysFinite ==
  ASSUME NEW m
  PROVE  IsFiniteSet(Keys(m)) /\ size(m) \in Nat
<1>1. Keys(m) \in SUBSET Key
  BY DEF Keys
<1>2. IsFiniteSet(Keys(m))
  BY <1>1, KeyAssumption, FS_Subset
<1>3. QED
  BY <1>2, FS_CardinalityType DEF size

\* begin() of a map that is not empty is an entry of it, the smallest one.
LEMMA FrontIsSmallest ==
  ASSUME NEW m, Keys(m) # {}
  PROVE  front(m) \in Keys(m) /\ \A j \in Keys(m) : front(m) <= j
<1>1. Keys(m) \subseteq Nat
  BY KeyAssumption DEF Keys
<1>2. PICK x \in Keys(m) : \A y \in Keys(m) : ~(<<y, x>> \in OpToRel(<, Nat))
  BY <1>1, WFMin, NatLessThanWellFounded
<1>3. \A y \in Keys(m) : x <= y
  <2>1. SUFFICES ASSUME NEW y \in Keys(m) PROVE x <= y
    OBVIOUS
  <2>2. y \in Nat /\ x \in Nat
    BY <1>1
  <2>3. ~(y < x)
    BY <1>2, <2>2 DEF OpToRel
  <2>4. QED
    BY <2>2, <2>3
<1>4. QED
  BY <1>3 DEF front

\* emplace of a value makes a map again.
LEMMA EmplaceType ==
  ASSUME NEW Value, NEW m \in Maps(Value), NEW k \in Key, NEW v \in Value
  PROVE  emplace(m, k, v) \in Maps(Value)
BY DEF Maps, emplace

\* emplace at an absent key adds the entry and leaves the others.
LEMMA EmplaceNew ==
  ASSUME NEW Value, NEW m \in Maps(Value), NEW k \in Key \ Keys(m), NEW v \in Value,
         NoEntry \notin Value
  PROVE  /\ Keys(emplace(m, k, v)) = Keys(m) \cup {k}
         /\ emplace(m, k, v)[k] = v
         /\ \A j \in Keys(m) : emplace(m, k, v)[j] = m[j]
BY DEF Maps, Keys, emplace

\* emplace adds one entry at most.
LEMMA EmplaceSize ==
  ASSUME NEW Value, NEW m \in Maps(Value), NEW k \in Key, NEW v
  PROVE  size(emplace(m, k, v)) <= size(m) + 1
<1>1. Keys(emplace(m, k, v)) \in SUBSET (Keys(m) \cup {k})
  BY DEF Keys, emplace, Maps
<1>2. IsFiniteSet(Keys(m)) /\ size(m) \in Nat
  BY KeysFinite
<1>3. IsFiniteSet(Keys(m) \cup {k}) /\ Cardinality(Keys(m) \cup {k}) <= size(m) + 1
  BY <1>2, FS_AddElement DEF size
<1>4. Cardinality(Keys(m) \cup {k}) \in Nat
  BY <1>3, FS_CardinalityType
<1>5. Cardinality(Keys(emplace(m, k, v))) <= Cardinality(Keys(m) \cup {k})
  BY <1>1, <1>3, FS_Subset
<1>6. size(emplace(m, k, v)) \in Nat
  BY KeysFinite
<1>7. QED
  BY <1>2, <1>3, <1>4, <1>5, <1>6 DEF size

\* erase makes a map again.
LEMMA EraseType ==
  ASSUME NEW Value, NEW m \in Maps(Value), NEW k \in Key
  PROVE  erase(m, k) \in Maps(Value)
BY DEF Maps, erase

\* erase takes out one key and leaves the other entries.
LEMMA EraseOne ==
  ASSUME NEW Value, NEW m \in Maps(Value), NEW k \in Key
  PROVE  /\ Keys(erase(m, k)) = Keys(m) \ {k}
         /\ \A j \in Keys(m) \ {k} : erase(m, k)[j] = m[j]
BY DEF Keys, erase, Maps

\* erase of a key that is there makes the map smaller by one.
LEMMA EraseSize ==
  ASSUME NEW Value, NEW m \in Maps(Value), NEW k \in Keys(m)
  PROVE  size(erase(m, k)) = size(m) - 1
<1>1. Keys(erase(m, k)) = Keys(m) \ {k}
  BY EraseOne DEF Keys
<1>2. QED
  BY <1>1, KeysFinite, FS_RemoveElement DEF size
=============================================================================
