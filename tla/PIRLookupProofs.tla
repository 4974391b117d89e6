-------------------------- MODULE PIRLookupProofs ---------------------------
(***************************************************************************)
(* The lookup protocol, for every table, every order of its columns, every *)
(* choice of multipliers and every size: computeB selects one entry of the *)
(* table, and the protocol is a table lookup.  The folds over rows, files  *)
(* and slots are unfolded by induction over the subsets of their domains.  *)
(***************************************************************************)
EXTENDS PIRLookup, FiniteSetTheorems, TLAPS

-----------------------------------------------------------------------------
(***************************************************************************)
(* Finite sets, orders and columns.                                        *)
(***************************************************************************)
\* Induction over the subsets of a finite set, in the form its proofs use: a
\* set of subsets has one none of whose proper subsets is in it.
LEMMA LeastSubset ==
  ASSUME NEW S, IsFiniteSet(S), NEW C, C \subseteq SUBSET S, C # {}
  PROVE  \E t \in C : \A u \in SUBSET t : u # t => u \notin C
<1>1. IsWellFoundedOn(StrictSubsetOrdering(S), FiniteSubsetsOf(S))
  BY FS_StrictSubsetOrderingWellFounded
<1>2. C \subseteq FiniteSubsetsOf(S)
  BY FS_Subset DEF FiniteSubsetsOf
<1>3. PICK t \in C : \A u \in C : ~(<<u, t>> \in StrictSubsetOrdering(S))
  BY <1>1, <1>2, WFMin
<1> QED
  BY <1>3 DEF StrictSubsetOrdering

\* A set of naturals has a least one.
LEMMA LeastNatural ==
  ASSUME NEW T, T \subseteq Nat, T # {}
  PROVE  \E n \in T : \A m \in T : n <= m
<1> PICK b \in T : TRUE
  OBVIOUS
<1> DEFINE S == 0 .. b
           C == {0 .. n : n \in {n \in T : n <= b}}
<1>1. IsFiniteSet(S) /\ C \subseteq SUBSET S /\ C # {}
  <2>1. C \subseteq SUBSET S
    OBVIOUS
  <2>2. 0 .. b \in C
    OBVIOUS
  <2>3. IsFiniteSet(S)
    <3>1. b \in Int /\ 0 \in Int
      OBVIOUS
    <3> QED
      BY <3>1, FS_Interval
  <2> QED
    BY <2>1, <2>2, <2>3
<1>2. PICK t \in C : \A u \in SUBSET t : u # t => u \notin C
  BY <1>1, LeastSubset
<1>3. PICK n \in T : n <= b /\ t = 0 .. n
  BY <1>2
<1>4. ASSUME NEW m \in T, m < n
      PROVE  FALSE
  <2>1. 0 .. m \in C /\ 0 .. m \in SUBSET t
    BY <1>3, <1>4
  <2>2. n \in t /\ n \notin 0 .. m
    BY <1>3, <1>4
  <2> QED
    BY <1>2, <2>1, <2>2
<1> QED
  BY <1>3, <1>4

\* FoldLeft takes the last position first: the largest of a set of them.
LEMMA MaxOfPositions ==
  ASSUME NEW n \in Nat, NEW t \in SUBSET (1 .. n), t # {}
  PROVE  Max(t) \in t /\ \A i \in t : i <= Max(t)
<1> DEFINE T == {n - i : i \in t}
<1>1. PICK d \in T : \A m \in T : d <= m
  <2>1. \A i \in t : n - i \in Nat
    OBVIOUS
  <2>2. T \subseteq Nat /\ T # {}
    BY <2>1
  <2> HIDE DEF T
  <2> QED
    BY <2>2, LeastNatural
<1>2. PICK i \in t : d = n - i
  OBVIOUS
<1>3. \A j \in t : i >= j
  <2>1. ASSUME NEW j \in t PROVE i >= j
    <3>1. n - j \in T /\ j \in Int /\ i \in Int
      OBVIOUS
    <3>2. n - i <= n - j
      BY <1>1, <1>2, <3>1
    <3> HIDE DEF T
    <3> QED
      BY <3>1, <3>2
  <2> QED
    BY <2>1
<1>4. Max(t) \in t /\ \A j \in t : Max(t) >= j
  BY <1>3 DEF Max
<1> QED
  BY <1>4

\* An injection between finite sets of one size reaches everything.
LEMMA InjectionIsOnto ==
  ASSUME NEW S, NEW T, IsFiniteSet(S), IsFiniteSet(T), Cardinality(S) = Cardinality(T),
         NEW f \in [S -> T], \A a, b \in S : f[a] = f[b] => a = b
  PROVE  \A v \in T : \E a \in S : f[a] = v
<1>1. f \in Injection(S, T)
  BY DEF Injection, IsInjective
<1>2. f \in Surjection(S, T)
  BY <1>1, FS_Injection
<1> QED
  BY <1>2 DEF Surjection

\* Every entry of a column is somewhere in its order.
LEMMA OrderIsOnto ==
  ASSUME NEW n \in Nat, NEW o, IsOrder(o, n)
  PROVE  /\ o \in [0 .. n - 1 -> 0 .. n - 1]
         /\ \A p \in 0 .. n - 1 : \E e \in 0 .. n - 1 : o[e] = p
<1> DEFINE D == 0 .. n - 1
<1>1. IsFiniteSet(D)
  BY FS_Interval
<1>2. o \in [D -> D] /\ \A a, b \in D : o[a] = o[b] => a = b
  BY DEF IsOrder, IsInjective
<1> HIDE DEF D
<1>3. \A p \in D : \E e \in D : o[e] = p
  BY <1>1, <1>2, InjectionIsOnto
<1> QED
  BY <1>2, <1>3 DEF D

\* The sequence of the keys that fills the column of one input.
LEMMA SetToSeqIsOnto ==
  ASSUME NEW S, IsFiniteSet(S)
  PROVE  /\ Cardinality(S) \in Nat
         /\ SetToSeq(S) \in [1 .. Cardinality(S) -> S]
         /\ \A v \in S : \E i \in 1 .. Cardinality(S) : SetToSeq(S)[i] = v
<1> DEFINE n == Cardinality(S)
<1>1. n \in Nat /\ ExistsBijection(1 .. n, S)
  BY FS_CardinalityType
<1>2. \E f \in [1 .. n -> S] : IsInjective(f)
  BY <1>1 DEF ExistsBijection, Bijection, Injection
<1>3. SetToSeq(S) \in [1 .. n -> S] /\ IsInjective(SetToSeq(S))
  BY <1>2 DEF SetToSeq
<1> DEFINE D == 1 .. n
<1>4. IsFiniteSet(D) /\ Cardinality(D) = Cardinality(S)
  BY <1>1, FS_Interval
<1>5. SetToSeq(S) \in [D -> S] /\ \A a, b \in D : SetToSeq(S)[a] = SetToSeq(S)[b] => a = b
  BY <1>3 DEF IsInjective
<1> HIDE DEF D
<1>6. \A v \in S : \E i \in D : SetToSeq(S)[i] = v
  BY <1>4, <1>5, InjectionIsOnto
<1> QED
  BY <1>1, <1>3, <1>6 DEF D

\* The sorted values of a column: every one has its own number of smaller
\* ones, and so its own position.
LEMMA AscendingIsOnto ==
  ASSUME NEW S, S \subseteq Int, IsFiniteSet(S)
  PROVE  /\ Cardinality(S) \in Nat
         /\ Ascending(S) \in [1 .. Cardinality(S) -> S]
         /\ \A v \in S : \E i \in 1 .. Cardinality(S) : Ascending(S)[i] = v
<1> DEFINE n == Cardinality(S)
           below(v) == {w \in S : w < v}
           rank == [v \in S |-> Cardinality(below(v)) + 1]
<1>1. n \in Nat
  BY FS_CardinalityType
<1>2. ASSUME NEW v \in S
      PROVE  /\ IsFiniteSet(below(v)) /\ Cardinality(below(v)) \in Nat
             /\ rank[v] \in 1 .. n
  <2>1. below(v) \in SUBSET (S \ {v})
    OBVIOUS
  <2>2. IsFiniteSet(S \ {v}) /\ Cardinality(S \ {v}) = n - 1
    BY FS_RemoveElement
  <2>3. IsFiniteSet(below(v)) /\ Cardinality(below(v)) <= n - 1
    BY <2>1, <2>2, FS_Subset
  <2>4. Cardinality(below(v)) \in Nat
    BY <2>3, FS_CardinalityType
  <2>5. rank[v] = Cardinality(below(v)) + 1
    BY Zenon
  <2> HIDE DEF rank, below, n
  <2> QED
    BY <1>1, <2>3, <2>4, <2>5
<1>3. ASSUME NEW v \in S, NEW w \in S, v < w
      PROVE  rank[v] < rank[w]
  <2>1. IsFiniteSet(below(v)) /\ IsFiniteSet(below(w))
    BY <1>2
  <2>2. IsFiniteSet(below(v) \cup {v}) /\ Cardinality(below(v) \cup {v}) = Cardinality(below(v)) + 1
    <3>1. v \notin below(v)
      OBVIOUS
    <3> QED
      BY <2>1, <3>1, FS_AddElement
  <2>3. below(v) \cup {v} \in SUBSET below(w)
    <3>1. \A x \in S : x < v => x < w
      BY <1>3
    <3> QED
      BY <1>3, <3>1
  <2>4. Cardinality(below(v)) + 1 <= Cardinality(below(w))
    BY <2>1, <2>2, <2>3, FS_Subset
  <2>5. rank[v] = Cardinality(below(v)) + 1 /\ rank[w] = Cardinality(below(w)) + 1
    BY Zenon
  <2>6. Cardinality(below(v)) \in Nat /\ Cardinality(below(w)) \in Nat
    BY <1>2
  <2> HIDE DEF rank, below, n
  <2> QED
    BY <2>4, <2>5, <2>6
<1>4. rank \in [S -> 1 .. n]
  BY <1>2
<1>5. \A v, w \in S : rank[v] = rank[w] => v = w
  <2> SUFFICES ASSUME NEW v \in S, NEW w \in S, v # w PROVE rank[v] # rank[w]
    OBVIOUS
  <2>1. rank[v] \in Int /\ rank[w] \in Int
    BY <1>4
  <2> HIDE DEF rank
  <2>2. v < w \/ w < v
    OBVIOUS
  <2> QED
    BY <1>3, <2>1, <2>2
<1>6. \A i \in 1 .. n : \E v \in S : rank[v] = i
  <2> DEFINE D == 1 .. n
  <2>1. IsFiniteSet(D) /\ Cardinality(S) = Cardinality(D)
    BY <1>1, FS_Interval
  <2>2. rank \in [S -> D] /\ \A v, w \in S : rank[v] = rank[w] => v = w
    BY <1>4, <1>5
  <2> HIDE DEF rank, D
  <2>3. rank \in Injection(S, D)
    BY <2>2 DEF Injection, IsInjective
  <2>4. rank \in Surjection(S, D)
    BY <2>1, <2>3, FS_Injection
  <2> QED
    BY <2>4 DEF D, Surjection
<1>7. ASSUME NEW i \in 1 .. n
      PROVE  Ascending(S)[i] \in S /\ rank[Ascending(S)[i]] = i
  <2>1. Ascending(S)[i] = CHOOSE v \in S : Cardinality(below(v)) = i - 1
    BY DEF Ascending
  <2>2. \A v \in S : rank[v] = i <=> Cardinality(below(v)) = i - 1
    <3>1. \A v \in S : rank[v] = Cardinality(below(v)) + 1 /\ Cardinality(below(v)) \in Nat
      BY <1>2
    <3> HIDE DEF rank, below
    <3> QED
      BY <1>1, <3>1
  <2>3. \E v \in S : Cardinality(below(v)) = i - 1
    BY <1>6, <2>2
  <2> HIDE DEF below
  <2>4. Ascending(S)[i] \in S /\ Cardinality(below(Ascending(S)[i])) = i - 1
    BY <2>1, <2>3, Zenon
  <2> HIDE DEF rank
  <2> QED
    BY <2>2, <2>4
<1>8. ASSUME NEW v \in S
      PROVE  Ascending(S)[rank[v]] = v
  BY <1>2, <1>5, <1>7
<1> HIDE DEF rank
<1>9. Ascending(S) \in [1 .. n -> S]
  <2> DEFINE pick(i) == CHOOSE v \in S : Cardinality(below(v)) = i - 1
  <2>1. Ascending(S) = [i \in 1 .. n |-> pick(i)]
    BY DEF Ascending
  <2> HIDE DEF pick
  <2> QED
    BY <1>7, <2>1
<1> QED
  BY <1>1, <1>2, <1>8, <1>9

\* The values of a column are finitely many.
LEMMA ColumnIsFinite ==
  ASSUME NEW map, IsFiniteSet(DOMAIN map), NEW c
  PROVE  IsFiniteSet(Column(map, c))
<1> DEFINE f == [key \in DOMAIN map |-> key[c]]
<1>1. f \in Surjection(DOMAIN map, Column(map, c))
  BY DEF Surjection, Column
<1> QED
  BY <1>1, FS_Surjection

\* The keys of a file are finitely many.
LEMMA KeysAreFinite ==
  ASSUME NEW f, NEW n \in Nat, DOMAIN f.rows = 1 .. n
  PROVE  IsFiniteSet(KeysOf(f))
<1> DEFINE g == [i \in 1 .. n |-> f.rows[i][1]]
<1>1. g \in Surjection(1 .. n, KeysOf(f))
  BY DEF Surjection, KeysOf
<1>2. IsFiniteSet(1 .. n)
  BY FS_Interval
<1> QED
  BY <1>1, <1>2, FS_Surjection

-----------------------------------------------------------------------------
(***************************************************************************)
(* The three folds: the rows of a file into a map, the slots that decrypt  *)
(* keeps, and the sum of the selected rows.                                *)
(***************************************************************************)
\* "loaded" is "map" and the rows of "file", of those with one key the first.
AddsFirstRows(loaded, map, file) ==
  /\ DOMAIN loaded = DOMAIN map \cup KeysOf(file)
  /\ \A key \in DOMAIN map : loaded[key] = map[key]
  /\ \A key \in KeysOf(file) \ DOMAIN map : \E i \in DOMAIN file.rows :
       /\ file.rows[i][1] = key /\ loaded[key] = file.rows[i][2]
       /\ \A j \in DOMAIN file.rows : file.rows[j][1] = key => i <= j

\* load_from_file.  A key the map has keeps its value; of the rows with a
\* new key, the first one counts.
LEMMA FirstRowWins ==
  ASSUME NEW map, NEW file, NEW n \in Nat, DOMAIN file.rows = 1 .. n
  PROVE  AddsFirstRows(load_from_file(map, file), map, file)
<1> DEFINE D == 1 .. n
           rows == file.rows
           First(t, key, i) == rows[i][1] = key /\ \A j \in t : rows[j][1] = key => i <= j
           body(g, t) ==
             IF t = {} THEN map
             ELSE LET x == Max(t) IN emplace(g[t \ {x}], rows[x])
           iter == CHOOSE g : g = [t \in SUBSET D |-> body(g, t)]
           keys(t) == DOMAIN map \cup {rows[i][1] : i \in t}
           first(t) == [key \in keys(t) |->
                          IF key \in DOMAIN map THEN map[key]
                          ELSE rows[CHOOSE i \in t : First(t, key, i)][2]]
           loaded == [t \in SUBSET D |-> IF t = {} THEN map ELSE first(t)]
<1>1. load_from_file(map, file) = iter[D]
  BY DEF load_from_file, FoldLeft, MapThenFoldSet
<1>2. ASSUME NEW t \in SUBSET D, NEW key, \E i \in t : rows[i][1] = key
      PROVE  \E i \in t : First(t, key, i)
  <2> DEFINE T == {i \in t : rows[i][1] = key}
  <2>1. t \subseteq Nat /\ T \subseteq t
    OBVIOUS
  <2>2. T # {}
    BY <1>2
  <2> HIDE DEF T
  <2>3. PICK i \in T : \A j \in T : i <= j
    BY <2>1, <2>2, LeastNatural
  <2> QED
    BY <2>3 DEF T
<1>3. ASSUME NEW t \in SUBSET D
      PROVE  DOMAIN loaded[t] = keys(t)
  BY Zenon
<1>4. ASSUME NEW t \in SUBSET D, NEW key \in DOMAIN map
      PROVE  loaded[t][key] = map[key]
  BY Zenon
<1>5. ASSUME NEW t \in SUBSET D, NEW i \in t, First(t, rows[i][1], i), rows[i][1] \notin DOMAIN map
      PROVE  loaded[t][rows[i][1]] = rows[i][2]
  <2> DEFINE key == rows[i][1]
  <2>1. PICK j \in t : j = CHOOSE k \in t : First(t, key, k)
    BY <1>5
  <2>2. First(t, key, j)
    BY <1>5, <2>1, Zenon
  <2>3. i <= j /\ j <= i
    BY <1>5, <2>2
  <2>4. i = j
    <3>1. \A k \in D : k \in Int
      OBVIOUS
    <3>2. i \in D /\ j \in D
      BY Zenon
    <3> QED
      BY <2>3, <3>1, <3>2
  <2>5. loaded[t] = first(t) /\ key \in keys(t)
    BY Zenon
  <2>6. first(t)[key] = rows[j][2]
    BY <1>5, <2>1, <2>5
  <2> QED
    BY <2>4, <2>5, <2>6
<1>6. loaded = [t \in SUBSET D |-> body(loaded, t)]
  <2>1. ASSUME NEW t \in SUBSET D, t # {}
        PROVE  loaded[t] = body(loaded, t)
    <3>1. PICK x \in t : x = Max(t) /\ \A i \in t : i <= x
      BY <2>1, MaxOfPositions
    <3> DEFINE u == t \ {x}
               old == loaded[u]
               new == emplace(old, rows[x])
    <3>2. body(loaded, t) = new
      BY <2>1, <3>1
    <3>3. new = [key \in DOMAIN old \cup {rows[x][1]} |->
                   IF key \in DOMAIN old THEN old[key] ELSE rows[x][2]]
      BY DEF emplace
    <3>4. DOMAIN old = keys(u) /\ keys(t) = keys(u) \cup {rows[x][1]}
      BY <1>3
    <3>5. loaded[t] = first(t)
      BY <2>1
    <3> HIDE DEF old, new, loaded
    <3>6. ASSUME NEW key \in keys(t)
          PROVE  loaded[t][key] = new[key]
      <4>1. CASE key \in DOMAIN map
        <5>1. loaded[t][key] = map[key] /\ old[key] = map[key]
          BY <1>4, <4>1 DEF old
        <5> QED
          BY <3>3, <3>4, <4>1, <5>1
      <4>2. CASE key \notin DOMAIN map /\ key \in keys(u)
        <5>1. PICK i \in u : First(u, key, i)
          <6>1. u \in SUBSET D /\ \E i \in u : rows[i][1] = key
            BY <4>2
          <6> QED
            BY <1>2, <6>1
        <5>2. First(t, key, i)
          BY <3>1, <5>1
        <5>3. loaded[t][key] = rows[i][2] /\ old[key] = rows[i][2]
          BY <1>5, <4>2, <5>1, <5>2 DEF old
        <5> QED
          BY <3>3, <3>4, <4>2, <5>3
      <4>3. CASE key \notin keys(u)
        <5>1. key = rows[x][1] /\ key \notin DOMAIN map
          BY <3>4, <4>3
        <5>2. First(t, key, x)
          BY <4>3, <5>1
        <5>3. loaded[t][key] = rows[x][2]
          BY <1>5, <5>1, <5>2
        <5> QED
          BY <3>3, <3>4, <4>3, <5>1, <5>3
      <4> QED
        BY <4>1, <4>2, <4>3
    <3>7. new = [key \in keys(t) |-> new[key]]
      BY <3>3, <3>4, Zenon
    <3>8. loaded[t] = [key \in keys(t) |-> loaded[t][key]]
      BY <3>5, Zenon
    <3>9. [key \in keys(t) |-> new[key]] = [key \in keys(t) |-> loaded[t][key]]
      BY <3>6, Zenon
    <3>10. loaded[t] = new
      BY <3>7, <3>8, <3>9, Zenon
    <3> QED
      BY <3>2, <3>10
  <2> QED
    BY <2>1
<1>7. iter = [t \in SUBSET D |-> body(iter, t)]
  BY <1>6
<1>8. ASSUME NEW t \in SUBSET D, \A u \in SUBSET t : u # t => iter[u] = loaded[u]
      PROVE  iter[t] = loaded[t]
  <2>1. iter[t] = body(iter, t) /\ loaded[t] = body(loaded, t)
    BY <1>6, <1>7, Zenon
  <2>2. CASE t = {}
    BY <2>1, <2>2, Zenon
  <2>3. CASE t # {}
    <3>1. PICK x \in t : x = Max(t)
      BY <2>3, MaxOfPositions
    <3>2. iter[t \ {x}] = loaded[t \ {x}]
      BY <1>8
    <3> HIDE DEF iter, loaded
    <3> QED
      BY <2>1, <2>3, <3>1, <3>2
  <2> QED
    BY <2>2, <2>3
<1> HIDE DEF iter, loaded
<1>9. \A t \in SUBSET D : iter[t] = loaded[t]
  <2> DEFINE C == {t \in SUBSET D : iter[t] # loaded[t]}
  <2>1. SUFFICES ASSUME C # {} PROVE FALSE
    OBVIOUS
  <2>2. C \subseteq SUBSET D /\ IsFiniteSet(D)
    BY FS_Interval
  <2> HIDE DEF C
  <2>3. PICK t \in C : \A u \in SUBSET t : u # t => u \notin C
    BY <2>1, <2>2, LeastSubset
  <2> QED
    BY <1>8, <2>3 DEF C
<1>10. load_from_file(map, file) = loaded[D]
  BY <1>1, <1>9
<1>11. keys(D) = DOMAIN map \cup KeysOf(file)
  BY DEF KeysOf
<1>12. ASSUME NEW key \in KeysOf(file) \ DOMAIN map
       PROVE  \E i \in D : First(D, key, i) /\ loaded[D][key] = rows[i][2]
  <2>1. D \in SUBSET D /\ \E i \in D : rows[i][1] = key
    BY DEF KeysOf
  <2>2. PICK i \in D : First(D, key, i)
    BY <1>2, <2>1
  <2> QED
    BY <1>5, <2>2
<1> QED
  BY <1>3, <1>4, <1>10, <1>11, <1>12 DEF AddsFirstRows

\* decrypt, when all the slots but one are zero: their values are dropped.
LEMMA KeepOfOne ==
  ASSUME NEW n \in Nat, NEW seq, DOMAIN seq = 1 .. n, NEW e \in 1 .. n,
         \A i \in (1 .. n) \ {e} : seq[i] = 0
  PROVE  FoldLeft(Keep, <<>>, seq) = IF seq[e] = 0 THEN <<>> ELSE <<seq[e]>>
<1> DEFINE D == 1 .. n
           body(g, t) ==
             IF t = {} THEN <<>>
             ELSE LET x == Max(t) IN Keep(g[t \ {x}], seq[x])
           iter == CHOOSE g : g = [t \in SUBSET D |-> body(g, t)]
           kept == [t \in SUBSET D |-> IF e \in t /\ seq[e] # 0 THEN <<seq[e]>> ELSE <<>>]
<1>1. FoldLeft(Keep, <<>>, seq) = iter[D]
  BY DEF FoldLeft, MapThenFoldSet
<1>2. kept = [t \in SUBSET D |-> body(kept, t)]
  <2>1. ASSUME NEW t \in SUBSET D, t # {}
        PROVE  kept[t] = body(kept, t)
    <3>1. PICK x \in t : x = Max(t)
      BY <2>1, MaxOfPositions
    <3>2. body(kept, t) = Keep(kept[t \ {x}], seq[x])
      BY <2>1, <3>1
    <3>3. CASE x = e
      <4>1. kept[t \ {x}] = <<>>
        BY <3>3
      <4>2. Keep(<<>>, seq[e]) = IF seq[e] = 0 THEN <<>> ELSE <<seq[e]>>
        BY DEF Keep
      <4> QED
        BY <3>2, <3>3, <4>1, <4>2
    <3>4. CASE x # e
      <4>1. seq[x] = 0 /\ kept[t \ {x}] = kept[t]
        BY <3>4
      <4> QED
        BY <3>2, <4>1 DEF Keep
    <3> QED
      BY <3>3, <3>4
  <2> QED
    BY <2>1
<1>3. iter = [t \in SUBSET D |-> body(iter, t)]
  BY <1>2
<1>4. ASSUME NEW t \in SUBSET D, \A u \in SUBSET t : u # t => iter[u] = kept[u]
      PROVE  iter[t] = kept[t]
  <2>1. iter[t] = body(iter, t) /\ kept[t] = body(kept, t)
    BY <1>2, <1>3, Zenon
  <2>2. CASE t = {}
    BY <2>1, <2>2, Zenon
  <2>3. CASE t # {}
    <3>1. PICK x \in t : x = Max(t)
      BY <2>3, MaxOfPositions
    <3>2. iter[t \ {x}] = kept[t \ {x}]
      BY <1>4
    <3> HIDE DEF iter, kept
    <3> QED
      BY <2>1, <2>3, <3>1, <3>2
  <2> QED
    BY <2>2, <2>3
<1> HIDE DEF iter, kept
<1>5. \A t \in SUBSET D : iter[t] = kept[t]
  <2> DEFINE C == {t \in SUBSET D : iter[t] # kept[t]}
  <2>1. SUFFICES ASSUME C # {} PROVE FALSE
    OBVIOUS
  <2>2. C \subseteq SUBSET D /\ IsFiniteSet(D)
    BY FS_Interval
  <2> HIDE DEF C
  <2>3. PICK t \in C : \A u \in SUBSET t : u # t => u \notin C
    BY <2>1, <2>2, LeastSubset
  <2> QED
    BY <1>4, <2>3 DEF C
<1> QED
  BY <1>1, <1>5 DEF kept

\* Sum, when all the rows but one are zero in a slot.  The fold is the only
\* function with its recursion, and so is the one written out here.
LEMMA SumOfOne ==
  ASSUME NEW rows, IsFiniteSet(DOMAIN rows), NEW e \in DOMAIN rows, NEW s \in Slot,
         NEW v \in 0 .. Modulus - 1, v = rows[e][s],
         \A i \in DOMAIN rows : i # e => rows[i][s] = 0
  PROVE  Sum(rows)[s] = v
<1> DEFINE D == DOMAIN rows
           body(g, t) ==
             IF t = {} THEN 0
             ELSE LET x == CHOOSE x \in t : TRUE IN (rows[x][s] + g[t \ {x}]) % Modulus
           iter == CHOOSE g : g = [t \in SUBSET D |-> body(g, t)]
           sum == [t \in SUBSET D |-> IF e \in t THEN rows[e][s] ELSE 0]
<1>1. Sum(rows)[s] = iter[D]
  BY DEF Sum, FoldFunction, FoldFunctionOnSet, MapThenFoldSet
<1>2. sum = [t \in SUBSET D |-> body(sum, t)]
  <2>1. ASSUME NEW t \in SUBSET D, t # {}
        PROVE  sum[t] = body(sum, t)
    <3>1. PICK x \in t : x = CHOOSE y \in t : TRUE
      BY <2>1
    <3>2. body(sum, t) = (rows[x][s] + sum[t \ {x}]) % Modulus
      BY <2>1, <3>1
    <3>3. \A n \in 0 .. Modulus - 1 : (n + 0) % Modulus = n /\ (0 + n) % Modulus = n
      BY SlotAssumption
    <3>4. CASE x = e
      BY <3>2, <3>3, <3>4
    <3>5. CASE x # e
      <4>1. rows[x][s] = 0 /\ sum[t \ {x}] = sum[t] /\ sum[t] \in 0 .. Modulus - 1
        BY <3>5, SlotAssumption
      <4> QED
        BY <3>2, <3>3, <4>1
    <3> QED
      BY <3>4, <3>5
  <2> QED
    BY <2>1
<1>3. iter = [t \in SUBSET D |-> body(iter, t)]
  BY <1>2
<1>4. ASSUME NEW t \in SUBSET D, \A u \in SUBSET t : u # t => iter[u] = sum[u]
      PROVE  iter[t] = sum[t]
  <2>1. iter[t] = body(iter, t) /\ sum[t] = body(sum, t)
    BY <1>2, <1>3, Zenon
  <2>2. CASE t = {}
    BY <2>1, <2>2, Zenon
  <2>3. CASE t # {}
    <3>1. PICK x \in t : x = CHOOSE y \in t : TRUE
      BY <2>3
    <3>2. iter[t \ {x}] = sum[t \ {x}]
      BY <1>4
    <3> HIDE DEF iter, sum
    <3> QED
      BY <2>1, <2>3, <3>1, <3>2
  <2> QED
    BY <2>2, <2>3
<1> HIDE DEF iter, sum
<1>5. \A t \in SUBSET D : iter[t] = sum[t]
  <2> DEFINE C == {t \in SUBSET D : iter[t] # sum[t]}
  <2>1. SUFFICES ASSUME C # {} PROVE FALSE
    OBVIOUS
  <2>2. C \subseteq SUBSET D
    OBVIOUS
  <2> HIDE DEF C
  <2>3. PICK t \in C : \A u \in SUBSET t : u # t => u \notin C
    BY <2>1, <2>2, LeastSubset
  <2> QED
    BY <1>4, <2>3 DEF C
<1> QED
  BY <1>1, <1>5 DEF sum

-----------------------------------------------------------------------------
(***************************************************************************)
(* Places and values.                                                      *)
(***************************************************************************)
\* How the code splits the place of an entry into its row and its slot.
LEMMA DivMod ==
  ASSUME NEW n \in Nat \ {0}, NEW e \in Int
  PROVE  /\ e \div n \in Int /\ e % n \in 0 .. n - 1
         /\ e = (e \div n) * n + (e % n)
OBVIOUS

\* A factor preserves the order.
LEMMA ProductOrder ==
  ASSUME NEW n \in Nat \ {0}, NEW a \in Int, NEW b \in Int, a <= b
  PROVE  a * n <= b * n
OBVIOUS

\* The row and the slot determine the place, and the other way round.
LEMMA DivModUnique ==
  ASSUME NEW n \in Nat \ {0}, NEW q \in Int, NEW r \in 0 .. n - 1
  PROVE  (q * n + r) \div n = q /\ (q * n + r) % n = r
<1> DEFINE e == q * n + r
<1>1. PICK p \in Int, t \in 0 .. n - 1 : p = e \div n /\ t = e % n /\ e = p * n + t
  BY DivMod
<1>2. CASE p < q
  <2>1. (p + 1) * n <= q * n
    BY <1>2, ProductOrder
  <2>2. (p + 1) * n = p * n + n
    OBVIOUS
  <2> QED
    BY <1>1, <2>1, <2>2
<1>3. CASE q < p
  <2>1. (q + 1) * n <= p * n
    BY <1>3, ProductOrder
  <2>2. (q + 1) * n = q * n + n
    OBVIOUS
  <2> QED
    BY <1>1, <2>1, <2>2
<1> QED
  BY <1>1, <1>2, <1>3

\* A place among k rows is in one of them.
LEMMA DivBound ==
  ASSUME NEW n \in Nat \ {0}, NEW k \in Nat, NEW e \in 0 .. k * n - 1
  PROVE  e \div n \in 0 .. k - 1
<1>1. PICK q \in Int, r \in 0 .. n - 1 : q = e \div n /\ e = q * n + r
  BY DivMod
<1>2. CASE q < 0
  <2>1. q * n <= (-1) * n
    BY <1>2, ProductOrder
  <2> QED
    BY <1>1, <2>1
<1>3. CASE k <= q
  <2>1. k * n <= q * n
    BY <1>3, ProductOrder
  <2> QED
    BY <1>1, <2>1
<1> QED
  BY <1>1, <1>2, <1>3

\* A value comes back from its slot as it was, a negative one too.
LEMMA EncodedValue ==
  ASSUME NEW x \in Value
  PROVE  /\ x % Modulus \in 0 .. Modulus - 1
         /\ x % Modulus = IF x >= 0 THEN x ELSE x + Modulus
         /\ decode(x % Modulus) = x
<1>1. Modulus \in Nat \ {0} /\ x \in Int /\ x < Modulus /\ -Modulus < x
  BY SlotAssumption DEF Value
<1>2. CASE x >= 0
  <2>1. (0 * Modulus + x) % Modulus = x
    BY <1>1, <1>2, DivModUnique
  <2>2. 0 * Modulus + x = x
    BY <1>1
  <2> QED
    BY <1>1, <1>2, <2>1, <2>2 DEF Value, decode
<1>3. CASE x < 0
  <2>1. ((-1) * Modulus + (x + Modulus)) % Modulus = x + Modulus
    BY <1>1, <1>3, DivModUnique
  <2>2. (-1) * Modulus + (x + Modulus) = x
    BY <1>1
  <2> QED
    BY <1>1, <1>3, <2>1, <2>2 DEF Value, decode
<1> QED
  BY <1>1, <1>2, <1>3

\* Different values leave a difference in the slot.
LEMMA SameSlotSameValue ==
  ASSUME NEW x \in Value, NEW y \in Value
  PROVE  /\ ((x % Modulus) - y) % Modulus \in 0 .. Modulus - 1
         /\ ((x % Modulus) - y) % Modulus = 0 <=> x = y
<1> DEFINE d == (x % Modulus) - y
<1>1. /\ Modulus \in Nat \ {0} /\ x \in Int /\ y \in Int
      /\ x - y < Modulus /\ -Modulus < x - y
  BY SlotAssumption DEF Value
<1>2. d = x - y \/ d = x - y + Modulus
  BY <1>1, EncodedValue
<1>3. PICK q \in Int, r \in 0 .. Modulus - 1 : r = d % Modulus /\ d = q * Modulus + r
  <2>1. d \in Int
    BY <1>1, <1>2
  <2> QED
    BY <1>1, <2>1, DivMod
<1>4. ASSUME x = y PROVE r = 0
  <2>1. d = 0 * Modulus + 0 \/ d = 1 * Modulus + 0
    BY <1>1, <1>2, <1>4
  <2>2. d % Modulus = 0
    BY <1>1, <2>1, DivModUnique
  <2> QED
    BY <1>3, <2>2
<1>5. ASSUME r = 0 PROVE x = y
  <2>1. CASE q <= -1
    <3>1. q * Modulus <= (-1) * Modulus
      BY <1>1, <2>1, ProductOrder
    <3> QED
      BY <1>1, <1>2, <1>3, <1>5, <3>1
  <2>2. CASE q = 0
    <3>1. d = 0 * Modulus + 0
      BY <1>3, <1>5, <2>2
    <3> QED
      BY <1>1, <1>2, <3>1
  <2>3. CASE q = 1
    <3>1. d = Modulus
      BY <1>1, <1>3, <1>5, <2>3
    <3> QED
      BY <1>1, <1>2, <3>1
  <2>4. CASE q >= 2
    <3>1. 2 * Modulus <= q * Modulus
      BY <1>1, <2>4, ProductOrder
    <3> QED
      BY <1>1, <1>2, <1>3, <1>5, <3>1
  <2> QED
    BY <2>1, <2>2, <2>3, <2>4
<1> QED
  BY <1>3, <1>4, <1>5

\* The tables, counted in rows.
LEMMA Sizes ==
  /\ RowSize \in Nat \ {0} /\ Modulus \in Nat \ {0}
  /\ k_one \in 1 .. RowSize /\ NumOne = k_one * RowSize /\ NumOne \in Nat \ {0}
  /\ k_two \in Nat \ {0} /\ NumTwo = k_two * RowSize /\ NumTwo \in Nat \ {0}
  /\ ks = NumTwo * k_two /\ ks \in Nat \ {0} /\ ks <= RowSize * RowSize
<1>1. RowSize \in Nat \ {0} /\ Modulus \in Nat \ {0}
  BY SlotAssumption
<1>2. ASSUME NEW n \in {NumOne, NumTwo}
      PROVE  /\ n \in Nat \ {0} /\ n \div RowSize \in Nat \ {0}
             /\ n = (n \div RowSize) * RowSize
  <2>1. n \in Nat \ {0} /\ n % RowSize = 0
    BY PIRAssumption
  <2>2. PICK k \in Int : k = n \div RowSize /\ n = k * RowSize
    BY <1>1, <2>1, DivMod
  <2>3. k > 0
    <3>1. SUFFICES ASSUME k <= 0 PROVE FALSE
      OBVIOUS
    <3>2. k * RowSize <= 0 * RowSize
      BY <1>1, <3>1, ProductOrder
    <3> QED
      BY <1>1, <2>1, <2>2, <3>2
  <2> QED
    BY <2>1, <2>2, <2>3
<1>3. k_one <= RowSize /\ ks <= RowSize * RowSize
  BY PIRAssumption
<1>4. /\ k_one \in Nat \ {0} /\ NumOne = k_one * RowSize /\ NumOne \in Nat \ {0}
      /\ k_two \in Nat \ {0} /\ NumTwo = k_two * RowSize /\ NumTwo \in Nat \ {0}
  BY <1>2 DEF k_one, k_two
<1>5. ks = NumTwo * k_two /\ ks \in Nat \ {0}
  <2>1. NumTwo * NumTwo = (NumTwo * k_two) * RowSize + 0
    <3>1. \A n, k, r \in Nat : n * (k * r) = (n * k) * r + 0
      OBVIOUS
    <3> QED
      BY <1>1, <1>4, <3>1
  <2>2. NumTwo * k_two \in Nat \ {0}
    <3>1. \A n, k \in Nat \ {0} : n * k \in Nat \ {0}
      OBVIOUS
    <3> QED
      BY <1>4, <3>1
  <2>3. PICK q \in Nat \ {0} : q = NumTwo * k_two
    BY <2>2
  <2>4. 0 \in 0 .. RowSize - 1
    BY <1>1
  <2>5. (q * RowSize + 0) \div RowSize = q
    BY <1>1, <2>4, DivModUnique
  <2> QED
    BY <2>1, <2>3, <2>5 DEF ks
<1> QED
  BY <1>1, <1>3, <1>4, <1>5

\* Entry e of a column of n entries is in row e \div RowSize, slot e % RowSize.
LEMMA EntryPlace ==
  ASSUME NEW k \in Nat \ {0}, NEW e \in 0 .. k * RowSize - 1
  PROVE  /\ e \div RowSize \in 0 .. k - 1 /\ e % RowSize \in Slot
         /\ (e \div RowSize) * RowSize + (e % RowSize) = e
<1>1. RowSize \in Nat \ {0} /\ k * RowSize \in Int
  BY SlotAssumption
<1>2. e \in Int
  BY <1>1
<1> QED
  BY <1>1, <1>2, DivMod, DivBound DEF Slot

\* The place of the entry of two inputs in the table of their combinations.
LEMMA TwoPlace ==
  ASSUME NEW x \in 0 .. NumTwo - 1, NEW y \in 0 .. NumTwo - 1
  PROVE  LET index == x * k_two + (y \div RowSize) IN
         /\ index \in 0 .. ks - 1 /\ index % RowSize \in Slot /\ index \div RowSize \in Slot
         /\ y % RowSize \in Slot
         /\ index * RowSize + (y % RowSize) = x * NumTwo + y
<1> DEFINE r == y \div RowSize
           s == y % RowSize
           index == x * k_two + r
<1>1. /\ RowSize \in Nat \ {0} /\ k_two \in Nat \ {0} /\ NumTwo \in Nat \ {0}
      /\ NumTwo = k_two * RowSize /\ ks = NumTwo * k_two /\ ks \in Nat
      /\ ks <= RowSize * RowSize
  BY Sizes
<1>2. r \in 0 .. k_two - 1 /\ s \in Slot /\ r * RowSize + s = y
  BY <1>1, EntryPlace
<1>3. x \in Nat /\ x <= NumTwo - 1 /\ y \in Nat
  BY <1>1
<1> HIDE DEF r, s
<1>4. index \in 0 .. ks - 1
  <2>1. x * k_two <= (NumTwo - 1) * k_two
    BY <1>1, <1>3, ProductOrder
  <2>2. \A n, k \in Nat : (n - 1) * k = n * k - k
    OBVIOUS
  <2>3. (NumTwo - 1) * k_two = ks - k_two
    BY <1>1, <2>2
  <2>4. \A n, k \in Nat : n * k \in Nat
    OBVIOUS
  <2>5. x * k_two \in Nat
    BY <1>1, <1>3, <2>4
  <2> QED
    BY <1>1, <1>2, <2>1, <2>3, <2>5
<1>5. index * RowSize + s = x * NumTwo + y
  <2>1. \A a, k, n, b \in Nat : (a * k + b) * n = a * (k * n) + b * n
    OBVIOUS
  <2>2. index * RowSize = x * (k_two * RowSize) + r * RowSize
    BY <1>1, <1>2, <1>3, <2>1
  <2>3. r * RowSize \in Int /\ s \in Int /\ x * NumTwo \in Int
    BY <1>1, <1>2, <1>3 DEF Slot
  <2> QED
    BY <1>1, <1>2, <2>2, <2>3
<1>6. index \in Int /\ index \in 0 .. RowSize * RowSize - 1
  <2>1. RowSize * RowSize \in Int
    BY <1>1
  <2> QED
    BY <1>1, <1>4, <2>1
<1> HIDE DEF index
<1>7. index % RowSize \in Slot
  BY <1>1, <1>6, DivMod DEF Slot
<1>8. index \div RowSize \in Slot
  BY <1>1, <1>6, DivBound DEF Slot
<1> QED
  BY <1>2, <1>4, <1>5, <1>7, <1>8 DEF index, r, s

\* The place of a combination of two inputs in the outputs.
LEMMA CombinationPlace ==
  ASSUME NEW x \in 0 .. NumTwo - 1, NEW y \in 0 .. NumTwo - 1
  PROVE  /\ x * NumTwo + y \in 0 .. NumTwo * NumTwo - 1
         /\ (x * NumTwo + y) \div NumTwo = x /\ (x * NumTwo + y) % NumTwo = y
<1>1. NumTwo \in Nat \ {0} /\ x \in Int /\ y \in Int /\ NumTwo - 1 \in Int
  BY Sizes
<1>2. x * NumTwo <= (NumTwo - 1) * NumTwo
  BY <1>1, ProductOrder
<1>3. \A n, k \in Nat : n * k \in Nat /\ (n - 1) * k = n * k - k
  OBVIOUS
<1>4. /\ x * NumTwo \in Nat /\ NumTwo * NumTwo \in Nat
      /\ (NumTwo - 1) * NumTwo = NumTwo * NumTwo - NumTwo
  BY <1>1, <1>3
<1>5. x * NumTwo + y \in 0 .. NumTwo * NumTwo - 1
  BY <1>1, <1>2, <1>4
<1> QED
  BY <1>1, <1>5, DivModUnique

-----------------------------------------------------------------------------
(***************************************************************************)
(* Why the unit vectors of the Decryptor select one row of the table.      *)
(***************************************************************************)
\* Shifting a unit vector to the left moves its one, around the end.
LEMMA ShiftUnit ==
  ASSUME NEW j \in Slot, NEW d \in Slot
  PROVE  shift_work(Unit(j), d) = Unit(IF j >= d THEN j - d ELSE j - d + RowSize)
<1> DEFINE n == IF j >= d THEN j - d ELSE j - d + RowSize
           from(s) == IF s + d >= RowSize THEN s + d - RowSize ELSE s + d
<1>1. \A s \in Slot : from(s) \in Slot /\ (from(s) = j <=> s = n)
  BY SlotAssumption DEF Slot
<1>2. \A s \in Slot : Unit(j)[from(s)] = IF s = n THEN 1 ELSE 0
  BY <1>1, Zenon DEF Unit
<1>3. shift_work(Unit(j), d) = [s \in Slot |-> Unit(j)[from(s)]]
  BY DEF shift_work
<1> QED
  BY <1>2, <1>3, Zenon DEF Unit

\* Rotating it to the right moves the one back.
LEMMA RotateUnit ==
  ASSUME NEW j \in Slot, NEW d \in Slot
  PROVE  rotate_rows(Unit(j), d) =
           Unit(IF j + d >= RowSize THEN j + d - RowSize ELSE j + d)
<1> DEFINE n == IF j + d >= RowSize THEN j + d - RowSize ELSE j + d
           from(s) == IF s >= d THEN s - d ELSE s - d + RowSize
<1>1. \A s \in Slot : from(s) \in Slot /\ (from(s) = j <=> s = n)
  BY SlotAssumption DEF Slot
<1>2. \A s \in Slot : Unit(j)[from(s)] = IF s = n THEN 1 ELSE 0
  BY <1>1, Zenon DEF Unit
<1>3. rotate_rows(Unit(j), d) = [s \in Slot |-> Unit(j)[from(s)]]
  BY DEF rotate_rows
<1> QED
  BY <1>2, <1>3, Zenon DEF Unit

\* The product of two unit vectors is zero unless they are the same one.
LEMMA UnitProduct ==
  ASSUME NEW i \in Slot, NEW j \in Slot
  PROVE  multiply(Unit(i), Unit(j)) = IF i = j THEN Unit(j) ELSE Zero
<1>1. 0 % Modulus = 0 /\ 1 % Modulus = 1
  BY SlotAssumption
<1>2. \A s \in Slot : Unit(i)[s] * Unit(j)[s] = IF s = i /\ s = j THEN 1 ELSE 0
  BY DEF Unit
<1>3. multiply(Unit(i), Unit(j)) = [s \in Slot |-> IF s = i /\ s = j THEN 1 ELSE 0]
  BY <1>1, <1>2, Zenon DEF multiply
<1> QED
  BY <1>3 DEF Unit, Zero

\* The product of a zero vector is zero, and so is its rotation.
LEMMA ZeroAbsorbs ==
  ASSUME NEW j \in Slot, NEW d \in Slot
  PROVE  /\ rotate_rows(Zero, d) = Zero
         /\ multiply(Zero, Unit(j)) = Zero
<1>1. rotate_rows(Zero, d) = Zero
  BY SlotAssumption DEF rotate_rows, Zero, Slot
<1>2. 0 % Modulus = 0
  BY SlotAssumption
<1>3. \A s \in Slot : Zero[s] * Unit(j)[s] = 0
  BY DEF Zero, Unit
<1>4. multiply(Zero, Unit(j)) = [s \in Slot |-> 0]
  BY <1>2, <1>3, Zenon DEF multiply
<1> QED
  BY <1>1, <1>4 DEF Zero

\* Rotating right undoes the shift only when the distances agree.
LEMMA RotateShifted ==
  ASSUME NEW j \in Slot, NEW d \in Slot, NEW i \in Slot
  PROVE  \E m \in Slot : /\ rotate_rows(shift_work(Unit(j), d), i) = Unit(m)
                         /\ m = j <=> i = d
<1> DEFINE n == IF j >= d THEN j - d ELSE j - d + RowSize
           m == IF n + i >= RowSize THEN n + i - RowSize ELSE n + i
<1>1. n \in Slot /\ m \in Slot
  BY SlotAssumption DEF Slot
<1>2. shift_work(Unit(j), d) = Unit(n)
  BY ShiftUnit
<1>3. rotate_rows(Unit(n), i) = Unit(m)
  BY <1>1, RotateUnit
<1>4. m = j <=> i = d
  BY SlotAssumption DEF Slot
<1> QED
  BY <1>1, <1>2, <1>3, <1>4

\* One input.  With the queries for an entry in row "index" and slot j, what
\* computeBforOneInput multiplies row i by is the unit vector of slot j for
\* i = index and zero for every other row.
THEOREM OneInputSelectsItsRow ==
  ASSUME NEW j \in Slot, NEW index \in Slot, NEW i \in Slot
  PROVE  multiply(rotate_rows(shift_work(Unit(j), index), i), Unit(j)) =
           IF i = index THEN Unit(j) ELSE Zero
<1>1. PICK m \in Slot : /\ rotate_rows(shift_work(Unit(j), index), i) = Unit(m)
                        /\ m = j <=> i = index
  BY RotateShifted
<1> QED
  BY <1>1, UnitProduct

\* Two inputs.  What computeBforTwoInput multiplies row RowSize * s + t by is
\* the unit vector of slot j for the row the Decryptor's queries name, that
\* is s = index2 and t = index1, and zero for every other row.
THEOREM TwoInputSelectsItsRow ==
  ASSUME NEW j \in Slot, NEW index1 \in Slot, NEW index2 \in Slot,
         NEW s \in Slot, NEW t \in Slot
  PROVE  LET q0 == Unit(j)
             q1 == shift_work(q0, index1)
             q2 == shift_work(q1, index2)
         IN multiply(rotate_rows(multiply(rotate_rows(q2, s), q1), t), q0) =
              IF s = index2 /\ t = index1 THEN Unit(j) ELSE Zero
<1> DEFINE q0 == Unit(j)
           q1 == shift_work(q0, index1)
           q2 == shift_work(q1, index2)
           n == IF j >= index1 THEN j - index1 ELSE j - index1 + RowSize
<1>1. n \in Slot /\ q1 = Unit(n)
  <2>1. n \in Slot
    BY SlotAssumption DEF Slot
  <2> QED
    BY <2>1, ShiftUnit
<1>2. multiply(rotate_rows(q2, s), q1) = IF s = index2 THEN q1 ELSE Zero
  BY <1>1, OneInputSelectsItsRow
<1>3. CASE s = index2
  <2>1. multiply(rotate_rows(q1, t), q0) = IF t = index1 THEN Unit(j) ELSE Zero
    BY OneInputSelectsItsRow
  <2> QED
    BY <1>2, <1>3, <2>1
<1>4. CASE s # index2
  <2>1. multiply(rotate_rows(Zero, t), q0) = Zero
    BY ZeroAbsorbs
  <2> QED
    BY <1>2, <1>4, <2>1
<1> QED
  BY <1>3, <1>4

\* The sum of rows each multiplied by a selector, all of them zero but the
\* unit vector of one row: one slot of that row.
LEMMA SelectedSum ==
  ASSUME NEW products, IsFiniteSet(DOMAIN products),
         NEW rows \in [DOMAIN products -> [Slot -> Int]],
         NEW index \in DOMAIN products, NEW j \in Slot, NEW s \in Slot,
         products[index] = multiply(Unit(j), rows[index]),
         \A i \in DOMAIN products : i # index => products[i] = multiply(Zero, rows[i])
  PROVE  /\ s = j => Sum(products)[s] = rows[index][s] % Modulus
         /\ s # j => Sum(products)[s] = 0
<1> DEFINE D == DOMAIN products
<1>1. Modulus \in Nat \ {0} /\ 0 % Modulus = 0
  <2>1. Modulus \in Nat \ {0} /\ 0 \in 0 .. Modulus - 1 /\ 0 * Modulus + 0 = 0
    BY SlotAssumption
  <2> QED
    BY <2>1, DivModUnique
<1>2. ASSUME NEW i \in D \ {index}
      PROVE  products[i][s] = 0
  <2>1. products[i][s] = (Zero[s] * rows[i][s]) % Modulus
    BY <1>2 DEF multiply
  <2>2. rows[i][s] \in Int /\ Zero[s] = 0
    BY DEF Zero
  <2> QED
    BY <1>1, <2>1, <2>2
<1>3. products[index][s] = IF s = j THEN rows[index][s] % Modulus ELSE 0
  <2>1. products[index][s] = (Unit(j)[s] * rows[index][s]) % Modulus
    BY DEF multiply
  <2>2. rows[index][s] \in Int /\ Unit(j)[s] = IF s = j THEN 1 ELSE 0
    BY DEF Unit
  <2> QED
    BY <1>1, <2>1, <2>2
<1> PICK w \in 0 .. Modulus - 1 : w = products[index][s]
  <2>1. rows[index][s] % Modulus \in 0 .. Modulus - 1
    BY <1>1, DivMod
  <2> QED
    BY <1>1, <1>3, <2>1
<1>4. \A i \in DOMAIN products : i # index => products[i][s] = 0
  BY <1>2
<1>5. Sum(products)[s] = w
  BY <1>4, SumOfOne, Zenon
<1> QED
  BY <1>3, <1>5

\* The rows that computeBforOneInput and computeBforTwoInput add up.
ProductsOne(q, rows) ==
  [i \in 0 .. k_one - 1 |-> multiply(multiply(rotate_rows(q[2], i), q[1]), rows[i])]

ProductsTwo(q, rows) ==
  LET query_sub == [i \in Slot |-> multiply(rotate_rows(q[3], i), q[2])]
      selector(i) == multiply(rotate_rows(query_sub[i \div RowSize], i % RowSize), q[1])
  IN [i \in 0 .. ks - 1 |-> multiply(selector(i), rows[i])]

\* A ciphertext that is "row" with all slots zero but slot j.
OneSlot(sum, row, j) ==
  \A s \in Slot : sum[s] = IF s = j THEN row[s] % Modulus ELSE 0

\* computeBforOneInput with the answer of calcPIRqueriesForOneInput.
LEMMA OneSum ==
  ASSUME NEW e \in 0 .. NumOne - 1, NEW rows \in [0 .. k_one - 1 -> [Slot -> Int]],
         NEW q, q = calcPIRqueriesForOneInput(e)
  PROVE  /\ q[1] = Unit(e % RowSize) /\ q # <<>>
         /\ OneSlot(Sum(ProductsOne(q, rows)), rows[e \div RowSize], e % RowSize)
<1> DEFINE j == e % RowSize
           index == e \div RowSize
           selectors == [i \in 0 .. k_one - 1 |-> multiply(rotate_rows(q[2], i), q[1])]
<1>1. index \in 0 .. k_one - 1 /\ j \in Slot
  BY Sizes, EntryPlace
<1>2. \A i \in 0 .. k_one - 1 : i \in Slot
  BY Sizes DEF Slot
<1>3. q[1] = Unit(j) /\ q[2] = shift_work(Unit(j), index) /\ q # <<>>
  BY DEF calcPIRqueriesForOneInput
<1> DEFINE products == ProductsOne(q, rows)
<1>4. /\ DOMAIN products = 0 .. k_one - 1 /\ IsFiniteSet(DOMAIN products)
      /\ \A i \in 0 .. k_one - 1 : products[i] = multiply(selectors[i], rows[i])
  BY Sizes, FS_Interval DEF ProductsOne
<1> HIDE DEF j, index
<1>5. \A i \in 0 .. k_one - 1 : selectors[i] = IF i = index THEN Unit(j) ELSE Zero
  BY <1>1, <1>2, <1>3, OneInputSelectsItsRow
<1> HIDE DEF selectors, products
<1>6. index \in DOMAIN products /\ rows \in [DOMAIN products -> [Slot -> Int]]
  BY <1>1, <1>4
<1>7. /\ products[index] = multiply(Unit(j), rows[index])
      /\ \A i \in DOMAIN products : i # index => products[i] = multiply(Zero, rows[i])
  BY <1>1, <1>4, <1>5
<1>8. ASSUME NEW s \in Slot
      PROVE  /\ s = j => Sum(products)[s] = rows[index][s] % Modulus
             /\ s # j => Sum(products)[s] = 0
  BY <1>1, <1>4, <1>7, <1>6, SelectedSum, Zenon
<1> QED
  BY <1>3, <1>8 DEF j, index, products, OneSlot

\* computeBforTwoInput with the answer of calcPIRqueriesForTwoInput.
LEMMA TwoSum ==
  ASSUME NEW x \in 0 .. NumTwo - 1, NEW y \in 0 .. NumTwo - 1,
         NEW rows \in [0 .. ks - 1 -> [Slot -> Int]],
         NEW q, q = calcPIRqueriesForTwoInput(x, y)
  PROVE  /\ q[1] = Unit(y % RowSize) /\ q # <<>>
         /\ OneSlot(Sum(ProductsTwo(q, rows)), rows[x * k_two + (y \div RowSize)],
                    y % RowSize)
<1> DEFINE j == y % RowSize
           index == x * k_two + (y \div RowSize)
           i1 == index % RowSize
           i2 == index \div RowSize
           query_sub == [i \in Slot |-> multiply(rotate_rows(q[3], i), q[2])]
           selectors == [i \in 0 .. ks - 1 |->
             multiply(rotate_rows(query_sub[i \div RowSize], i % RowSize), q[1])]
<1>1. index \in 0 .. ks - 1 /\ i1 \in Slot /\ i2 \in Slot /\ j \in Slot
  BY TwoPlace
<1>2. /\ q # <<>> /\ q[1] = Unit(j) /\ q[2] = shift_work(Unit(j), i1)
      /\ q[3] = shift_work(shift_work(Unit(j), i1), i2)
  BY DEF calcPIRqueriesForTwoInput
<1> DEFINE products == ProductsTwo(q, rows)
<1>3. /\ DOMAIN products = 0 .. ks - 1 /\ IsFiniteSet(DOMAIN products)
      /\ \A i \in 0 .. ks - 1 : products[i] = multiply(selectors[i], rows[i])
  BY Sizes, FS_Interval DEF ProductsTwo
<1> HIDE DEF j
<1>4. ASSUME NEW i \in 0 .. ks - 1
      PROVE  selectors[i] = IF i = index THEN Unit(j) ELSE Zero
  <2> DEFINE a == i % RowSize
             b == i \div RowSize
  <2>1. RowSize \in Nat \ {0} /\ ks \in Nat \ {0} /\ ks <= RowSize * RowSize
        /\ RowSize * RowSize \in Int
    BY Sizes
  <2>2. i \in Int /\ i \in 0 .. RowSize * RowSize - 1 /\ index \in Int
    BY <1>1, <2>1
  <2>3. a \in Slot /\ i = b * RowSize + a
    BY <2>1, <2>2, DivMod DEF Slot
  <2>4. b \in Slot
    BY <2>1, <2>2, DivBound DEF Slot
  <2> HIDE DEF index
  <2>5. index = i2 * RowSize + i1
    BY <2>1, <2>2, DivMod
  <2>6. i = index <=> b = i2 /\ a = i1
    BY <2>3, <2>5
  <2>7. selectors[i] = multiply(rotate_rows(multiply(rotate_rows(q[3], b), q[2]), a), q[1])
    BY <2>4
  <2> HIDE DEF a, b, i1, i2, selectors, query_sub
  <2>8. selectors[i] = IF b = i2 /\ a = i1 THEN Unit(j) ELSE Zero
    BY <1>1, <1>2, <2>3, <2>4, <2>7, TwoInputSelectsItsRow
  <2> QED
    BY <2>6, <2>8
<1> HIDE DEF selectors, index, products
<1>5. index \in DOMAIN products /\ rows \in [DOMAIN products -> [Slot -> Int]]
  BY <1>1, <1>3
<1>6. /\ products[index] = multiply(Unit(j), rows[index])
      /\ \A i \in DOMAIN products : i # index => products[i] = multiply(Zero, rows[i])
  BY <1>1, <1>3, <1>4
<1>7. ASSUME NEW s \in Slot
      PROVE  /\ s = j => Sum(products)[s] = rows[index][s] % Modulus
             /\ s # j => Sum(products)[s] = 0
  BY <1>1, <1>3, <1>6, <1>5, SelectedSum, Zenon
<1> QED
  BY <1>2, <1>7 DEF j, index, products, OneSlot

-----------------------------------------------------------------------------
(***************************************************************************)
(* computeA, and what the Decryptor sees.                                  *)
(***************************************************************************)
\* computeA.  A slot of what is sent to the Decryptor is zero exactly if that
\* slot of the column holds the user's input: the multiplier hides every
\* other difference and makes none vanish.
THEOREM ZeroMarksTheInput ==
  ASSUME NEW x \in Value, NEW row, NEW s \in Slot, row[s] \in Value,
         NEW rnd \in [Slot -> 1 .. 5]
  PROVE  multiply(sub(encrypt(x), row), rnd)[s] = 0 <=> row[s] = x
<1> DEFINE d == ((x % Modulus) - row[s]) % Modulus
<1>1. Modulus \in Nat \ {0}
  BY SlotAssumption
<1>2. d \in 0 .. Modulus - 1 /\ (d = 0 <=> x = row[s])
  BY SameSlotSameValue
<1>3. multiply(sub(encrypt(x), row), rnd)[s] = (d * rnd[s]) % Modulus
  BY DEF multiply, sub, encrypt
<1> HIDE DEF d
<1>4. PICK r \in 1 .. 5 : r = rnd[s]
  OBVIOUS
<1>5. CASE d = 0
  <2>1. d * r = 0 * Modulus + 0
    BY <1>1, <1>5
  <2>2. (d * r) % Modulus = 0
    BY <1>1, <2>1, DivModUnique
  <2> QED
    BY <1>2, <1>3, <1>4, <1>5, <2>2
<1>6. CASE d # 0
  <2>1. d \in 1 .. Modulus - 1
    BY <1>1, <1>2, <1>6
  <2>2. (r * d) % Modulus # 0
    BY <2>1, PIRAssumption
  <2>3. r * d = d * r
    BY <1>1, <2>1
  <2> QED
    BY <1>2, <1>3, <1>4, <1>6, <2>2, <2>3
<1> QED
  BY <1>5, <1>6

\* What the Decryptor sees of a column, is where the order put the input.
LEMMA CompareMarks ==
  ASSUME NEW k \in Nat \ {0}, NEW col \in [0 .. k * RowSize - 1 -> Value],
         NEW o, IsOrder(o, k * RowSize), NEW x \in Value,
         NEW rnd \in [0 .. k - 1 -> Multipliers]
  PROVE  ZeroEntries(Compare(encrypt(x), Rows(Permuted(col, o), k), rnd)) =
           {e \in 0 .. k * RowSize - 1 : col[o[e]] = x}
<1> DEFINE n == k * RowSize
           rows == Rows(Permuted(col, o), k)
           mid == Compare(encrypt(x), rows, rnd)
<1>1. RowSize \in Nat \ {0} /\ n \in Nat
  BY SlotAssumption
<1>2. o \in [0 .. n - 1 -> 0 .. n - 1]
  BY DEF IsOrder
<1>3. DOMAIN rows = 0 .. k - 1 /\ DOMAIN mid = 0 .. k - 1
  BY DEF Rows, Compare
<1>4. Cardinality(DOMAIN mid) = k
  BY <1>3, FS_Interval
<1>5. ASSUME NEW e \in 0 .. n - 1
      PROVE  mid[e \div RowSize][e % RowSize] = 0 <=> col[o[e]] = x
  <2> DEFINE i == e \div RowSize
             s == e % RowSize
  <2>1. i \in 0 .. k - 1 /\ s \in Slot /\ i * RowSize + s = e
    BY EntryPlace
  <2> HIDE DEF i, s
  <2>2. rows[i][s] = col[o[e]]
    BY <1>2, <2>1 DEF Rows, Permuted
  <2>3. rows[i][s] \in Value
    BY <1>2, <2>2
  <2>4. rnd[i] \in [Slot -> 1 .. 5]
    BY <2>1, PIRAssumption
  <2>5. mid[i] = multiply(sub(encrypt(x), rows[i]), rnd[i])
    BY <1>3, <2>1 DEF Compare
  <2>6. mid[i][s] = 0 <=> rows[i][s] = x
    BY <2>1, <2>3, <2>4, <2>5, ZeroMarksTheInput
  <2> QED
    BY <2>2, <2>6 DEF i, s
<1> HIDE DEF mid, n
<1> QED
  BY <1>4, <1>5 DEF ZeroEntries, n, mid

\* The Decryptor's choice is one of the zeros.
LEMMA FirstZeroIsZero ==
  ASSUME NEW rows, ZeroEntries(rows) # {}
  PROVE  FirstZero(rows) \in ZeroEntries(rows)
<1>1. ZeroEntries(rows) \subseteq Nat
  BY DEF ZeroEntries
<1>2. \E e \in ZeroEntries(rows) : \A f \in ZeroEntries(rows) : e <= f
  BY <1>1, LeastNatural
<1> QED
  BY <1>2 DEF FirstZero

-----------------------------------------------------------------------------
(***************************************************************************)
(* The tables the constructor loads.                                       *)
(***************************************************************************)
\* What is in the map of one input, and in that of two.
OneMap(map) ==
  \A key \in DOMAIN map : \E x \in Value : key = <<x>> /\ map[key] \in Value

TwoMap(map) ==
  \A key \in DOMAIN map : \E x, y \in Value : key = <<x, y>> /\ map[key] \in Value

\* What the constructor has loaded.
Loaded ==
  /\ lut = [one |-> lut.one, two |-> lut.two]
  /\ IsFiniteSet(DOMAIN lut.one) /\ OneMap(lut.one)
  /\ IsFiniteSet(DOMAIN lut.two) /\ TwoMap(lut.two)
  /\ \A c \in {1, 2} : Cardinality(Column(lut.two, c)) < NumTwo
  /\ \E dir \in Directories :
       files \subseteq dir /\ DOMAIN lut.one \subseteq KeysOne(dir)

\* What a directory's files hold.
LEMMA FileRows ==
  ASSUME NEW dir \in Directories, NEW f \in dir
  PROVE  \E n \in Nat : /\ DOMAIN f.rows = 1 .. n
                        /\ \A i \in 1 .. n :
                             /\ f.rows[i] \in Seq(Value) \X Value
                             /\ f.func = kLUTFuncLinear => Len(f.rows[i][1]) = 1
                             /\ f.func = kLUTFuncQuadratic => Len(f.rows[i][1]) = 2
<1>1. f \in File
  BY PIRAssumption
<1>2. f.rows \in Seq(Entry)
  BY <1>1 DEF File
<1>3. DOMAIN f.rows = 1 .. Len(f.rows) /\ Len(f.rows) \in Nat
  BY <1>2
<1>4. \A i \in DOMAIN f.rows : f.rows[i] \in Seq(Value) \X Value
  BY ValueAssumption
<1> QED
  BY <1>1, <1>3, <1>4 DEF File

\* A key with one input.
LEMMA OneTuple ==
  ASSUME NEW t \in Seq(Value), Len(t) = 1
  PROVE  \E x \in Value : t = <<x>>
<1>1. t[1] \in Value /\ t = <<t[1]>>
  OBVIOUS
<1> QED
  BY <1>1

\* A key with two.
LEMMA TwoTuple ==
  ASSUME NEW t \in Seq(Value), Len(t) = 2
  PROVE  \E x, y \in Value : t = <<x, y>>
<1>1. t[1] \in Value /\ t[2] \in Value /\ t = <<t[1], t[2]>>
  OBVIOUS
<1> QED
  BY <1>1

\* The loading of a file: of the entries of a key, the first one stays, so
\* what a map holds is an entry of some file.
LEMMA LoadFileLoads ==
  ASSUME Loaded, NEW f \in files, LoadFile(f)
  PROVE  Loaded'
<1>1. PICK dir \in Directories :
        files \subseteq dir /\ DOMAIN lut.one \subseteq KeysOne(dir)
  BY DEF Loaded
<1>2. f \in dir /\ f \in File /\ f.func \in {0, kLUTFuncLinear, kLUTFuncQuadratic}
  BY <1>1, PIRAssumption DEF File
<1>3. PICK n \in Nat :
        /\ DOMAIN f.rows = 1 .. n
        /\ \A i \in 1 .. n : /\ f.rows[i] \in Seq(Value) \X Value
                             /\ f.func = kLUTFuncLinear => Len(f.rows[i][1]) = 1
                             /\ f.func = kLUTFuncQuadratic => Len(f.rows[i][1]) = 2
  BY <1>2, FileRows
<1>4. KeysOf(f) = {f.rows[i][1] : i \in 1 .. n} /\ IsFiniteSet(KeysOf(f))
  BY <1>3, KeysAreFinite DEF KeysOf
<1>5. files' \subseteq dir
  BY <1>1 DEF LoadFile
<1>6. CASE f.func = kLUTFuncLinear
  <2> DEFINE loaded == load_from_file(lut.one, f)
  <2>1. lut' = [lut EXCEPT !.one = loaded]
    BY <1>6 DEF LoadFile
  <2> HIDE DEF loaded
  <2>2. lut'.one = loaded /\ lut'.two = lut.two /\ lut' = [one |-> loaded, two |-> lut.two]
    BY <2>1 DEF Loaded
  <2>3. AddsFirstRows(loaded, lut.one, f)
    BY <1>3, FirstRowWins DEF loaded
  <2>4. IsFiniteSet(DOMAIN loaded)
    <3>1. IsFiniteSet(DOMAIN lut.one)
      BY DEF Loaded
    <3>2. IsFiniteSet(DOMAIN lut.one \cup KeysOf(f))
      BY <1>4, <3>1, FS_Union, Zenon
    <3> QED
      BY <2>3, <3>2 DEF AddsFirstRows
  <2>5. \A i \in 1 .. n : \E x \in Value : f.rows[i][1] = <<x>> /\ f.rows[i][2] \in Value
    <3> TAKE i \in 1 .. n
    <3>1. f.rows[i][1] \in Seq(Value) /\ Len(f.rows[i][1]) = 1 /\ f.rows[i][2] \in Value
      BY <1>3, <1>6
    <3> QED
      BY <3>1, OneTuple
  <2>6. OneMap(loaded)
    <3>1. \A k \in DOMAIN lut.one : \E x \in Value : k = <<x>> /\ loaded[k] \in Value
      BY <2>3 DEF Loaded, OneMap, AddsFirstRows
    <3>2. \A k \in KeysOf(f) \ DOMAIN lut.one : \E x \in Value : k = <<x>> /\ loaded[k] \in Value
      <4> TAKE k \in KeysOf(f) \ DOMAIN lut.one
      <4>1. PICK i \in 1 .. n : f.rows[i][1] = k /\ loaded[k] = f.rows[i][2]
        BY <1>3, <2>3 DEF AddsFirstRows
      <4> QED
        BY <2>5, <4>1
    <3> QED
      BY <2>3, <3>1, <3>2 DEF OneMap, AddsFirstRows
  <2>7. DOMAIN loaded \subseteq KeysOne(dir)
    BY <1>1, <1>2, <1>6, <2>3 DEF AddsFirstRows, KeysOne
  <2> QED
    BY <1>5, <2>2, <2>4, <2>6, <2>7 DEF Loaded
<1>7. CASE f.func # kLUTFuncLinear
  <2> DEFINE loaded == load_from_file(lut.two, f)
  <2>1. /\ lut' = [lut EXCEPT !.two = loaded] /\ f.func = kLUTFuncQuadratic
        /\ \A c \in {1, 2} : Cardinality(Column(loaded, c)) < NumTwo
    BY <1>2, <1>7 DEF LoadFile, Loads, FitsColumns, map_
  <2> HIDE DEF loaded
  <2>2. lut'.two = loaded /\ lut'.one = lut.one /\ lut' = [one |-> lut.one, two |-> loaded]
    BY <2>1 DEF Loaded
  <2>3. AddsFirstRows(loaded, lut.two, f)
    BY <1>3, FirstRowWins DEF loaded
  <2>4. IsFiniteSet(DOMAIN loaded)
    <3>1. IsFiniteSet(DOMAIN lut.two)
      BY DEF Loaded
    <3>2. IsFiniteSet(DOMAIN lut.two \cup KeysOf(f))
      BY <1>4, <3>1, FS_Union, Zenon
    <3> QED
      BY <2>3, <3>2 DEF AddsFirstRows
  <2>5. \A i \in 1 .. n : \E x, y \in Value : f.rows[i][1] = <<x, y>> /\ f.rows[i][2] \in Value
    <3> TAKE i \in 1 .. n
    <3>1. f.rows[i][1] \in Seq(Value) /\ Len(f.rows[i][1]) = 2 /\ f.rows[i][2] \in Value
      BY <1>3, <2>1
    <3> QED
      BY <3>1, TwoTuple
  <2>6. TwoMap(loaded)
    <3>1. \A k \in DOMAIN lut.two : \E x, y \in Value : k = <<x, y>> /\ loaded[k] \in Value
      BY <2>3 DEF Loaded, TwoMap, AddsFirstRows
    <3>2. \A k \in KeysOf(f) \ DOMAIN lut.two :
            \E x, y \in Value : k = <<x, y>> /\ loaded[k] \in Value
      <4> TAKE k \in KeysOf(f) \ DOMAIN lut.two
      <4>1. PICK i \in 1 .. n : f.rows[i][1] = k /\ loaded[k] = f.rows[i][2]
        BY <1>3, <2>3 DEF AddsFirstRows
      <4> QED
        BY <2>5, <4>1
    <3> QED
      BY <2>3, <3>1, <3>2 DEF TwoMap, AddsFirstRows
  <2> QED
    BY <1>1, <1>5, <2>1, <2>2, <2>4, <2>6 DEF Loaded
<1> QED
  BY <1>6, <1>7

\* A lookup leaves the tables alone.
LEMMA TablesStay ==
  ASSUME lut' = lut
  PROVE  /\ LUTin_one' = LUTin_one /\ LUTin_two' = LUTin_two /\ LUTout_two' = LUTout_two
         /\ Table' = Table
         /\ Loaded /\ files' = files => Loaded'
<1>1. LUTin_one' = LUTin_one /\ LUTin_two' = LUTin_two
  BY DEF LUTin_one, LUTin_two
<1>2. LUTout_two' = LUTout_two
  BY <1>1 DEF LUTout_two
<1>3. Table' = Table
  BY DEF Table
<1>4. Loaded /\ files' = files => Loaded'
  BY DEF Loaded
<1> QED
  BY <1>1, <1>2, <1>3, <1>4

\* The loaded keys of one input fit the column.
LEMMA KeysFit ==
  ASSUME Loaded
  PROVE  Cardinality(DOMAIN lut.one) \in 0 .. NumOne
<1>1. PICK dir \in Directories : DOMAIN lut.one \subseteq KeysOne(dir)
  BY DEF Loaded
<1> DEFINE D == {g \in dir : g.func = kLUTFuncLinear}
           sets == {KeysOf(f) : f \in D}
<1>2. IsFiniteSet(D) /\ Cardinality(UNION sets) <= NumOne
  <2>1. IsFiniteSet(dir) /\ Cardinality(KeysOne(dir)) <= NumOne
    BY PIRAssumption
  <2>2. D \in SUBSET dir
    OBVIOUS
  <2>3. IsFiniteSet(D)
    BY <2>1, <2>2, FS_Subset
  <2> QED
    BY <2>1, <2>3 DEF KeysOne
<1>3. \A f \in D : IsFiniteSet(KeysOf(f))
  BY FileRows, KeysAreFinite
<1>4. [f \in D |-> KeysOf(f)] \in Surjection(D, sets)
  BY DEF Surjection
<1>5. IsFiniteSet(sets) /\ \A keys \in sets : IsFiniteSet(keys)
  BY <1>2, <1>3, <1>4, FS_Surjection
<1> HIDE DEF sets, D
<1>6. IsFiniteSet(UNION sets)
  BY <1>5, FS_UNION
<1>7. DOMAIN lut.one \in SUBSET (UNION sets)
  BY <1>1 DEF sets, D, KeysOne
<1>8. Cardinality(DOMAIN lut.one) <= Cardinality(UNION sets)
  BY <1>6, <1>7, FS_Subset
<1>9. /\ IsFiniteSet(DOMAIN lut.one) /\ Cardinality(UNION sets) \in Nat /\ NumOne \in Nat
      /\ Cardinality(DOMAIN lut.one) \in Nat
  BY <1>6, FS_CardinalityType, Sizes DEF Loaded
<1> QED
  BY <1>2, <1>8, <1>9

\* A column: its values first, then the padding.
LEMMA Padded ==
  ASSUME NEW n \in Nat, NEW size \in 0 .. n, NEW values \in [1 .. size -> Value]
  PROVE  /\ resize(values, n) \in [0 .. n - 1 -> Value]
         /\ \A i \in 1 .. size : i - 1 \in 0 .. n - 1 /\ resize(values, n)[i - 1] = values[i]
         /\ \A p \in 0 .. n - 1 :
              resize(values, n)[p] = IF p < size THEN values[p + 1] ELSE Pad
<1>1. Len(values) = size
  OBVIOUS
<1>2. Pad \in Value
  BY ValueAssumption
<1>3. \A p \in 0 .. n - 1 : p < size => p + 1 \in 1 .. size
  OBVIOUS
<1> QED
  BY <1>1, <1>2, <1>3 DEF resize

\* The columns of the table of one input: every key is in one place, and
\* beside it the key's output.
LEMMA ColumnOne ==
  ASSUME Loaded
  PROVE  /\ LUTin_one[1] \in [0 .. NumOne - 1 -> Value]
         /\ LUTin_one[2] \in [0 .. NumOne - 1 -> Value]
         /\ \A key \in DOMAIN lut.one : \E p \in 0 .. NumOne - 1 : <<LUTin_one[1][p]>> = key
         /\ \A p \in 0 .. NumOne - 1 :
              LUTin_one[1][p] # Pad =>
                /\ <<LUTin_one[1][p]>> \in DOMAIN lut.one
                /\ LUTin_one[2][p] = lut.one[<<LUTin_one[1][p]>>]
<1> DEFINE S == DOMAIN lut.one
           size == Cardinality(S)
           keys == SetToSeq(S)
           ins == [i \in DOMAIN keys |-> keys[i][1]]
           outs == [i \in DOMAIN keys |-> lut.one[keys[i]]]
<1>1. size \in 0 .. NumOne /\ NumOne \in Nat
  BY KeysFit, Sizes
<1>2. keys \in [1 .. size -> S] /\ \A key \in S : \E i \in 1 .. size : keys[i] = key
  BY SetToSeqIsOnto DEF Loaded
<1>3. LUTin_one[1] = resize(ins, NumOne) /\ LUTin_one[2] = resize(outs, NumOne)
  BY DEF LUTin_one
<1>4. \A key \in S : key[1] \in Value /\ key = <<key[1]>> /\ lut.one[key] \in Value
  BY DEF Loaded, OneMap
<1>5. ins \in [1 .. size -> Value] /\ outs \in [1 .. size -> Value]
  BY <1>2, <1>4
<1>6. \A i \in 1 .. size : <<ins[i]>> = keys[i] /\ outs[i] = lut.one[keys[i]]
  BY <1>2, <1>4
<1> HIDE DEF S, size, keys, ins, outs
<1>7. /\ LUTin_one[1] \in [0 .. NumOne - 1 -> Value]
      /\ \A i \in 1 .. size : i - 1 \in 0 .. NumOne - 1 /\ LUTin_one[1][i - 1] = ins[i]
      /\ \A p \in 0 .. NumOne - 1 : LUTin_one[1][p] = IF p < size THEN ins[p + 1] ELSE Pad
  BY <1>1, <1>3, <1>5, Padded
<1>8. /\ LUTin_one[2] \in [0 .. NumOne - 1 -> Value]
      /\ \A p \in 0 .. NumOne - 1 : LUTin_one[2][p] = IF p < size THEN outs[p + 1] ELSE Pad
  BY <1>1, <1>3, <1>5, Padded
<1>9. \A key \in S : \E p \in 0 .. NumOne - 1 : <<LUTin_one[1][p]>> = key
  <2> TAKE key \in S
  <2>1. PICK i \in 1 .. size : keys[i] = key
    BY <1>2
  <2>2. i - 1 \in 0 .. NumOne - 1 /\ LUTin_one[1][i - 1] = ins[i]
    BY <1>7, Zenon
  <2>3. i - 1 \in 0 .. NumOne - 1 /\ <<LUTin_one[1][i - 1]>> = key
    BY <1>6, <2>2, <2>1
  <2> QED
    BY <2>3
<1>10. ASSUME NEW p \in 0 .. NumOne - 1, LUTin_one[1][p] # Pad
       PROVE  /\ <<LUTin_one[1][p]>> \in S
              /\ LUTin_one[2][p] = lut.one[<<LUTin_one[1][p]>>]
  <2>1. p + 1 \in 1 .. size /\ p < size
    BY <1>1, <1>7, <1>10
  <2> QED
    BY <1>2, <1>6, <1>7, <1>8, <2>1
<1> QED
  BY <1>7, <1>8, <1>9, <1>10 DEF S

\* A column of the table of two inputs.
LEMMA ColumnTwo ==
  ASSUME Loaded, NEW c \in {1, 2}
  PROVE  LET size == Cardinality(Column(lut.two, c)) IN
         /\ size \in 0 .. NumTwo
         /\ LUTin_two[c] \in [0 .. NumTwo - 1 -> Value]
         /\ \A v \in Column(lut.two, c) :
              \E p \in 0 .. NumTwo - 1 : p < size /\ LUTin_two[c][p] = v
         /\ \A p \in 0 .. NumTwo - 1 :
              IF p < size THEN LUTin_two[c][p] \in Column(lut.two, c)
                          ELSE LUTin_two[c][p] = Pad
<1> DEFINE S == Column(lut.two, c)
           size == Cardinality(S)
           values == Ascending(S)
<1>1. IsFiniteSet(S) /\ size \in Nat /\ size < NumTwo /\ NumTwo \in Nat
  BY ColumnIsFinite, FS_CardinalityType, Sizes DEF Loaded
<1>2. S \subseteq Value
  BY DEF Loaded, TwoMap, Column
<1>3. S \subseteq Int
  BY <1>2 DEF Value
<1>4. LUTin_two[c] = resize(values, NumTwo)
  BY DEF LUTin_two
<1> HIDE DEF S
<1>5. values \in [1 .. size -> S] /\ \A v \in S : \E i \in 1 .. size : values[i] = v
  BY <1>1, <1>3, AscendingIsOnto
<1>6. values \in [1 .. size -> Value] /\ size \in 0 .. NumTwo
  BY <1>1, <1>2, <1>5
<1> HIDE DEF size, values
<1>7. /\ LUTin_two[c] \in [0 .. NumTwo - 1 -> Value]
      /\ \A i \in 1 .. size : i - 1 \in 0 .. NumTwo - 1 /\ LUTin_two[c][i - 1] = values[i]
      /\ \A p \in 0 .. NumTwo - 1 : LUTin_two[c][p] = IF p < size THEN values[p + 1] ELSE Pad
  BY <1>1, <1>4, <1>6, Padded
<1>8. \A v \in S : \E p \in 0 .. NumTwo - 1 : p < size /\ LUTin_two[c][p] = v
  <2> TAKE v \in S
  <2>1. PICK i \in 1 .. size : values[i] = v
    BY <1>5
  <2>2. i - 1 \in 0 .. NumTwo - 1 /\ LUTin_two[c][i - 1] = values[i]
    BY <1>7, Zenon
  <2>3. i - 1 \in 0 .. NumTwo - 1 /\ i - 1 < size /\ LUTin_two[c][i - 1] = v
    BY <1>1, <2>2, <2>1
  <2> QED
    BY <2>3
<1>9. \A p \in 0 .. NumTwo - 1 : p < size => values[p + 1] \in S
  BY <1>1, <1>5
<1> QED
  BY <1>6, <1>7, <1>8, <1>9 DEF S, size

\* The output of the values at places p and r of the two columns.
LEMMA OutputTwo ==
  ASSUME Loaded
  PROVE  /\ LUTout_two \in [0 .. NumTwo * NumTwo - 1 -> Value]
         /\ \A p, r \in 0 .. NumTwo - 1 :
              /\ p * NumTwo + r \in 0 .. NumTwo * NumTwo - 1
              /\ LUTout_two[p * NumTwo + r] =
                   IF /\ p < Cardinality(Column(lut.two, 1))
                      /\ r < Cardinality(Column(lut.two, 2))
                      /\ <<LUTin_two[1][p], LUTin_two[2][r]>> \in DOMAIN lut.two
                   THEN lut.two[<<LUTin_two[1][p], LUTin_two[2][r]>>]
                   ELSE NoValue
<1> DEFINE x0sz == Cardinality(Column(lut.two, 1))
           x1sz == Cardinality(Column(lut.two, 2))
           val(i, j) ==
             IF i < x0sz /\ j < x1sz /\ <<LUTin_two[1][i], LUTin_two[2][j]>> \in DOMAIN lut.two
             THEN lut.two[<<LUTin_two[1][i], LUTin_two[2][j]>>]
             ELSE NoValue
<1>1. LUTout_two = [c \in 0 .. NumTwo * NumTwo - 1 |-> val(c \div NumTwo, c % NumTwo)]
  BY DEF LUTout_two
<1>2. \A i, j : val(i, j) \in Value
  BY ValueAssumption DEF Loaded, TwoMap
<1>3. ASSUME NEW p \in 0 .. NumTwo - 1, NEW r \in 0 .. NumTwo - 1
      PROVE  /\ p * NumTwo + r \in 0 .. NumTwo * NumTwo - 1
             /\ LUTout_two[p * NumTwo + r] = val(p, r)
  <2> HIDE DEF val
  <2> QED
    BY <1>1, CombinationPlace
<1> QED
  BY <1>1, <1>2, <1>3

\* A column cut into rows.
LEMMA RowsOfColumn ==
  ASSUME NEW k \in Nat \ {0}, NEW col \in [0 .. k * RowSize - 1 -> Value]
  PROVE  /\ Rows(col, k) \in [0 .. k - 1 -> [Slot -> Int]]
         /\ \A i \in 0 .. k - 1, s \in Slot : Rows(col, k)[i][s] = col[i * RowSize + s]
<1>1. ASSUME NEW i \in 0 .. k - 1, NEW s \in Slot
      PROVE  i * RowSize + s \in 0 .. k * RowSize - 1
  <2>1. RowSize \in Nat \ {0} /\ i \in Int /\ s \in 0 .. RowSize - 1 /\ k - 1 \in Int
    BY SlotAssumption DEF Slot
  <2>2. i * RowSize <= (k - 1) * RowSize
    BY <2>1, ProductOrder
  <2>3. \A n, m \in Nat : n * m \in Nat /\ (n - 1) * m = n * m - m
    OBVIOUS
  <2>4. /\ i * RowSize \in Nat /\ k * RowSize \in Nat
        /\ (k - 1) * RowSize = k * RowSize - RowSize
    BY <2>1, <2>3
  <2> QED
    BY <2>1, <2>2, <2>4
<1>2. \A e \in 0 .. k * RowSize - 1 : col[e] \in Int
  BY DEF Value
<1> QED
  BY <1>1, <1>2 DEF Rows

\* The permuted outputs of two inputs.
LEMMA PermutedOutputs ==
  ASSUME NEW col \in [0 .. NumTwo * NumTwo - 1 -> Value],
         NEW vi_x \in OrdersTwo, NEW vi_y \in OrdersTwo
  PROVE  /\ ks * RowSize = NumTwo * NumTwo
         /\ PermutedOut(col, vi_x, vi_y) \in [0 .. ks * RowSize - 1 -> Value]
<1>1. /\ RowSize \in Nat \ {0} /\ k_two \in Nat \ {0} /\ NumTwo \in Nat \ {0}
      /\ NumTwo = k_two * RowSize /\ ks = NumTwo * k_two
  BY Sizes
<1>2. ks * RowSize = NumTwo * NumTwo
  <2>1. \A a, b, c \in Nat : (a * b) * c = a * (b * c)
    OBVIOUS
  <2> QED
    BY <1>1, <2>1
<1>3. /\ vi_x \in [0 .. NumTwo - 1 -> 0 .. NumTwo - 1]
      /\ vi_y \in [0 .. NumTwo - 1 -> 0 .. NumTwo - 1]
  BY PIRAssumption DEF IsOrder
<1>4. \A x, y \in 0 .. NumTwo - 1 : x * NumTwo + y \in 0 .. NumTwo * NumTwo - 1
  BY CombinationPlace
<1>5. ASSUME NEW c \in 0 .. NumTwo * NumTwo - 1
      PROVE  c \div NumTwo \in 0 .. NumTwo - 1 /\ c % NumTwo \in 0 .. NumTwo - 1
  <2>1. c \in Int
    BY <1>1
  <2> QED
    BY <1>1, <2>1, DivBound, DivMod
<1>6. PermutedOut(col, vi_x, vi_y) \in [0 .. NumTwo * NumTwo - 1 -> Value]
  <2>1. ASSUME NEW c \in 0 .. NumTwo * NumTwo - 1
        PROVE  col[vi_x[c \div NumTwo] * NumTwo + vi_y[c % NumTwo]] \in Value
    <3>1. vi_x[c \div NumTwo] \in 0 .. NumTwo - 1 /\ vi_y[c % NumTwo] \in 0 .. NumTwo - 1
      BY <1>3, <1>5
    <3>2. vi_x[c \div NumTwo] * NumTwo + vi_y[c % NumTwo] \in 0 .. NumTwo * NumTwo - 1
      BY <1>4, <3>1
    <3> QED
      BY <3>2
  <2> QED
    BY <2>1, Zenon DEF PermutedOut
<1> QED
  BY <1>2, <1>6

\* An entry after both columns have been permuted.
LEMMA PermutedEntry ==
  ASSUME NEW col, NEW vi_x, NEW vi_y,
         NEW x \in 0 .. NumTwo - 1, NEW y \in 0 .. NumTwo - 1
  PROVE  PermutedOut(col, vi_x, vi_y)[x * NumTwo + y] = col[vi_x[x] * NumTwo + vi_y[y]]
BY CombinationPlace DEF PermutedOut

-----------------------------------------------------------------------------
(***************************************************************************)
(* The inductive invariant: what each step of the lookup leaves for the    *)
(* next.                                                                   *)
(***************************************************************************)
\* The inputs of a query, and the output at a place of the columns that holds them.
Asked(q) == (\E x \in Inputs : q = <<x>>) \/ (\E x, y \in Inputs : q = <<x, y>>)

Held ==
  {v \in Value :
     \/ \E x \in Inputs, p \in 0 .. NumOne - 1 :
          query = <<x>> /\ LUTin_one[1][p] = x /\ v = LUTin_one[2][p]
     \/ \E x, y \in Inputs, p, r \in 0 .. NumTwo - 1 :
          /\ query = <<x, y>> /\ LUTin_two[1][p] = x /\ LUTin_two[2][r] = y
          /\ v = LUTout_two[p * NumTwo + r]}

\* At the Decryptor: zeros exactly where the permuted columns hold the inputs.
ComparedOne ==
  \E x \in Inputs, vi \in OrdersOne :
    /\ query = <<x>> /\ LUT_output = Rows(Permuted(LUTin_one[2], vi), k_one)
    /\ midresult = <<midresult[1]>>
    /\ ZeroEntries(midresult[1]) = {e \in 0 .. NumOne - 1 : LUTin_one[1][vi[e]] = x}

ComparedTwo ==
  \E x, y \in Inputs, vi_x, vi_y \in OrdersTwo :
    /\ query = <<x, y>> /\ LUT_output = Rows(PermutedOut(LUTout_two, vi_x, vi_y), ks)
    /\ midresult = <<midresult[1], midresult[2]>>
    /\ ZeroEntries(midresult[1]) = {e \in 0 .. NumTwo - 1 : LUTin_two[1][vi_x[e]] = x}
    /\ ZeroEntries(midresult[2]) = {e \in 0 .. NumTwo - 1 : LUTin_two[2][vi_y[e]] = y}

\* Back at the CalcThread: the PIR query names a place that holds them.
FoundOne ==
  \E x \in Inputs, vi \in OrdersOne, e \in 0 .. NumOne - 1 :
    /\ query = <<x>> /\ LUT_output = Rows(Permuted(LUTin_one[2], vi), k_one)
    /\ LUTin_one[1][vi[e]] = x
    /\ PIRquery = calcPIRqueriesForOneInput(e)

FoundTwo ==
  \E x, y \in Inputs, vi_x, vi_y \in OrdersTwo, e, f \in 0 .. NumTwo - 1 :
    /\ query = <<x, y>> /\ LUT_output = Rows(PermutedOut(LUTout_two, vi_x, vi_y), ks)
    /\ LUTin_two[1][vi_x[e]] = x /\ LUTin_two[2][vi_y[f]] = y
    /\ PIRquery = calcPIRqueriesForTwoInput(e, f)

\* The result: one slot with the output of that place.
Selected ==
  \E v \in Held, j \in Slot :
    \A s \in Slot : sum_result[s] = IF s = j THEN v % Modulus ELSE 0

PIRInv ==
  /\ pc \in {"load", "encrypt", "stopped", "computeA", "calcPIR", "computeB", "decrypt", "done"}
  /\ Loaded
  /\ pc \in {"load", "encrypt", "stopped"} => query = None /\ output = None
  /\ pc \notin {"load", "encrypt", "stopped"} => Asked(query)
  /\ pc \in {"computeA", "calcPIR", "computeB", "decrypt"} => output = None
  /\ pc \in {"load", "encrypt", "computeA", "calcPIR"} => PIRquery = <<>>
  /\ pc = "computeA" => ctxts = encryptAll(query)
  /\ pc = "calcPIR" => ComparedOne \/ ComparedTwo
  /\ pc = "computeB" => FoundOne \/ FoundTwo
  /\ pc = "decrypt" => Selected
  /\ OneEntrySelected

\* The constructor starts with empty tables.
LEMMA InitHolds == Init => PIRInv
<1> SUFFICES ASSUME Init PROVE PIRInv
  OBVIOUS
<1>1. lut = [one |-> NoRows, two |-> NoRows] /\ DOMAIN NoRows = {}
  BY DEF Init, NoRows
<1>2. DOMAIN lut.one = {} /\ DOMAIN lut.two = {} /\ lut = [one |-> lut.one, two |-> lut.two]
  BY <1>1
<1>3. IsFiniteSet({}) /\ Cardinality({}) = 0
  BY FS_EmptySet
<1>4. \A c \in {1, 2} : Column(lut.two, c) = {}
  BY <1>2 DEF Column
<1>5. \A c \in {1, 2} : Cardinality(Column(lut.two, c)) < NumTwo
  BY <1>3, <1>4, Sizes
<1>6. Loaded
  BY <1>2, <1>3, <1>5 DEF Init, Loaded, OneMap, TwoMap
<1> QED
  BY <1>6 DEF Init, PIRInv, OneEntrySelected

\* The steps, one by one: a file is loaded;
LEMMA LoadFileKeeps ==
  ASSUME PIRInv, NEW f \in files, LoadFile(f)
  PROVE  PIRInv'
<1>1. Loaded'
  BY LoadFileLoads DEF PIRInv
<1>2. pc' \in {"load", "encrypt"} /\ query' = None /\ output' = None /\ PIRquery' = <<>>
  BY DEF PIRInv, LoadFile
<1> QED
  BY <1>1, <1>2 DEF PIRInv, OneEntrySelected

\* the constructor throws;
LEMMA LoadThrowsKeeps ==
  ASSUME PIRInv, NEW f \in files, LoadThrows(f)
  PROVE  PIRInv'
<1>1. Loaded'
  BY TablesStay DEF PIRInv, LoadThrows
<1>2. pc' = "stopped" /\ query' = None /\ output' = None
  BY DEF PIRInv, LoadThrows
<1> QED
  BY <1>1, <1>2 DEF PIRInv, OneEntrySelected

\* the user encrypts the inputs, of one query or the other;
LEMMA EncryptKeeps ==
  ASSUME PIRInv, NEW q, Asked(q), Encrypt(q)
  PROVE  PIRInv'
<1>1. Loaded'
  BY TablesStay DEF PIRInv, Encrypt
<1>2. /\ pc' = "computeA" /\ query' = q /\ output' = None /\ PIRquery' = <<>>
      /\ ctxts' = encryptAll(query')
  BY DEF PIRInv, Encrypt
<1>3. Asked(query')
  BY <1>2
<1>4. Asked(query)'
  BY <1>3 DEF Asked
<1> QED
  BY <1>1, <1>2, <1>4 DEF PIRInv, OneEntrySelected

\* computeA compares the column of one input: the zeros are where it is;
LEMMA ComputeAOneKeeps ==
  ASSUME PIRInv, NEW vi \in OrdersOne, NEW rnd \in [0 .. k_one - 1 -> Multipliers],
         computeAforOneInput(vi, rnd)
  PROVE  PIRInv'
<1> DEFINE col == LUTin_one[1]
           mid == Compare(ctxts[1], Rows(Permuted(col, vi), k_one), rnd)
<1>1. /\ lut' = lut /\ files' = files /\ query' = query /\ output' = None
      /\ PIRquery' = <<>> /\ pc' = "calcPIR" /\ Asked(query) /\ Len(query) = 1
      /\ ctxts = encryptAll(query) /\ Loaded
      /\ midresult' = <<mid>> /\ LUT_output' = Rows(Permuted(LUTin_one[2], vi), k_one)
  BY DEF PIRInv, computeAforOneInput
<1>2. PICK x \in Inputs : query = <<x>>
  BY <1>1 DEF Asked
<1>3. ctxts[1] = encrypt(x)
  BY <1>1, <1>2 DEF encryptAll
<1>4. /\ k_one \in Nat \ {0} /\ NumOne = k_one * RowSize
      /\ col \in [0 .. k_one * RowSize - 1 -> Value] /\ x \in Value
      /\ IsOrder(vi, k_one * RowSize)
  BY <1>1, Sizes, ColumnOne, PIRAssumption, ValueAssumption
<1> HIDE DEF col
<1>5. ZeroEntries(mid) = {e \in 0 .. NumOne - 1 : col[vi[e]] = x}
  BY <1>3, <1>4, CompareMarks
<1> HIDE DEF mid
<1>6. LUTin_one' = LUTin_one /\ Loaded'
  BY <1>1, TablesStay
<1>7. ComparedOne'
  BY <1>1, <1>2, <1>5, <1>6 DEF ComparedOne, col
<1>8. Asked(query)'
  BY <1>1 DEF Asked
<1> QED
  BY <1>1, <1>6, <1>7, <1>8 DEF PIRInv, OneEntrySelected

\* or the columns of two;
LEMMA ComputeATwoKeeps ==
  ASSUME PIRInv, NEW vi_x \in OrdersTwo, NEW vi_y \in OrdersTwo,
         NEW rnd_x \in [0 .. k_two - 1 -> Multipliers],
         NEW rnd_y \in [0 .. k_two - 1 -> Multipliers],
         computeAforTwoInput(vi_x, vi_y, rnd_x, rnd_y)
  PROVE  PIRInv'
<1> DEFINE col1 == LUTin_two[1]
           col2 == LUTin_two[2]
           mid1 == Compare(ctxts[1], Rows(Permuted(col1, vi_x), k_two), rnd_x)
           mid2 == Compare(ctxts[2], Rows(Permuted(col2, vi_y), k_two), rnd_y)
<1>1. /\ lut' = lut /\ files' = files /\ query' = query /\ output' = None
      /\ PIRquery' = <<>> /\ pc' = "calcPIR" /\ Asked(query) /\ Len(query) = 2
      /\ ctxts = encryptAll(query) /\ Loaded
      /\ midresult' = <<mid1, mid2>>
      /\ LUT_output' = Rows(PermutedOut(LUTout_two, vi_x, vi_y), ks)
  BY DEF PIRInv, computeAforTwoInput
<1>2. PICK x, y \in Inputs : query = <<x, y>>
  BY <1>1 DEF Asked
<1>3. ctxts[1] = encrypt(x) /\ ctxts[2] = encrypt(y)
  BY <1>1, <1>2 DEF encryptAll
<1>4. k_two \in Nat \ {0} /\ NumTwo = k_two * RowSize
  BY Sizes
<1>5. /\ col1 \in [0 .. k_two * RowSize - 1 -> Value] /\ x \in Value
      /\ IsOrder(vi_x, k_two * RowSize)
  BY <1>1, <1>4, ColumnTwo, PIRAssumption, ValueAssumption
<1>6. /\ col2 \in [0 .. k_two * RowSize - 1 -> Value] /\ y \in Value
      /\ IsOrder(vi_y, k_two * RowSize)
  BY <1>1, <1>4, ColumnTwo, PIRAssumption, ValueAssumption
<1> HIDE DEF col1, col2
<1>7. ZeroEntries(mid1) = {e \in 0 .. NumTwo - 1 : col1[vi_x[e]] = x}
  BY <1>3, <1>4, <1>5, CompareMarks
<1>8. ZeroEntries(mid2) = {e \in 0 .. NumTwo - 1 : col2[vi_y[e]] = y}
  BY <1>3, <1>4, <1>6, CompareMarks
<1> HIDE DEF mid1, mid2
<1>9. LUTin_two' = LUTin_two /\ LUTout_two' = LUTout_two /\ Loaded'
  BY <1>1, TablesStay
<1>10. ComparedTwo'
  BY <1>1, <1>2, <1>7, <1>8, <1>9 DEF ComparedTwo, col1, col2
<1>11. Asked(query)'
  BY <1>1 DEF Asked
<1> QED
  BY <1>1, <1>9, <1>10, <1>11 DEF PIRInv, OneEntrySelected

\* the Decryptor names the first zero of each;
LEMMA FoundMemberKeeps ==
  ASSUME PIRInv, FoundMember
  PROVE  PIRInv'
<1>1. /\ lut' = lut /\ files' = files /\ query' = query /\ output' = None
      /\ LUT_output' = LUT_output /\ pc' = "computeB" /\ Asked(query) /\ Loaded
      /\ ComparedOne \/ ComparedTwo
      /\ \A i \in DOMAIN midresult : ZeroEntries(midresult[i]) # {}
      /\ PIRquery' = IF Len(midresult) = 2
           THEN calcPIRqueriesForTwoInput(FirstZero(midresult[1]), FirstZero(midresult[2]))
           ELSE calcPIRqueriesForOneInput(FirstZero(midresult[1]))
  BY DEF PIRInv, FoundMember
<1>2. LUTin_one' = LUTin_one /\ LUTin_two' = LUTin_two /\ LUTout_two' = LUTout_two /\ Loaded'
  BY <1>1, TablesStay
<1>3. ASSUME ComparedOne PROVE FoundOne'
  <2>1. PICK x \in Inputs, vi \in OrdersOne :
          /\ query = <<x>> /\ LUT_output = Rows(Permuted(LUTin_one[2], vi), k_one)
          /\ midresult = <<midresult[1]>>
          /\ ZeroEntries(midresult[1]) = {e \in 0 .. NumOne - 1 : LUTin_one[1][vi[e]] = x}
    BY <1>3 DEF ComparedOne
  <2>2. Len(midresult) = 1 /\ 1 \in DOMAIN midresult
    BY <2>1
  <2> DEFINE e == FirstZero(midresult[1])
  <2>3. e \in ZeroEntries(midresult[1])
    BY <1>1, <2>2, FirstZeroIsZero
  <2>4. PIRquery' = calcPIRqueriesForOneInput(e)
    BY <1>1, <2>2
  <2> HIDE DEF e
  <2>5. FoundOne'
    BY <1>1, <1>2, <2>1, <2>3, <2>4 DEF FoundOne
  <2> QED
    BY <2>5
<1>4. ASSUME ComparedTwo PROVE FoundTwo'
  <2>1. PICK x, y \in Inputs, vi_x, vi_y \in OrdersTwo :
          /\ query = <<x, y>> /\ LUT_output = Rows(PermutedOut(LUTout_two, vi_x, vi_y), ks)
          /\ midresult = <<midresult[1], midresult[2]>>
          /\ ZeroEntries(midresult[1]) = {e \in 0 .. NumTwo - 1 : LUTin_two[1][vi_x[e]] = x}
          /\ ZeroEntries(midresult[2]) = {e \in 0 .. NumTwo - 1 : LUTin_two[2][vi_y[e]] = y}
    BY <1>4 DEF ComparedTwo
  <2>2. Len(midresult) = 2 /\ 1 \in DOMAIN midresult /\ 2 \in DOMAIN midresult
    BY <2>1
  <2> DEFINE e == FirstZero(midresult[1])
             f == FirstZero(midresult[2])
  <2>3. e \in ZeroEntries(midresult[1]) /\ f \in ZeroEntries(midresult[2])
    BY <1>1, <2>2, FirstZeroIsZero
  <2>4. PIRquery' = calcPIRqueriesForTwoInput(e, f)
    BY <1>1, <2>2
  <2> HIDE DEF e, f
  <2>5. FoundTwo'
    BY <1>1, <1>2, <2>1, <2>3, <2>4 DEF FoundTwo
  <2> QED
    BY <2>5
<1>5. Asked(query)'
  BY <1>1 DEF Asked
<1> QED
  BY <1>1, <1>2, <1>3, <1>4, <1>5 DEF PIRInv, OneEntrySelected

\* or says that there is none;
LEMMA NoFoundInputMemberKeeps ==
  ASSUME PIRInv, NoFoundInputMember
  PROVE  PIRInv'
<1>1. /\ lut' = lut /\ files' = files /\ query' = query
      /\ PIRquery' = <<>> /\ pc' = "done" /\ Asked(query) /\ Loaded
  BY DEF PIRInv, NoFoundInputMember
<1>2. Loaded'
  BY <1>1, TablesStay
<1>3. Asked(query)'
  BY <1>1 DEF Asked
<1> QED
  BY <1>1, <1>2, <1>3 DEF PIRInv, OneEntrySelected

\* computeB sums up the selected rows, which leaves the slot of the entry;
LEMMA ComputeBOneKeeps ==
  ASSUME PIRInv, computeBforOneInput
  PROVE  PIRInv'
<1>1. /\ lut' = lut /\ files' = files /\ query' = query /\ output' = None
      /\ PIRquery' = PIRquery /\ LUT_output' = LUT_output /\ pc' = "decrypt"
      /\ Asked(query) /\ Loaded /\ Len(query) = 1
      /\ FoundOne \/ FoundTwo
  BY DEF PIRInv, computeBforOneInput
<1>2. PICK sum : sum = sum_result'
  OBVIOUS
<1>3. sum = Sum(ProductsOne(PIRquery, LUT_output))
  BY <1>2 DEF computeBforOneInput, ProductsOne
<1>4. PICK x \in Inputs, vi \in OrdersOne, e \in 0 .. NumOne - 1 :
        /\ query = <<x>> /\ LUT_output = Rows(Permuted(LUTin_one[2], vi), k_one)
        /\ LUTin_one[1][vi[e]] = x /\ PIRquery = calcPIRqueriesForOneInput(e)
  BY <1>1 DEF FoundOne, FoundTwo
<1> DEFINE n == e \div RowSize
           j == e % RowSize
           v == LUTin_one[2][vi[e]]
           col == Permuted(LUTin_one[2], vi)
<1>5. /\ k_one \in Nat \ {0} /\ NumOne = k_one * RowSize
      /\ vi \in [0 .. NumOne - 1 -> 0 .. NumOne - 1]
      /\ LUTin_one[2] \in [0 .. NumOne - 1 -> Value]
  <2>1. k_one \in Nat \ {0} /\ NumOne = k_one * RowSize
    BY Sizes
  <2>2. IsOrder(vi, NumOne)
    BY PIRAssumption
  <2>3. LUTin_one[2] \in [0 .. NumOne - 1 -> Value]
    BY <1>1, ColumnOne
  <2> QED
    BY <2>1, <2>2, <2>3 DEF IsOrder
<1>6. n \in 0 .. k_one - 1 /\ j \in Slot /\ n * RowSize + j = e
  BY <1>5, EntryPlace
<1>7. col \in [0 .. k_one * RowSize - 1 -> Value] /\ col[e] = v /\ v \in Value
  BY <1>5 DEF Permuted
<1> HIDE DEF n, j, v, col
<1>8. LUT_output \in [0 .. k_one - 1 -> [Slot -> Int]] /\ LUT_output[n][j] = v
  <2>1. LUT_output = Rows(col, k_one)
    BY <1>4 DEF col
  <2> QED
    BY <1>5, <1>6, <1>7, <2>1, RowsOfColumn
<1>9. /\ PIRquery[1] = Unit(j)
      /\ \A s \in Slot : sum[s] = IF s = j THEN LUT_output[n][s] % Modulus ELSE 0
  <2>1. PIRquery[1] = Unit(j) /\ OneSlot(sum, LUT_output[n], j)
    BY <1>3, <1>4, <1>8, OneSum DEF n, j
  <2> QED
    BY <2>1 DEF OneSlot
<1>10. Selected'
  <2>1. LUTin_one' = LUTin_one /\ vi[e] \in 0 .. NumOne - 1
    BY <1>1, <1>5, TablesStay
  <2>2. v \in Held'
    BY <1>1, <1>4, <1>7, <2>1 DEF Held, v
  <2>3. \A s \in Slot : sum[s] = IF s = j THEN v % Modulus ELSE 0
    BY <1>8, <1>9
  <2> QED
    BY <1>2, <1>6, <1>7, <2>2, <2>3 DEF Selected
<1>11. OneEntrySelected'
  <2>1. \A s \in Slot : PIRquery[1][s] = 1 <=> s = j
    BY <1>9 DEF Unit
  <2>2. n \in DOMAIN LUT_output
    BY <1>6, <1>8
  <2> QED
    BY <1>1, <1>2, <1>9, <2>1, <2>2 DEF OneEntrySelected
<1>12. Loaded' /\ Asked(query)'
  BY <1>1, TablesStay DEF Asked
<1> QED
  BY <1>1, <1>10, <1>11, <1>12 DEF PIRInv

\* or those of two inputs;
LEMMA ComputeBTwoKeeps ==
  ASSUME PIRInv, computeBforTwoInput
  PROVE  PIRInv'
<1>1. /\ lut' = lut /\ files' = files /\ query' = query /\ output' = None
      /\ PIRquery' = PIRquery /\ LUT_output' = LUT_output /\ pc' = "decrypt"
      /\ Asked(query) /\ Loaded /\ Len(query) = 2
      /\ FoundOne \/ FoundTwo
  BY DEF PIRInv, computeBforTwoInput
<1>2. PICK sum : sum = sum_result'
  OBVIOUS
<1>3. sum = Sum(ProductsTwo(PIRquery, LUT_output))
  BY <1>2 DEF computeBforTwoInput, ProductsTwo
<1>4. PICK x, y \in Inputs, vi_x, vi_y \in OrdersTwo, e, f \in 0 .. NumTwo - 1 :
        /\ query = <<x, y>> /\ LUT_output = Rows(PermutedOut(LUTout_two, vi_x, vi_y), ks)
        /\ LUTin_two[1][vi_x[e]] = x /\ LUTin_two[2][vi_y[f]] = y
        /\ PIRquery = calcPIRqueriesForTwoInput(e, f)
  BY <1>1 DEF FoundOne, FoundTwo
<1> DEFINE n == e * k_two + (f \div RowSize)
           j == f % RowSize
           v == LUTout_two[vi_x[e] * NumTwo + vi_y[f]]
           col == PermutedOut(LUTout_two, vi_x, vi_y)
<1>5. /\ ks \in Nat \ {0}
      /\ vi_x[e] \in 0 .. NumTwo - 1 /\ vi_y[f] \in 0 .. NumTwo - 1
      /\ LUTout_two \in [0 .. NumTwo * NumTwo - 1 -> Value]
  <2>1. ks \in Nat \ {0}
    BY Sizes
  <2>2. IsOrder(vi_x, NumTwo) /\ IsOrder(vi_y, NumTwo)
    BY PIRAssumption
  <2>3. LUTout_two \in [0 .. NumTwo * NumTwo - 1 -> Value]
    BY <1>1, OutputTwo
  <2> QED
    BY <2>1, <2>2, <2>3 DEF IsOrder
<1>6. n \in 0 .. ks - 1 /\ j \in Slot /\ n * RowSize + j = e * NumTwo + f
  BY TwoPlace
<1>7. v \in Value
  <2>1. vi_x[e] * NumTwo + vi_y[f] \in 0 .. NumTwo * NumTwo - 1
    BY <1>1, <1>5, OutputTwo
  <2> QED
    BY <1>5, <2>1
<1>8. col \in [0 .. ks * RowSize - 1 -> Value] /\ col[e * NumTwo + f] = v
  <2>1. col \in [0 .. ks * RowSize - 1 -> Value]
    BY <1>5, PermutedOutputs
  <2>2. col[e * NumTwo + f] = v
    BY PermutedEntry, SMTT(30)
  <2> QED
    BY <2>1, <2>2
<1> HIDE DEF n, j, v, col
<1>9. LUT_output \in [0 .. ks - 1 -> [Slot -> Int]] /\ LUT_output[n][j] = v
  <2>1. LUT_output = Rows(col, ks)
    BY <1>4 DEF col
  <2>2. /\ Rows(col, ks) \in [0 .. ks - 1 -> [Slot -> Int]]
        /\ Rows(col, ks)[n][j] = col[n * RowSize + j]
    BY <1>5, <1>6, <1>8, RowsOfColumn
  <2> QED
    BY <1>6, <1>8, <2>1, <2>2
<1>10. /\ PIRquery[1] = Unit(j)
      /\ \A s \in Slot : sum[s] = IF s = j THEN LUT_output[n][s] % Modulus ELSE 0
  <2>1. PIRquery[1] = Unit(j) /\ OneSlot(sum, LUT_output[n], j)
    BY <1>3, <1>4, <1>9, TwoSum DEF n, j
  <2> QED
    BY <2>1 DEF OneSlot
<1>11. Selected'
  <2>1. LUTin_two' = LUTin_two /\ LUTout_two' = LUTout_two
    BY <1>1, TablesStay
  <2>2. v \in Held'
    BY <1>1, <1>4, <1>5, <1>7, <2>1 DEF Held, v
  <2>3. \A s \in Slot : sum[s] = IF s = j THEN v % Modulus ELSE 0
    BY <1>9, <1>10
  <2> QED
    BY <1>2, <1>6, <1>7, <2>2, <2>3 DEF Selected
<1>12. OneEntrySelected'
  <2>1. \A s \in Slot : PIRquery[1][s] = 1 <=> s = j
    BY <1>10 DEF Unit
  <2>2. n \in DOMAIN LUT_output
    BY <1>6, <1>9
  <2> QED
    BY <1>1, <1>2, <1>10, <2>1, <2>2 DEF OneEntrySelected
<1>13. Loaded' /\ Asked(query)'
  BY <1>1, TablesStay DEF Asked
<1> QED
  BY <1>1, <1>11, <1>12, <1>13 DEF PIRInv

\* the user decrypts;
LEMMA DecryptKeeps ==
  ASSUME PIRInv, decrypt
  PROVE  PIRInv'
<1>1. /\ lut' = lut /\ files' = files /\ query' = query /\ pc = "decrypt" /\ pc' = "done"
      /\ PIRquery' = PIRquery /\ LUT_output' = LUT_output /\ sum_result' = sum_result
      /\ Asked(query) /\ Loaded /\ OneEntrySelected
  BY DEF PIRInv, decrypt
<1>2. Loaded' /\ Asked(query)'
  BY <1>1, TablesStay DEF Asked
<1>3. OneEntrySelected'
  BY <1>1 DEF OneEntrySelected
<1> QED
  BY <1>1, <1>2, <1>3 DEF PIRInv

\* nothing happens.
LEMMA StutterKeeps ==
  ASSUME PIRInv, UNCHANGED vars
  PROVE  PIRInv'
<1>1. Loaded'
  BY TablesStay DEF PIRInv, vars
<1>2. LUTin_one' = LUTin_one /\ LUTin_two' = LUTin_two /\ LUTout_two' = LUTout_two
  BY TablesStay DEF vars
<1>3. (Asked(query) => Asked(query)') /\ (OneEntrySelected => OneEntrySelected')
  BY DEF Asked, OneEntrySelected, vars
<1>4. (ComparedOne \/ ComparedTwo) => (ComparedOne \/ ComparedTwo)'
  BY <1>2 DEF ComparedOne, ComparedTwo, vars
<1>5. (FoundOne \/ FoundTwo) => (FoundOne \/ FoundTwo)'
  BY <1>2 DEF FoundOne, FoundTwo, vars
<1>6. Selected => Selected'
  BY <1>2 DEF Selected, Held, vars
<1> QED
  BY <1>1, <1>3, <1>4, <1>5, <1>6 DEF PIRInv, vars

\* The inductive invariant.  It needs no assumption on the padding: when the
\* user asks for the padding value, the Decryptor finds padding, and the slot
\* it names is still the only one that is not zero.
THEOREM PIRInvariant == Spec => []PIRInv
<1>1. ASSUME PIRInv, [Next]_vars
      PROVE  PIRInv'
  <2>1. ASSUME NEW f \in files, LoadFile(f) PROVE PIRInv'
    BY <1>1, <2>1, LoadFileKeeps
  <2>2. ASSUME NEW f \in files, LoadThrows(f) PROVE PIRInv'
    BY <1>1, <2>2, LoadThrowsKeeps
  <2>3. ASSUME NEW x \in Inputs, Encrypt(<<x>>) PROVE PIRInv'
    <3>1. Asked(<<x>>)
      BY DEF Asked
    <3> QED
      BY <1>1, <2>3, <3>1, EncryptKeeps
  <2>4. ASSUME NEW x \in Inputs, NEW y \in Inputs, Encrypt(<<x, y>>) PROVE PIRInv'
    <3>1. Asked(<<x, y>>)
      BY DEF Asked
    <3> QED
      BY <1>1, <2>4, <3>1, EncryptKeeps
  <2>5. ASSUME NEW vi \in OrdersOne, NEW rnd \in [0 .. k_one - 1 -> Multipliers],
               computeAforOneInput(vi, rnd)
        PROVE  PIRInv'
    BY <1>1, <2>5, ComputeAOneKeeps
  <2>6. ASSUME NEW vi_x \in OrdersTwo, NEW vi_y \in OrdersTwo,
               NEW rnd_x \in [0 .. k_two - 1 -> Multipliers],
               NEW rnd_y \in [0 .. k_two - 1 -> Multipliers],
               computeAforTwoInput(vi_x, vi_y, rnd_x, rnd_y)
        PROVE  PIRInv'
    BY <1>1, <2>6, ComputeATwoKeeps
  <2>7. ASSUME FoundMember \/ NoFoundInputMember PROVE PIRInv'
    BY <1>1, <2>7, FoundMemberKeeps, NoFoundInputMemberKeeps
  <2>8. ASSUME computeBforOneInput \/ computeBforTwoInput \/ decrypt PROVE PIRInv'
    BY <1>1, <2>8, ComputeBOneKeeps, ComputeBTwoKeeps, DecryptKeeps
  <2>9. ASSUME Done \/ UNCHANGED vars PROVE PIRInv'
    BY <1>1, <2>9, StutterKeeps DEF Done
  <2> QED
    BY <1>1, <2>1, <2>2, <2>3, <2>4, <2>5, <2>6, <2>7, <2>8, <2>9 DEF Next
<1> QED
  BY <1>1, InitHolds, PTL DEF Spec

\* computeB returns one slot of one row of the permuted table, the slot of the
\* Decryptor's unit vector, for every order, choice of multipliers and table:
\* no two rows are added up and no slot moves.
THEOREM OneEntryIsSelected == Spec => []OneEntrySelected
<1>1. PIRInv => OneEntrySelected
  BY DEF PIRInv
<1> QED
  BY <1>1, PIRInvariant, PTL

-----------------------------------------------------------------------------
(***************************************************************************)
(* The protocol is a table lookup.                                         *)
(***************************************************************************)
\* What the decrypted slots show, is what the abstract lookup shows.
LEMMA DecryptShows ==
  ASSUME PIRInv, decrypt
  PROVE  \E v \in Held : output' = Lookup!Shown(v)
<1> DEFINE seq == [s \in 1 .. RowSize |-> decode(sum_result[s - 1])]
<1>1. output' = FoldLeft(Keep, <<>>, seq)
  BY DEF decrypt
<1>2. PICK v \in Held, j \in Slot :
        \A s \in Slot : sum_result[s] = IF s = j THEN v % Modulus ELSE 0
  BY DEF PIRInv, decrypt, Selected
<1>3. v \in Value /\ decode(v % Modulus) = v
  BY EncodedValue DEF Held
<1>4. RowSize \in Nat /\ DOMAIN seq = 1 .. RowSize
  BY SlotAssumption
<1>5. PICK e \in 1 .. RowSize : e - 1 = j
  <2>1. j + 1 \in 1 .. RowSize /\ (j + 1) - 1 = j
    BY <1>4 DEF Slot
  <2> QED
    BY <2>1
<1>6. seq[e] = v
  BY <1>2, <1>3, <1>5
<1>7. \A i \in (1 .. RowSize) \ {e} : seq[i] = 0
  <2> TAKE i \in (1 .. RowSize) \ {e}
  <2>1. i - 1 \in Slot /\ i - 1 # j
    BY <1>4, <1>5 DEF Slot
  <2>2. sum_result[i - 1] = 0
    BY <1>2, <2>1
  <2>3. decode(0) = 0
    BY SlotAssumption DEF decode
  <2> QED
    BY <2>2, <2>3
<1> HIDE DEF seq
<1>8. FoldLeft(Keep, <<>>, seq) = IF seq[e] = 0 THEN <<>> ELSE <<seq[e]>>
  BY <1>4, <1>7, KeepOfOne
<1>9. output' = Lookup!Shown(v)
  BY <1>1, <1>6, <1>8 DEF Lookup!Shown
<1> QED
  BY <1>9

\* A place of the columns that holds the inputs, holds their entry: none of
\* the padding does, as nobody asks for it.
LEMMA HeldIsTheEntry ==
  ASSUME Pad \notin Inputs, Loaded, NEW v \in Held
  PROVE  query \in DOMAIN Table /\ v = Table[query]
<1>1. ASSUME NEW x \in Inputs, NEW p \in 0 .. NumOne - 1,
             query = <<x>>, LUTin_one[1][p] = x, v = LUTin_one[2][p]
      PROVE  query \in DOMAIN Table /\ v = Table[query]
  <2>1. LUTin_one[1][p] # Pad
    BY <1>1
  <2>2. query \in DOMAIN lut.one /\ v = lut.one[query]
    BY <1>1, <2>1, ColumnOne
  <2> QED
    BY <2>2 DEF Table
<1>2. ASSUME NEW x \in Inputs, NEW y \in Inputs,
             NEW p \in 0 .. NumTwo - 1, NEW r \in 0 .. NumTwo - 1,
             query = <<x, y>>, LUTin_two[1][p] = x, LUTin_two[2][r] = y,
             v = LUTout_two[p * NumTwo + r]
      PROVE  query \in DOMAIN Table /\ v = Table[query]
  <2>1. p < Cardinality(Column(lut.two, 1)) /\ x \in Column(lut.two, 1)
    BY <1>2, ColumnTwo
  <2>2. r < Cardinality(Column(lut.two, 2)) /\ y \in Column(lut.two, 2)
    BY <1>2, ColumnTwo
  <2>3. LUTout_two[p * NumTwo + r] =
          IF <<x, y>> \in DOMAIN lut.two THEN lut.two[<<x, y>>] ELSE NoValue
    BY <1>2, <2>1, <2>2, OutputTwo
  <2>4. query \notin DOMAIN lut.one
    BY <1>2 DEF Loaded, OneMap
  <2> QED
    BY <1>2, <2>1, <2>2, <2>3, <2>4 DEF Table
<1> QED
  BY <1>1, <1>2 DEF Held

\* No zero in a column: no column holds the input, wherever the order put it.
LEMMA NoZeroNoEntry ==
  ASSUME Loaded, ComparedOne \/ ComparedTwo,
         NEW i \in DOMAIN midresult, ZeroEntries(midresult[i]) = {}
  PROVE  query \notin DOMAIN Table
<1>1. NumOne \in Nat /\ NumTwo \in Nat
  BY Sizes
<1>2. CASE ComparedOne
  <2>1. PICK x \in Inputs, vi \in OrdersOne :
          /\ query = <<x>> /\ midresult = <<midresult[1]>>
          /\ ZeroEntries(midresult[1]) = {e \in 0 .. NumOne - 1 : LUTin_one[1][vi[e]] = x}
    BY <1>2 DEF ComparedOne
  <2>2. IsOrder(vi, NumOne)
    BY PIRAssumption
  <2>3. i = 1
    BY <2>1
  <2>4. ASSUME query \in DOMAIN lut.one PROVE FALSE
    <3>1. PICK p \in 0 .. NumOne - 1 : <<LUTin_one[1][p]>> = query
      BY <2>4, ColumnOne
    <3>2. PICK e \in 0 .. NumOne - 1 : vi[e] = p
      BY <1>1, <2>2, OrderIsOnto
    <3>3. e \in ZeroEntries(midresult[1])
      BY <2>1, <3>1, <3>2
    <3> QED
      BY <2>3, <3>3
  <2> QED
    BY <2>1, <2>4 DEF Table
<1>3. CASE ComparedTwo
  <2>1. PICK x, y \in Inputs, vi_x, vi_y \in OrdersTwo :
          /\ query = <<x, y>> /\ midresult = <<midresult[1], midresult[2]>>
          /\ ZeroEntries(midresult[1]) = {e \in 0 .. NumTwo - 1 : LUTin_two[1][vi_x[e]] = x}
          /\ ZeroEntries(midresult[2]) = {e \in 0 .. NumTwo - 1 : LUTin_two[2][vi_y[e]] = y}
    BY <1>3 DEF ComparedTwo
  <2>2. IsOrder(vi_x, NumTwo) /\ IsOrder(vi_y, NumTwo)
    BY PIRAssumption
  <2>3. i \in {1, 2}
    BY <2>1
  <2>4. ASSUME x \in Column(lut.two, 1) PROVE ZeroEntries(midresult[1]) # {}
    <3>1. PICK p \in 0 .. NumTwo - 1 : LUTin_two[1][p] = x
      BY <2>4, ColumnTwo
    <3>2. PICK e \in 0 .. NumTwo - 1 : vi_x[e] = p
      BY <1>1, <2>2, OrderIsOnto
    <3> QED
      BY <2>1, <3>1, <3>2
  <2>5. ASSUME y \in Column(lut.two, 2) PROVE ZeroEntries(midresult[2]) # {}
    <3>1. PICK p \in 0 .. NumTwo - 1 : LUTin_two[2][p] = y
      BY <2>5, ColumnTwo
    <3>2. PICK e \in 0 .. NumTwo - 1 : vi_y[e] = p
      BY <1>1, <2>2, OrderIsOnto
    <3> QED
      BY <2>1, <3>1, <3>2
  <2>6. query \notin DOMAIN lut.one
    BY <2>1 DEF Loaded, OneMap
  <2> QED
    BY <2>1, <2>3, <2>4, <2>5, <2>6 DEF Table
<1> QED
  BY <1>2, <1>3

\* Every step of the protocol is a step of TableLookup or changes nothing it
\* sees: the entry is the one of the inputs, and a failure means they have none.
LEMMA StepIsLookupStep ==
  ASSUME Pad \notin Inputs, PIRInv, [Next]_vars
  PROVE  [Lookup!Load \/ Lookup!Ask \/ Lookup!Reply]_(Lookup!vars)
<1> DEFINE Step == Lookup!Load \/ Lookup!Ask \/ Lookup!Reply \/ UNCHANGED Lookup!vars
<1> SUFFICES Step
  OBVIOUS
<1>1. Asked(query) => query # None
  BY NoneAssumption DEF Asked
<1>2. ASSUME NEW f \in files, LoadFile(f) PROVE Step
  BY <1>2 DEF PIRInv, LoadFile, Lookup!Load
<1>3. ASSUME NEW q, Asked(q), Encrypt(q) PROVE Step
  <2>1. query = None /\ query' = q /\ output' = output /\ lut' = lut
    BY <1>3 DEF PIRInv, Encrypt
  <2>2. q # None
    BY <1>3, NoneAssumption DEF Asked
  <2>3. Table' = Table
    BY <2>1, TablesStay
  <2> QED
    BY <2>1, <2>2, <2>3 DEF Lookup!Ask
<1>4. ASSUME lut' = lut, query' = query, output' = output PROVE Step
  <2>1. Table' = Table
    BY <1>4, TablesStay
  <2> QED
    BY <1>4, <2>1 DEF Lookup!vars
<1>5. ASSUME NoFoundInputMember PROVE Step
  <2>1. /\ lut' = lut /\ query' = query /\ output = None /\ output' = Failed /\ Loaded
        /\ Asked(query)
        /\ ComparedOne \/ ComparedTwo
        /\ \E i \in DOMAIN midresult : ZeroEntries(midresult[i]) = {}
    BY <1>5 DEF PIRInv, NoFoundInputMember
  <2>2. query \notin DOMAIN Table
    BY <2>1, NoZeroNoEntry
  <2>3. Table' = Table
    BY <2>1, TablesStay
  <2> QED
    BY <1>1, <2>1, <2>2, <2>3 DEF Lookup!Reply, Lookup!Expected
<1>6. ASSUME decrypt PROVE Step
  <2>1. lut' = lut /\ query' = query /\ output = None /\ Loaded /\ Asked(query)
    BY <1>6 DEF PIRInv, decrypt
  <2>2. PICK v \in Held : output' = Lookup!Shown(v)
    BY <1>6, DecryptShows
  <2>3. query \in DOMAIN Table /\ v = Table[query]
    BY <2>1, HeldIsTheEntry
  <2>4. Table' = Table
    BY <2>1, TablesStay
  <2> QED
    BY <1>1, <2>1, <2>2, <2>3, <2>4 DEF Lookup!Reply, Lookup!Expected
<1> HIDE DEF Step
<1>7. ASSUME NEW x \in Inputs, Encrypt(<<x>>) PROVE Step
  <2>1. Asked(<<x>>)
    BY DEF Asked
  <2> QED
    BY <1>3, <1>7, <2>1
<1>8. ASSUME NEW x \in Inputs, NEW y \in Inputs, Encrypt(<<x, y>>) PROVE Step
  <2>1. Asked(<<x, y>>)
    BY DEF Asked
  <2> QED
    BY <1>3, <1>8, <2>1
<1>9. ASSUME \/ \E f \in files : LoadThrows(f)
             \/ \E vi \in OrdersOne, rnd \in [0 .. k_one - 1 -> Multipliers] :
                  computeAforOneInput(vi, rnd)
             \/ \E vi_x, vi_y \in OrdersTwo, rnd_x, rnd_y \in [0 .. k_two - 1 -> Multipliers] :
                  computeAforTwoInput(vi_x, vi_y, rnd_x, rnd_y)
             \/ FoundMember \/ computeBforOneInput \/ computeBforTwoInput
             \/ Done \/ UNCHANGED vars
      PROVE  Step
  <2>1. lut' = lut /\ query' = query /\ output' = output
    BY <1>9 DEF LoadThrows, computeAforOneInput, computeAforTwoInput, FoundMember,
                computeBforOneInput, computeBforTwoInput, Done, vars
  <2> QED
    BY <1>4, <2>1
<1> QED
  BY <1>2, <1>5, <1>6, <1>7, <1>8, <1>9 DEF Next

\* The protocol implements TableLookup, for all tables, orders, multipliers and
\* sizes, as long as nobody asks for the value that pads the columns: then the
\* first zero can be padding, and the run "pad" shows that it is.
THEOREM ProtocolIsTableLookup ==
  ASSUME Pad \notin Inputs
  PROVE  Spec => IsTableLookup
<1>1. Init => Lookup!Init
  BY DEF Init, Lookup!Init
<1>2. PIRInv /\ [Next]_vars => [Lookup!Load \/ Lookup!Ask \/ Lookup!Reply]_(Lookup!vars)
  BY StepIsLookupStep
<1> QED
  BY <1>1, <1>2, PIRInvariant, PTL DEF Spec, IsTableLookup, Lookup!Spec
=============================================================================
