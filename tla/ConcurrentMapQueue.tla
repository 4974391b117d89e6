------------------------- MODULE ConcurrentMapQueue -------------------------
(***************************************************************************)
(* The container of fts_share/fts_concurrent_mapqueue.hpp: a std::map from *)
(* an ordered key to a value.  A map is a function on Key whose value is   *)
(* NoEntry at the keys that are absent.  The operators are the effects of  *)
(* the class's members; which of them run under mtx_ is the business of    *)
(* the modules that use them.                                              *)
(***************************************************************************)
EXTENDS Integers, FiniteSets

CONSTANTS
  Key,      \* the keys: non-negative ints, ordered by std::less
  NoEntry   \* marks a key that is not in the map

ASSUME KeyAssumption == Key \subseteq Nat /\ IsFiniteSet(Key)

Maps(Value) == [Key -> Value \cup {NoEntry}]

EmptyMap == [k \in Key |-> NoEntry]

Keys(m) == {k \in Key : m[k] # NoEntry}

size(m) == Cardinality(Keys(m))

\* std::map::emplace inserts nothing when the key is present, and the class
\* ignores the bool it returns.
emplace(m, k, v) == IF m[k] = NoEntry THEN [m EXCEPT ![k] = v] ELSE m

\* begin(): the entry with the smallest key, not the oldest one.
front(m) == CHOOSE k \in Keys(m) : \A j \in Keys(m) : k <= j

erase(m, k) == [m EXCEPT ![k] = NoEntry]

\* What the unlocked count() may return: whether the key is there, or a miss
\* when another thread is restructuring the tree during the search.
count(m, k, racing) == {k \in Keys(m)} \cup {b \in {FALSE} : racing}
=============================================================================
