-------------------------- MODULE EnvironmentCache ---------------------------
(***************************************************************************)
(* The cache of loaded environments of crates/core/src/sim: a list of      *)
(* entries, most recently used first, bounded by a number of slots and by  *)
(* a budget of bytes.  The operators are what its critical sections do to  *)
(* the list; the callers' interleaving is MapLibrary's.                    *)
(*                                                                         *)
(* An entry is [key, environment].  The key stands for the map source      *)
(* together with the configuration, by value.                              *)
(***************************************************************************)
EXTENDS Naturals, Sequences, SequencesExt

CONSTANTS Slots,     \* EnvironmentCache.capacity
          Budget,    \* EnvironmentCache.budget
          Size       \* [environments -> bytes]

ASSUME CacheAssumption == Slots \in Nat \ {0} /\ Budget \in Nat \ {0}

Entry(key, environment) == [key |-> key, environment |-> environment]

(* The bytes of the entries, one by one, and how many they are together.   *)
Bytes(entries) == UNION {{i} \X (1..Size[entries[i].environment]) : i \in DOMAIN entries}

HeldBytes(entries) == Cardinality(Bytes(entries))

Positions(entries, key) == {i \in DOMAIN entries : entries[i].key = key}

(* EnvironmentCache::take finds the first entry of a key ...               *)
Found(entries, key) ==
  CHOOSE i \in Positions(entries, key) : \A j \in Positions(entries, key) : i <= j

(* ... and moves it to the front.                                          *)
Used(entries, key) ==
  LET i == Found(entries, key)
  IN <<entries[i]>> \o SubSeq(entries, 1, i - 1) \o SubSeq(entries, i + 1, Len(entries))

Truncated(entries) == SubSeq(entries, 1, IF Len(entries) < Slots THEN Len(entries) ELSE Slots)

Bug_Evicted(entries) ==
  LET keeps(n) == n = 1 \/ HeldBytes(SubSeq(entries, 2, n)) <= Budget
  IN SubSeq(entries, 1, Max({n \in DOMAIN entries : keeps(n)}))

(* EnvironmentCache::evict drops from the back until the budget holds, but *)
(* never the newest entry: the longest beginning that fits is left.        *)
Evicted(entries) ==
  LET keeps(n) == n = 1 \/ HeldBytes(SubSeq(entries, 1, n)) <= Budget
  IN SubSeq(entries, 1, Max({n \in DOMAIN entries : keeps(n)}))

(* EnvironmentCache::store.  It does not look whether the key is there.    *)
Stored(entries, key, environment) ==
  Evicted(Truncated(<<Entry(key, environment)>> \o entries))

(* Both bounds, with the newest entry excused from the second one.         *)
WithinBounds(entries) ==
  /\ Len(entries) <= Slots
  /\ Len(entries) > 1 => HeldBytes(entries) <= Budget
=============================================================================
