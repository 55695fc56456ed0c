------------------------------- MODULE Cache -------------------------------
(***************************************************************************)
(* What a cache of key-value pairs promises: it has room for Capacity      *)
(* keys; a write is remembered, and makes the cache forget at most one     *)
(* other key, and that only when it is full.                               *)
(***************************************************************************)
EXTENDS Naturals, FiniteSets

CONSTANTS Keys, Values, Capacity

VARIABLE cached   \* a set of pairs, at most one for each key

Others(key) == {p \in cached : p.key # key}

Init == cached = {}

Remove(key) == cached' = Others(key)

Write(key, value) ==
  \E victims \in SUBSET Others(key) :
    /\ Cardinality(victims) <=
         (IF Others(key) = cached /\ Cardinality(cached) = Capacity THEN 1 ELSE 0)
    /\ cached' = (Others(key) \ victims) \cup {[key |-> key, value |-> value]}

Clear == cached' = {}

Next == \/ Clear
        \/ \E key \in Keys : Remove(key) \/ \E value \in Values : Write(key, value)

Spec == Init /\ [][Next]_cached
=============================================================================
