------------------------------ MODULE Selection ------------------------------
(* Queues are kept in order by picking some places of a row one by one:    *)
(* Nth(places, n) is the n-th of them.                                     *)
EXTENDS Integers, FiniteSets

Nth(places, n) ==
  CHOOSE k \in places : Cardinality({j \in places : j <= k}) = n
==============================================================================
