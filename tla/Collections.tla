----------------------------- MODULE Collections -----------------------------
(***************************************************************************)
(* What the libraries of C++ and Python do with collections: the elements  *)
(* of a set in their order, as std::set keeps them and as sorting arranges *)
(* them, and the sum of numbers.                                           *)
(***************************************************************************)
EXTENDS Integers, Sequences, FiniteSets

\* The k-th element is the one that k - 1 others come before; before is a set of pairs.
SortedBy(S, before) ==
  [k \in 1 .. Cardinality(S) |->
     CHOOSE x \in S : Cardinality({y \in S : <<y, x>> \in before}) = k - 1]

\* A list sorted by the numbers key assigns to its places; equal ones stay as they were.
SortedPlaces(key) ==
  SortedBy(DOMAIN key, {p \in (DOMAIN key) \X (DOMAIN key) :
                          key[p[1]] < key[p[2]] \/ (key[p[1]] = key[p[2]] /\ p[1] < p[2])})

\* The sum of a sequence of numbers.
Total(values) ==
  LET upTo[k \in 0 .. Len(values)] == IF k = 0 THEN 0 ELSE upTo[k - 1] + values[k]
  IN upTo[Len(values)]
=============================================================================
