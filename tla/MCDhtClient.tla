---------------------------- MODULE MCDhtClient ----------------------------
(* Small instances of DhtClient for TLC. *)
EXTENDS DhtClient, TLC

CONSTANTS k1, k2, n1, n2

\* The ring: k1 belongs to n1, another key to n2.
Ring == [k \in Keys |-> IF k = k1 THEN n1 ELSE n2]

\* Threads are interchangeable, values are, and so are the two keys together with
\* their nodes.
Turned == (k1 :> k2) @@ (k2 :> k1) @@ (n1 :> n2) @@ (n2 :> n1)
Symmetry ==
  {p @@ v @@ r : p \in Permutations(Threads), v \in Permutations(Values),
                 r \in {Turned, [x \in {k1, k2, n1, n2} |-> x]}}
=============================================================================
