-------------------------- MODULE MCConnectionPool --------------------------
(* Small instances of ConnectionPool for TLC. *)
EXTENDS ConnectionPool, TLC

\* Threads, objects, packages and connections are interchangeable.
Symmetry ==
  {t @@ b @@ p @@ c : t \in Permutations(Threads), b \in Permutations(Bindings),
                      p \in Permutations(Packages), c \in Permutations(Conns)}
=============================================================================
