------------------------ MODULE MCConnectionManager ------------------------
(* Small instances of ConnectionManager for TLC. *)
EXTENDS ConnectionManager, TLC

\* Threads and sessions are interchangeable.
Symmetry == Permutations(Threads) \cup Permutations(Sessions)

\* The values of maxOpPerTicket the runs explore; -1 turns counting off.
Two == {2}
OffAndTwo == {-1, 2}
OffAndThree == {-1, 3}
=============================================================================
