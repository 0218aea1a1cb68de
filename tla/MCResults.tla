----------------------------- MODULE MCResults -----------------------------
(* Small instances of ResultPairs and YcsbResults for TLC.  The two share no
   state: what is written is either files of results or their lines, and
   everything either of them can come to is explored. *)
EXTENDS YcsbResults, ResultPairs

\* The later an operation, the quicker, and a failure takes longest.
Latencies ==
  [op \in Ops |-> [ts \in Timestamps |-> IF op \in FailedOps THEN 9 ELSE 8 - 2 * ts]]

\* Not in the order of their times, with one before and one after the benchmark.
Samples ==
  [k \in 1 .. 6 |-> [ts |-> <<2, 1, -1, 0, 4, 3>>[k], overall |-> k, node |-> k, sys |-> 1,
                    procs |-> <<k, 2 * k>>]]

\* '-1' may be in the components that are shared, and in those that are added up.
SomeForms == {-1, 1}
SomeWild == {-1, 2, 3}

NoFiles == \A d \in DOMAIN dirs : dirs[d] = <<>>
NoLines == \A f \in DOMAIN files : files[f] = <<>>

ResultsInit == Init /\ PairsInit

WriteFile == NoLines /\ PairsNext /\ UNCHANGED vars
WriteLine == NoFiles /\ Next /\ UNCHANGED dirs

ResultsSpec == ResultsInit /\ [][WriteFile \/ WriteLine]_<<vars, dirs>>
=============================================================================
