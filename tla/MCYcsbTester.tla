---------------------------- MODULE MCYcsbTester ----------------------------
(* Small instances of YcsbTester for TLC. *)
EXTENDS YcsbTester, TLC

CONSTANTS c0, c1, c2

Case(n, r) == [nodes |-> n, rounds |-> r]
OfAll(val) == [c \in Clients |-> val]
Index == [c \in Clients |-> CASE c = c0 -> 0 [] c = c1 -> 1 [] c = c2 -> 2]

\* Two entries with three test cases that differ in their nodes and rounds.
SmoothSetup ==
  [idx |-> Index, total |-> OfAll(Cardinality(Clients)), ports |-> <<1, 2>>,
   plan |-> OfAll(<<<<Case(1, 1), Case(3, 1)>>, <<Case(2, 0)>>>>),
   mayFail |-> {}, serverMayFail |-> FALSE]

\* The same where anything may fail.
FaultySetup == [SmoothSetup EXCEPT !.mayFail = Clients, !.serverMayFail = TRUE]

\* The second entry is at the port of the first.
SamePortSetup == [SmoothSetup EXCEPT !.ports = <<1, 1>>, !.plan = OfAll(<<<<Case(1, 0)>>, <<>>>>)]

\* The master asks for more nodes than the server has processors for.
GreedySetup == [FaultySetup EXCEPT !.plan = OfAll(<<<<Case(1, 1), Case(4, 0)>>, <<>>>>)]

\* One client more than the server was told of: two claim the index 1.
ClashingSetup ==
  [FaultySetup EXCEPT !.idx = [c \in Clients |-> IF c = c0 THEN 0 ELSE 1],
                      !.total = OfAll(Cardinality(Clients) - 1)]

\* One client counts the clients differently.
DisagreeingSetup ==
  [FaultySetup EXCEPT !.total = [c \in Clients |-> IF c = c1 THEN 2 ELSE 3]]

\* One client has a round more than the others, who have a test case more.
LongerSetup ==
  [FaultySetup EXCEPT !.ports = <<1>>, !.plan =
     [c \in Clients |-> IF c = c1 THEN <<<<Case(1, 1)>>>> ELSE <<<<Case(1, 0), Case(2, 0)>>>>]]

\* The clashing one over three entries: who was dropped may come again.
ThreeEntriesSetup ==
  [ClashingSetup EXCEPT !.ports = <<1, 2, 3>>,
                        !.plan = OfAll(<<<<Case(1, 0)>>, <<>>, <<Case(1, 0)>>>>)]

AllSetups == {SmoothSetup, FaultySetup, SamePortSetup, GreedySetup, ClashingSetup,
              DisagreeingSetup, LongerSetup, ThreeEntriesSetup}

\* A client whose configuration lists fewer rounds than the master's.
UnequalSetups ==
  {[SmoothSetup EXCEPT !.ports = <<1>>,
                       !.plan = [c \in Clients |-> <<<<Case(1, IF c = c0 THEN 2 ELSE 1)>>>>]]}
=============================================================================
