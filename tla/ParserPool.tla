----------------------------- MODULE ParserPool -----------------------------
(***************************************************************************)
(* RawDataProcessor.Process (TesterSuit/YcsbModules/ProcRawData.py): one   *)
(* thread per pair of raw data files, a semaphore that lets some of them   *)
(* parse at a time, and a collector that polls the threads and removes     *)
(* each finished one from the list it is iterating over.                   *)
(*                                                                         *)
(* A row is represented by the thread it comes from; that of a failed      *)
(* thread is None in the code.                                             *)
(***************************************************************************)
EXTENDS Integers, Sequences, FiniteSets

CONSTANTS
  NumPairs,        \* the length of idPairList, which is never empty
  NumberOfThreads  \* NUMBER_OF_THREADS, the semaphore's initial value

ASSUME PoolAssumption == NumPairs \in Nat \ {0} /\ NumberOfThreads \in Nat \ {0}

VARIABLES
  pc,             \* where each thread is
  failed,         \* the threads whose parsing raised
  sema,           \* the semaphore
  collector,      \* where Process is
  parThreadList,  \* the threads that are still to be collected
  index,          \* the position of "for item in parThreadList"
  resRows,        \* the rows collected
  error           \* the first exception collected, 0 for None

vars == <<pc, failed, sema, collector, parThreadList, index, resRows, error>>
processVars == <<collector, parThreadList, index, resRows, error>>

Pairs == 1 .. NumPairs
Parsing == {t \in Pairs : pc[t] \in {"parse", "release"}}

Goto(t, label) == pc' = [pc EXCEPT ![t] = label]

Init ==
  /\ pc = [t \in Pairs |-> "new"]
  /\ failed = {}
  /\ sema = NumberOfThreads
  /\ collector = "start"
  /\ parThreadList = <<>>
  /\ index = 0
  /\ resRows = <<>>
  /\ error = 0

----------------------------------------------------------------------------
(* ResultParserThread.run *)

Acquire(t) ==
  /\ pc[t] = "acquire" /\ sema > 0
  /\ sema' = sema - 1
  /\ Goto(t, "parse")
  /\ UNCHANGED <<failed, processVars>>

\* A slip of Parse: the release is inside "try", and skipped by an exception.
ParseKeepsPermit(t) ==
  /\ pc[t] = "parse"
  /\ \/ failed' = failed /\ Goto(t, "release")
     \/ failed' = failed \cup {t} /\ Goto(t, "flag")
  /\ UNCHANGED <<sema, processVars>>

\* A slip of Parse: an exception releases, and so does the line after it.
ParseReleasesToo(t) ==
  /\ pc[t] = "parse"
  /\ \/ failed' = failed /\ UNCHANGED sema
     \/ failed' = failed \cup {t} /\ sema' = sema + 1
  /\ Goto(t, "release")
  /\ UNCHANGED processVars

\* ProcessResultSet returns or raises; either way the thread goes on to release.
Parse(t) ==
  /\ pc[t] = "parse"
  /\ failed' \in {failed, failed \cup {t}}
  /\ Goto(t, "release")
  /\ UNCHANGED <<sema, processVars>>

Release(t) ==
  /\ pc[t] = "release"
  /\ sema' = sema + 1
  /\ Goto(t, "flag")
  /\ UNCHANGED <<failed, processVars>>

\* finishFlag.set(); the thread is still alive after it.
SetFinishFlag(t) ==
  /\ pc[t] = "flag"
  /\ Goto(t, "finished")
  /\ UNCHANGED <<failed, sema, processVars>>

Exit(t) ==
  /\ pc[t] = "finished"
  /\ Goto(t, "dead")
  /\ UNCHANGED <<failed, sema, processVars>>

----------------------------------------------------------------------------
(* RawDataProcessor.Process *)

StartThread ==
  /\ collector = "start"
  /\ LET t == Len(parThreadList) + 1 IN
       /\ Goto(t, "acquire")
       /\ parThreadList' = Append(parThreadList, t)
       /\ collector' = IF t = NumPairs THEN "sweep" ELSE "start"
  /\ UNCHANGED <<failed, sema, index, resRows, error>>

IsFinished(t) == pc[t] \in {"finished", "dead"}

\* The next item of the "for": a finished one is joined, another passed over.
Poll ==
  /\ collector = "sweep" /\ index < Len(parThreadList)
  /\ \/ /\ IsFinished(parThreadList[index + 1])
        /\ collector' = "join"
        /\ UNCHANGED index
     \/ /\ ~IsFinished(parThreadList[index + 1])
        /\ index' = index + 1
        /\ UNCHANGED collector
  /\ UNCHANGED <<pc, failed, sema, parThreadList, resRows, error>>

\* A slip of Without: the last item is removed.
WithoutLast(list, k) == SubSeq(list, 1, Len(list) - 1)
Without(list, k) == SubSeq(list, 1, k - 1) \o SubSeq(list, k + 1, Len(list))

\* A slip of Collect: the thread that has set its flag is not joined.
CollectUnjoined ==
  /\ collector = "join"
  /\ LET t == parThreadList[index + 1] IN
       /\ resRows' = Append(resRows, t)
       /\ error' = IF t \in failed /\ error = 0 THEN t ELSE error
  /\ parThreadList' = Without(parThreadList, index + 1)
  /\ index' = index + 1
  /\ collector' = "sweep"
  /\ UNCHANGED <<pc, failed, sema>>

\* JoinAndGetResult returns or raises when the thread is dead; the item leaves
\* the list, and the "for" goes on at the next index of what is left.
Collect ==
  /\ collector = "join"
  /\ LET t == parThreadList[index + 1] IN
       /\ pc[t] = "dead"
       /\ resRows' = Append(resRows, t)
       /\ error' = IF t \in failed /\ error = 0 THEN t ELSE error
  /\ parThreadList' = Without(parThreadList, index + 1)
  /\ index' = index + 1
  /\ collector' = "sweep"
  /\ UNCHANGED <<pc, failed, sema>>

\* The "for" is over: "while" begins another, or Process ends.
EndSweep ==
  /\ collector = "sweep" /\ index >= Len(parThreadList)
  /\ \/ parThreadList # <<>> /\ index' = 0 /\ UNCHANGED collector
     \/ /\ parThreadList = <<>>
        /\ collector' = IF error = 0 THEN "returned" ELSE "raised"
        /\ UNCHANGED index
  /\ UNCHANGED <<pc, failed, sema, parThreadList, resRows, error>>

Ended == collector \in {"returned", "raised"}

----------------------------------------------------------------------------
ThreadNext(t) == Acquire(t) \/ Parse(t) \/ Release(t) \/ SetFinishFlag(t) \/ Exit(t)
ProcessNext == StartThread \/ Poll \/ Collect \/ EndSweep

Next ==
  \/ ProcessNext
  \/ \E t \in Pairs : ThreadNext(t)
  \/ Ended /\ UNCHANGED vars

\* Each thread is scheduled, and what it parses is finite.
Fairness == WF_vars(ProcessNext) /\ \A t \in Pairs : WF_vars(ThreadNext(t))

Spec == Init /\ [][Next]_vars /\ Fairness

----------------------------------------------------------------------------
TypeOK ==
  /\ pc \in [Pairs -> {"new", "acquire", "parse", "release", "flag", "finished", "dead"}]
  /\ failed \subseteq Pairs
  /\ sema \in 0 .. NumberOfThreads
  /\ collector \in {"start", "sweep", "join", "returned", "raised"}
  /\ parThreadList \in Seq(Pairs)
  /\ index \in Nat
  /\ resRows \in Seq(Pairs)
  /\ error \in Pairs \cup {0}

\* The semaphore counts: the threads that parse and the permits left are always
\* NUMBER_OF_THREADS together, whether parsing returns or raises.
PermitsAddUp == sema + Cardinality(Parsing) = NumberOfThreads

NoDuplicates(s) == \A j, k \in 1 .. Len(s) : s[j] = s[k] => j = k
Waiting(t) == \E k \in 1 .. Len(parThreadList) : parThreadList[k] = t
Collected(t) == \E k \in 1 .. Len(resRows) : resRows[k] = t

\* Removing from the list that is iterated over loses no thread and collects
\* none twice: every thread that was started is in the list or has its one row.
EachCollectedOnce ==
  /\ NoDuplicates(parThreadList)
  /\ NoDuplicates(resRows)
  /\ \A t \in Pairs : /\ ~(Waiting(t) /\ Collected(t))
                      /\ pc[t] # "new" <=> Waiting(t) \/ Collected(t)

\* Process returns when every thread has succeeded and raises when one has not,
\* and no thread is running any more then.
OutcomeIsRight ==
  Ended => /\ \A t \in Pairs : pc[t] = "dead"
           /\ collector = "returned" <=> failed = {}

\* Process comes to an end.
Terminates == <>Ended
=============================================================================
