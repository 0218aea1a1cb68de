-------------------------- MODULE ParserPoolProofs --------------------------
(***************************************************************************)
(* Proofs about ParserPool, for every number of files and of permits.      *)
(*                                                                         *)
(* IInv says besides the invariants that are its point where the threads   *)
(* and the collector can be together: the list grows in order while        *)
(* threads are started, the item being joined has set its flag, what was   *)
(* collected is dead, and the error is one that was collected.             *)
(***************************************************************************)
EXTENDS ParserPool, FiniteSetTheorems, SequenceTheorems, TLAPS

\* While threads are started the list is 1, 2, ... and nothing is collected;
\* later every thread has been started.
StartInOrder ==
  /\ collector = "start" =>
       /\ Len(parThreadList) < NumPairs
       /\ \A k \in 1 .. Len(parThreadList) : parThreadList[k] = k
       /\ resRows = <<>>
  /\ collector # "start" => \A t \in Pairs : pc[t] # "new"

\* The item that Process joins is in the list and has set its flag.
JoinsFinished ==
  collector = "join" => /\ index < Len(parThreadList)
                        /\ IsFinished(parThreadList[index + 1])

\* Only a thread that has parsed can have failed; a collected thread is dead,
\* and if it failed an error was kept; the error is that of a failed thread.
FailureIsKept ==
  /\ \A t \in failed : pc[t] \notin {"new", "acquire", "parse"}
  /\ \A t \in Pairs : Collected(t) => pc[t] = "dead" /\ (t \in failed => error # 0)
  /\ error # 0 => error \in failed

\* Process ends with an empty list, by an exception if it kept one.
EndsEmpty ==
  Ended => parThreadList = <<>> /\ (collector = "returned" <=> error = 0)

IInv ==
  /\ TypeOK /\ PermitsAddUp /\ EachCollectedOnce
  /\ StartInOrder /\ JoinsFinished /\ FailureIsKept /\ EndsEmpty

----------------------------------------------------------------------------
\* What "parThreadList.remove(item)" leaves: the items before and after it.
LEMMA WithoutIs ==
  ASSUME NEW S, NEW list \in Seq(S), NEW k \in 1 .. Len(list)
  PROVE  /\ Without(list, k) \in Seq(S)
         /\ Len(Without(list, k)) = Len(list) - 1
         /\ \A j \in 1 .. Len(list) - 1 :
              Without(list, k)[j] = IF j < k THEN list[j] ELSE list[j + 1]
<1> DEFINE left == SubSeq(list, 1, k - 1)
<1> DEFINE right == SubSeq(list, k + 1, Len(list))
<1>1. left \in Seq(S) /\ Len(left) = k - 1 /\ \A j \in 1 .. k - 1 : left[j] = list[j]
  OBVIOUS
<1>2. /\ right \in Seq(S) /\ Len(right) = Len(list) - k
      /\ \A j \in 1 .. Len(list) - k : right[j] = list[j + k]
  OBVIOUS
<1> HIDE DEF left, right
<1>3. left \o right \in Seq(S)
  BY <1>1, <1>2
<1>5. Len(left \o right) = Len(list) - 1
  <2>1. Len(left \o right) = Len(left) + Len(right)
    BY <1>1, <1>2, ConcatProperties
  <2> QED BY <2>1, <1>1, <1>2
<1>4. \A j \in 1 .. Len(list) - 1 :
        (left \o right)[j] = IF j < k THEN list[j] ELSE list[j + 1]
  BY <1>1, <1>2
<1> QED BY <1>3, <1>4, <1>5 DEF Without, left, right

\* The threads that parse are finitely many.
LEMMA ParsingIsFinite == IsFiniteSet(Parsing) /\ Cardinality(Parsing) \in Nat
<1>1. IsFiniteSet(Pairs)
  BY PoolAssumption, FS_Interval DEF Pairs
<1>2. Parsing \subseteq Pairs
  BY DEF Parsing
<1>3. IsFiniteSet(Parsing)
  BY <1>1, <1>2, FS_Subset
<1> QED BY <1>3, FS_CardinalityType

\* Initially no thread has been started.
LEMMA InitIInv == Init => IInv
<1> SUFFICES ASSUME Init PROVE IInv
  OBVIOUS
<1> USE PoolAssumption DEF Init
<1>1. TypeOK
  BY DEF TypeOK
<1>2. PermitsAddUp
  <2>1. Parsing = {}
    BY DEF Parsing
  <2> QED BY <2>1, FS_EmptySet DEF PermitsAddUp
<1>3. EachCollectedOnce
  BY DEF EachCollectedOnce, NoDuplicates, Waiting, Collected
<1>4. StartInOrder /\ JoinsFinished /\ FailureIsKept /\ EndsEmpty
  BY DEF StartInOrder, JoinsFinished, FailureIsKept, EndsEmpty, Ended, Collected
<1> QED BY <1>1, <1>2, <1>3, <1>4 DEF IInv

\* Every step of a thread preserves it.
LEMMA ThreadIInv == ASSUME NEW t \in Pairs, IInv, ThreadNext(t) PROVE IInv'
<1> USE DEF IInv, ThreadNext
<1> USE DEF Acquire, Parse, Release, SetFinishFlag, Exit, Goto, processVars
<1>0. \A u \in Pairs : pc'[u] # "new" <=> pc[u] # "new"
  <2>1. PICK label \in {"parse", "release", "flag", "finished", "dead"} :
          pc' = [pc EXCEPT ![t] = label]
    OBVIOUS
  <2> QED BY <2>1 DEF TypeOK
<1>1. TypeOK'
  <2>1. pc[t] = "release" => sema + 1 \in 0 .. NumberOfThreads
    <3> SUFFICES ASSUME pc[t] = "release" PROVE sema + 1 \in 0 .. NumberOfThreads
      OBVIOUS
    <3>1. t \in Parsing
      BY DEF Parsing
    <3>2. Cardinality(Parsing \ {t}) = Cardinality(Parsing) - 1
      BY <3>1, ParsingIsFinite, FS_RemoveElement
    <3>3. Cardinality(Parsing \ {t}) \in Nat
      BY ParsingIsFinite, FS_RemoveElement, FS_CardinalityType
    <3> QED BY <3>2, <3>3, ParsingIsFinite, PoolAssumption DEF PermitsAddUp, TypeOK
  <2>2. sema' \in 0 .. NumberOfThreads
    BY <2>1, PoolAssumption DEF TypeOK
  <2>3. /\ pc' \in [Pairs -> {"new", "acquire", "parse", "release", "flag", "finished", "dead"}]
        /\ failed' \subseteq Pairs
    BY DEF TypeOK
  <2> QED BY <2>2, <2>3 DEF TypeOK
<1>2. PermitsAddUp'
  <2>1. CASE Acquire(t)
    <3>1. Parsing' = Parsing \cup {t} /\ t \notin Parsing
      BY <2>1 DEF TypeOK, Parsing
    <3>2. Cardinality(Parsing') = Cardinality(Parsing) + 1
      BY <3>1, ParsingIsFinite, FS_AddElement
    <3> QED BY <3>2, <2>1, ParsingIsFinite, PoolAssumption DEF PermitsAddUp, TypeOK
  <2>2. CASE Release(t)
    <3>1. Parsing' = Parsing \ {t} /\ t \in Parsing
      BY <2>2 DEF TypeOK, Parsing
    <3>2. Cardinality(Parsing') = Cardinality(Parsing) - 1
      BY <3>1, ParsingIsFinite, FS_RemoveElement
    <3> QED BY <3>2, <2>2, ParsingIsFinite, PoolAssumption DEF PermitsAddUp, TypeOK
  <2>3. CASE Parse(t) \/ SetFinishFlag(t) \/ Exit(t)
    <3>1. Parsing' = Parsing
      BY <2>3 DEF TypeOK, Parsing
    <3> QED BY <3>1, <2>3 DEF PermitsAddUp
  <2> QED BY <2>1, <2>2, <2>3
<1>3. EachCollectedOnce'
  <2>1. UNCHANGED <<parThreadList, resRows>>
    OBVIOUS
  <2>2. \A u \in Pairs : (Waiting(u)' <=> Waiting(u)) /\ (Collected(u)' <=> Collected(u))
    BY <2>1 DEF Waiting, Collected
  <2>3. NoDuplicates(parThreadList)' /\ NoDuplicates(resRows)'
    BY <2>1 DEF NoDuplicates, EachCollectedOnce
  <2> QED BY <1>0, <2>2, <2>3 DEF EachCollectedOnce
<1>4. StartInOrder'
  <2>1. \A u \in Pairs : pc[u] # "new" => pc'[u] # "new"
    BY <1>0
  <2>2. UNCHANGED <<collector, parThreadList, resRows>>
    OBVIOUS
  <2> QED BY <2>1, <2>2 DEF StartInOrder
<1>5. JoinsFinished'
  BY DEF JoinsFinished, IsFinished, TypeOK
<1>6. FailureIsKept'
  <2>1. \A u \in Pairs : Collected(u)' <=> Collected(u)
    BY DEF Collected
  <2> QED BY <2>1 DEF FailureIsKept, TypeOK
<1>7. EndsEmpty'
  BY DEF EndsEmpty, Ended
<1> QED BY <1>1, <1>2, <1>3, <1>4, <1>5, <1>6, <1>7

\* Starting a thread does: the list grows by the next number.
LEMMA StartIInv == ASSUME IInv, StartThread PROVE IInv'
<1> DEFINE t == Len(parThreadList) + 1
<1> USE DEF IInv, StartThread, Goto
<1>1. /\ t \in Pairs /\ t \in Nat
      /\ parThreadList' \in Seq(Pairs) /\ Len(parThreadList') = t
      /\ \A k \in 1 .. t : parThreadList'[k] = k
  BY PoolAssumption DEF TypeOK, StartInOrder, Pairs
<1>2. resRows = <<>> /\ UNCHANGED <<failed, sema, index, resRows, error>>
  BY DEF StartInOrder
<1>3. pc[t] = "new" /\ pc' = [pc EXCEPT ![t] = "acquire"]
  BY <1>1, <1>2 DEF StartInOrder, EachCollectedOnce, Waiting, Collected, Pairs, TypeOK
<1> HIDE DEF t
<1>4. TypeOK'
  BY <1>1, <1>2, <1>3 DEF TypeOK
<1>5. PermitsAddUp'
  <2>1. Parsing' = Parsing
    BY <1>3 DEF Parsing, TypeOK
  <2> QED BY <2>1, <1>2 DEF PermitsAddUp
<1>6. EachCollectedOnce'
  <2>1. \A u \in Pairs : ~Collected(u)' /\ (Waiting(u)' <=> u <= t)
    BY <1>1, <1>2 DEF Collected, Waiting, Pairs
  <2>2. \A u \in Pairs : pc'[u] # "new" <=> u <= t
    <3>1. \A u \in Pairs : pc[u] # "new" <=> u < t
      <4>1. \A k \in 1 .. Len(parThreadList) : parThreadList[k] = k
        BY DEF StartInOrder
      <4>2. \A u \in Pairs : ~Collected(u)
        BY <1>2 DEF Collected
      <4>3. \A u \in Pairs : Waiting(u) <=> u \in 1 .. Len(parThreadList)
        BY <4>1 DEF Waiting, Pairs
      <4>4. \A u \in Pairs : pc[u] # "new" <=> u \in 1 .. Len(parThreadList)
        BY <4>2, <4>3 DEF EachCollectedOnce
      <4> QED BY <4>4 DEF TypeOK, Pairs, t
    <3> QED BY <3>1, <1>1, <1>3 DEF Pairs, TypeOK
  <2>3. NoDuplicates(parThreadList)' /\ NoDuplicates(resRows)'
    BY <1>1, <1>2 DEF NoDuplicates
  <2> QED BY <2>1, <2>2, <2>3 DEF EachCollectedOnce
<1>7. StartInOrder'
  <2>1. CASE t = NumPairs
    <3>1. \A u \in Pairs : pc'[u] # "new"
      BY <2>1, <1>1, <1>6 DEF EachCollectedOnce, Waiting, Pairs
    <3> QED BY <3>1, <2>1, <1>1, <1>2 DEF StartInOrder, t
  <2>2. CASE t # NumPairs
    BY <2>2, <1>1, <1>2, PoolAssumption DEF StartInOrder, Pairs, t
  <2> QED BY <2>1, <2>2
<1>8. JoinsFinished' /\ EndsEmpty'
  BY DEF JoinsFinished, EndsEmpty, Ended
<1>9. FailureIsKept'
  BY <1>1, <1>2, <1>3 DEF FailureIsKept, Collected, TypeOK
<1> QED BY <1>4, <1>5, <1>6, <1>7, <1>8, <1>9

\* Polling a thread does: what is joined next has set its flag.
LEMMA PollIInv == ASSUME IInv, Poll PROVE IInv'
<1> USE DEF IInv, Poll
<1>1. TypeOK'
  BY DEF TypeOK
<1>2. PermitsAddUp'
  BY DEF PermitsAddUp, Parsing
<1>3. EachCollectedOnce'
  BY DEF EachCollectedOnce, NoDuplicates, Waiting, Collected
<1>4. StartInOrder' /\ JoinsFinished' /\ EndsEmpty'
  BY DEF StartInOrder, JoinsFinished, IsFinished, EndsEmpty, Ended
<1>5. FailureIsKept'
  BY DEF FailureIsKept, Collected
<1> QED BY <1>1, <1>2, <1>3, <1>4, <1>5

\* Collecting a thread does: it leaves the list and has its row.
LEMMA CollectIInv == ASSUME IInv, Collect PROVE IInv'
<1> DEFINE t == parThreadList[index + 1]
<1> DEFINE k == index + 1
<1> USE DEF IInv, Collect
<1>1. k \in 1 .. Len(parThreadList) /\ t \in Pairs /\ pc[t] = "dead"
  BY DEF JoinsFinished, TypeOK
<1>2. /\ parThreadList' \in Seq(Pairs) /\ Len(parThreadList') = Len(parThreadList) - 1
      /\ \A j \in 1 .. Len(parThreadList) - 1 :
           parThreadList'[j] = IF j < k THEN parThreadList[j] ELSE parThreadList[j + 1]
  BY <1>1, WithoutIs DEF TypeOK
<1>3. /\ resRows' \in Seq(Pairs) /\ Len(resRows') = Len(resRows) + 1
      /\ resRows'[Len(resRows) + 1] = t
      /\ \A j \in 1 .. Len(resRows) : resRows'[j] = resRows[j]
  BY <1>1 DEF TypeOK
<1>4. UNCHANGED <<pc, failed, sema>> /\ collector = "join" /\ collector' = "sweep"
  OBVIOUS
<1>5. error' = IF t \in failed /\ error = 0 THEN t ELSE error
  OBVIOUS
<1>6. \A u \in Pairs : (Waiting(u)' <=> Waiting(u) /\ u # t)
  <2> TAKE u \in Pairs
  <2>1. ASSUME Waiting(u), u # t PROVE Waiting(u)'
    <3>1. PICK j \in 1 .. Len(parThreadList) : parThreadList[j] = u
      BY <2>1 DEF Waiting
    <3>2. CASE j < k
      <4>1. j \in 1 .. Len(parThreadList) - 1 /\ parThreadList'[j] = u
        BY <3>1, <3>2, <1>1, <1>2 DEF TypeOK
      <4> QED BY <4>1, <1>2 DEF Waiting
    <3>3. CASE j > k
      <4>1. j - 1 \in 1 .. Len(parThreadList) - 1 /\ parThreadList'[j - 1] = u
        BY <3>1, <3>3, <1>1, <1>2 DEF TypeOK
      <4> QED BY <4>1, <1>2 DEF Waiting
    <3>4. j # k
      BY <3>1, <2>1
    <3> QED BY <3>2, <3>3, <3>4, <1>1
  <2>2. ASSUME Waiting(u)' PROVE Waiting(u) /\ u # t
    <3>1. PICK j \in 1 .. Len(parThreadList) - 1 : parThreadList'[j] = u
      BY <2>2, <1>2 DEF Waiting
    <3>2. PICK m \in 1 .. Len(parThreadList) : m # k /\ parThreadList[m] = u
      BY <3>1, <1>1, <1>2 DEF TypeOK
    <3> QED BY <3>2, <1>1 DEF EachCollectedOnce, NoDuplicates, Waiting
  <2> QED BY <2>1, <2>2
<1>7. \A u \in Pairs : (Collected(u)' <=> Collected(u) \/ u = t)
  BY <1>3 DEF Collected, TypeOK
<1>8. Waiting(t) /\ ~Collected(t)
  BY <1>1 DEF EachCollectedOnce, Waiting
<1> HIDE DEF t, k
<1>9. TypeOK'
  BY <1>1, <1>2, <1>3, <1>4, <1>5 DEF TypeOK, k
<1>10. PermitsAddUp'
  BY <1>4 DEF PermitsAddUp, Parsing
<1>11. EachCollectedOnce'
  <2>1. NoDuplicates(parThreadList)'
    <3> DEFINE old(j) == IF j < k THEN j ELSE j + 1
    <3>1. \A j \in 1 .. Len(parThreadList) - 1 :
            /\ old(j) \in 1 .. Len(parThreadList)
            /\ parThreadList'[j] = parThreadList[old(j)]
      BY <1>1, <1>2 DEF k, TypeOK
    <3>2. \A j, m \in 1 .. Len(parThreadList) - 1 : old(j) = old(m) => j = m
      BY <1>1 DEF k, TypeOK
    <3> HIDE DEF old
    <3>3. \A j, m \in 1 .. Len(parThreadList) :
            parThreadList[j] = parThreadList[m] => j = m
      BY DEF EachCollectedOnce, NoDuplicates
    <3>4. ASSUME NEW j \in 1 .. Len(parThreadList) - 1, NEW m \in 1 .. Len(parThreadList) - 1,
                 parThreadList'[j] = parThreadList'[m]
          PROVE  j = m
      BY <3>1, <3>2, <3>3, <3>4
    <3> QED BY <1>2, <3>4 DEF NoDuplicates
  <2>2. NoDuplicates(resRows)'
    BY <1>1, <1>3, <1>8 DEF EachCollectedOnce, NoDuplicates, Collected, TypeOK
  <2>3. \A u \in Pairs : /\ ~(Waiting(u)' /\ Collected(u)')
                         /\ pc'[u] # "new" <=> Waiting(u)' \/ Collected(u)'
    BY <1>4, <1>6, <1>7, <1>8 DEF EachCollectedOnce
  <2> QED BY <2>1, <2>2, <2>3 DEF EachCollectedOnce
<1>12. StartInOrder' /\ JoinsFinished' /\ EndsEmpty'
  BY <1>4 DEF StartInOrder, JoinsFinished, EndsEmpty, Ended
<1>13. FailureIsKept'
  BY <1>1, <1>4, <1>5, <1>7 DEF FailureIsKept, TypeOK, Pairs
<1> QED BY <1>9, <1>10, <1>11, <1>12, <1>13

\* The end of a sweep does: Process ends only with an empty list.
LEMMA EndSweepIInv == ASSUME IInv, EndSweep PROVE IInv'
<1> USE DEF IInv, EndSweep
<1>1. TypeOK'
  BY DEF TypeOK
<1>2. PermitsAddUp'
  BY DEF PermitsAddUp, Parsing
<1>3. EachCollectedOnce'
  BY DEF EachCollectedOnce, NoDuplicates, Waiting, Collected
<1>4. StartInOrder' /\ JoinsFinished' /\ EndsEmpty'
  BY DEF StartInOrder, JoinsFinished, EndsEmpty, Ended
<1>5. FailureIsKept'
  BY DEF FailureIsKept, Collected
<1> QED BY <1>1, <1>2, <1>3, <1>4, <1>5

\* Every step preserves it.
LEMMA NextIInv == IInv /\ [Next]_vars => IInv'
<1> SUFFICES ASSUME IInv, [Next]_vars PROVE IInv'
  OBVIOUS
<1>1. CASE ProcessNext
  BY <1>1, StartIInv, PollIInv, CollectIInv, EndSweepIInv DEF ProcessNext
<1>2. ASSUME NEW t \in Pairs, ThreadNext(t) PROVE IInv'
  BY <1>2, ThreadIInv
<1>3. CASE UNCHANGED vars
  BY <1>3 DEF vars, IInv, TypeOK, PermitsAddUp, Parsing, EachCollectedOnce, NoDuplicates,
              Waiting, Collected, StartInOrder, JoinsFinished, IsFinished, FailureIsKept,
              EndsEmpty, Ended
<1> QED BY <1>1, <1>2, <1>3 DEF Next

\* The inductive invariant holds for every number of files and of permits.
THEOREM Invariance == Spec => []IInv
BY InitIInv, NextIInv, PTL DEF Spec

\* The variables keep their types; in particular the semaphore stays within
\* NUMBER_OF_THREADS.
THEOREM TypeCorrect == Spec => []TypeOK
<1>1. IInv => TypeOK
  BY DEF IInv
<1> QED BY <1>1, Invariance, PTL

\* Permits are neither lost nor invented, however parsing ends.
THEOREM Permits == Spec => []PermitsAddUp
<1>1. IInv => PermitsAddUp
  BY DEF IInv
<1> QED BY <1>1, Invariance, PTL

\* Removing finished threads from the list during the iteration loses none and
\* collects none twice.
THEOREM Collecting == Spec => []EachCollectedOnce
<1>1. IInv => EachCollectedOnce
  BY DEF IInv
<1> QED BY <1>1, Invariance, PTL

\* Process ends after all its threads, and raises exactly when one has failed.
THEOREM Outcome == Spec => []OutcomeIsRight
<1>1. ASSUME IInv PROVE OutcomeIsRight
  <2> SUFFICES ASSUME Ended PROVE OutcomeIsRight
    BY DEF OutcomeIsRight
  <2>1. \A t \in Pairs : Collected(t)
    BY <1>1 DEF IInv, EachCollectedOnce, EndsEmpty, StartInOrder, Waiting, Ended
  <2>2. \A t \in Pairs : pc[t] = "dead"
    BY <2>1, <1>1 DEF IInv, FailureIsKept
  <2>3. error = 0 <=> failed = {}
    BY <2>1, <1>1 DEF IInv, FailureIsKept, TypeOK
  <2> QED BY <2>2, <2>3, <1>1 DEF IInv, EndsEmpty, OutcomeIsRight
<1> QED BY <1>1, Invariance, PTL
=============================================================================
