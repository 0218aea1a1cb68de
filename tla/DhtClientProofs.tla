-------------------------- MODULE DhtClientProofs --------------------------
(***************************************************************************)
(* Theorems about DhtClient for any number of threads, nodes and keys:     *)
(* types and the limit of the cache, every attribute list with its node,   *)
(* and the refinement of KeyValueStore.                                    *)
(***************************************************************************)
EXTENDS DhtClient, FiniteSetTheorems, TLAPS

----------------------------------------------------------------------------
(* The invariant *)

\* What a call has of its variables, by how far it has come: it is bound for the
\* node of its key, and has no answer before it is answered.
InCall ==
  \A t \in Threads :
    /\ pc[t] = "idle" => op[t] = NoOp
    /\ pc[t] # "idle" => op[t] \in Operation
    /\ pc[t] \in {"request", "sent", "answered"} => addr[t] = Successor[op[t].key]
    /\ pc[t] # "answered" => answer[t] = NoAnswer
    /\ pc[t] \in {"idle", "lookup", "request"} => sent[t] = NoList

\* A list on its way to the cache comes from the node it is cached for.
AnswerAtHome ==
  \A t \in Threads : answer[t].list \in {addr[t], NoList}

\* A request that nobody waits for is bound for the node of its key, too.
LateAtHome ==
  \A r \in late : r.addr = Successor[r.op.key] /\ r.op.kind # "read"

SetsAreFinite == IsFiniteSet(CachedNodes) /\ IsFiniteSet(late)

IInv ==
  /\ TypeOK
  /\ SetsAreFinite
  /\ InCall
  /\ ListAtHome
  /\ AnswerAtHome
  /\ LateAtHome

----------------------------------------------------------------------------
\* Nothing is cached, under way or late at first.
LEMMA InitIInv == Init => IInv
<1> SUFFICES ASSUME Init PROVE IInv
  OBVIOUS
<1>1. CachedNodes = {} /\ late = {}
  BY DEF Init, CachedNodes
<1>2. SetsAreFinite /\ Cardinality(CachedNodes) = 0 /\ Cardinality(late) = 0
  BY <1>1, FS_EmptySet DEF SetsAreFinite
<1>3. NoAnswer \in Answer
  BY DEF NoAnswer, Answer, MaybeList, k_success, k_dos
<1>4. TypeOK
  BY <1>1, <1>2, <1>3, DhtBoundAssumption DEF Init, TypeOK, MaybeList, NotReturned
<1>5. InCall /\ ListAtHome /\ AnswerAtHome /\ LateAtHome
  BY DEF Init, InCall, ListAtHome, AnswerAtHome, LateAtHome, NoAnswer
<1> QED BY <1>2, <1>4, <1>5 DEF IInv

\* Put keeps the limit, and changes nothing but the node's list and the one that
\* is pushed out.
LEMMA PutListIs ==
  ASSUME TypeOK, SetsAreFinite, NEW n \in Nodes, NEW list \in Nodes, PutList(n, list)
  PROVE  /\ attrCache' \in [Nodes -> MaybeList]
         /\ IsFiniteSet(CachedNodes') /\ Cardinality(CachedNodes') <= AttrCacheSize
         /\ \A m \in Nodes : \/ m = n /\ attrCache'[m] = list
                             \/ attrCache'[m] \in {attrCache[m], NoList}
<1> USE DEF TypeOK, MaybeList
<1>n. list # NoList
  BY NullAssumption
<1>s. Cardinality(CachedNodes) \in Nat /\ AttrCacheSize \in Nat
  BY FS_CardinalityType, DhtBoundAssumption DEF SetsAreFinite
<1>1. CASE n \in CachedNodes \/ Cardinality(CachedNodes) < AttrCacheSize
  <2>1. attrCache' = [attrCache EXCEPT ![n] = list]
    BY <1>1 DEF PutList
  <2>2. CachedNodes' = CachedNodes \cup {n}
    BY <2>1, <1>n DEF CachedNodes
  <2>3. IsFiniteSet(CachedNodes')
    BY <2>2, FS_AddElement DEF SetsAreFinite
  <2>4. Cardinality(CachedNodes') = IF n \in CachedNodes THEN Cardinality(CachedNodes)
                                    ELSE Cardinality(CachedNodes) + 1
    BY <2>2, FS_AddElement DEF SetsAreFinite
  <2>5. Cardinality(CachedNodes') <= AttrCacheSize
    BY <2>4, <1>1, <1>s
  <2> QED BY <2>1, <2>3, <2>5
<1>2. CASE ~(n \in CachedNodes \/ Cardinality(CachedNodes) < AttrCacheSize)
  <2>1. PICK victim \in CachedNodes :
          attrCache' = [attrCache EXCEPT ![n] = list, ![victim] = NoList]
    BY <1>2 DEF PutList
  <2>2. victim \in Nodes /\ victim # n
    BY <1>2 DEF CachedNodes
  <2>3. CachedNodes' = (CachedNodes \ {victim}) \cup {n}
    BY <2>1, <2>2, <1>n DEF CachedNodes
  <2>4. /\ IsFiniteSet(CachedNodes \ {victim})
        /\ Cardinality(CachedNodes \ {victim}) = Cardinality(CachedNodes) - 1
    BY <2>1, FS_RemoveElement DEF SetsAreFinite
  <2>5. IsFiniteSet(CachedNodes') /\ Cardinality(CachedNodes') = Cardinality(CachedNodes)
    <3> DEFINE Rest == CachedNodes \ {victim}
    <3>1. IsFiniteSet(Rest) /\ n \notin Rest
      BY <2>4, <1>2
    <3>2. IsFiniteSet(Rest \cup {n}) /\ Cardinality(Rest \cup {n}) = Cardinality(Rest) + 1
      BY <3>1, FS_AddElement
    <3> QED BY <2>3, <2>4, <3>2, <1>s
  <2>6. Cardinality(CachedNodes') <= AttrCacheSize
    BY <2>5
  <2> QED BY <2>1, <2>2, <2>5, <2>6
<1> QED BY <1>1, <1>2

\* A call that ends leaves nothing of it behind.
LEMMA ReturnIs ==
  ASSUME IInv, NEW t \in Threads, NEW how \in {"ok", "failed"},
         NEW val \in Values \cup {NoValue}, Return(t, how, val)
  PROVE  /\ pc' \in [Threads -> {"idle", "lookup", "request", "sent", "answered"}]
         /\ op' \in [Threads -> Operation \cup {NoOp}]
         /\ addr' \in [Threads -> Nodes \cup {NoNode}]
         /\ sent' \in [Threads -> MaybeList]
         /\ answer' \in [Threads -> Answer]
         /\ returned' \in [Threads -> [how : {"none", "ok", "failed"}, val : Values \cup {NoValue}]]
         /\ InCall' /\ AnswerAtHome'
         /\ \A u \in Threads : sent'[u] \in {addr'[u], NoList}
<1>1. NoAnswer \in Answer /\ NoAnswer.list = NoList
  BY DEF NoAnswer, Answer, MaybeList, k_success, k_dos
<1> QED BY <1>1 DEF Return, Goto, IInv, TypeOK, InCall, AnswerAtHome, ListAtHome, MaybeList

\* Every step keeps the invariant.
LEMMA NextIInv == IInv /\ [Next]_vars => IInv'
<1> SUFFICES ASSUME IInv, [Next]_vars PROVE IInv'
  OBVIOUS
<1> USE SuccessorAssumption, NullAssumption
<1> USE DEF IInv
<1>cache. ASSUME UNCHANGED attrCache
          PROVE  /\ attrCache' \in [Nodes -> MaybeList]
                 /\ Cardinality(CachedNodes') <= AttrCacheSize
                 /\ IsFiniteSet(CachedNodes')
                 /\ \A n \in Nodes : attrCache'[n] \in {n, NoList}
  <2>1. UNCHANGED CachedNodes
    BY <1>cache DEF CachedNodes
  <2> QED BY <1>cache, <2>1 DEF TypeOK, SetsAreFinite, ListAtHome
<1>late. ASSUME UNCHANGED late
         PROVE  /\ late' \subseteq Request /\ Cardinality(late') <= MaxLate
                /\ IsFiniteSet(late') /\ LateAtHome'
  BY <1>late DEF TypeOK, SetsAreFinite, LateAtHome
<1>1. ASSUME NEW t \in Threads, Invoke(t) PROVE IInv'
  <2>1. PICK o \in Operation :
          /\ op' = [op EXCEPT ![t] = o]
          /\ returned' = IF o.kind = "attrList" THEN returned
                           ELSE [returned EXCEPT ![t] = NotReturned]
    BY <1>1 DEF Invoke
  <2>2. TypeOK'
    BY <1>1, <2>1, <1>cache, <1>late DEF Invoke, Goto, TypeOK, NotReturned
  <2>3. InCall' /\ AnswerAtHome' /\ ListAtHome'
    BY <1>1, <2>1, <1>cache DEF Invoke, Goto, TypeOK, InCall, AnswerAtHome, ListAtHome
  <2> QED BY <1>1, <2>2, <2>3, <1>cache, <1>late DEF Invoke, SetsAreFinite
<1>2. ASSUME NEW t \in Threads, GetSuccessorAddress(t) PROVE IInv'
  <2>1. op[t] \in Operation /\ Successor[op[t].key] \in Nodes
    BY <1>2 DEF GetSuccessorAddress, InCall, Operation
  <2>2. TypeOK'
    BY <1>2, <2>1, <1>cache, <1>late DEF GetSuccessorAddress, Goto, TypeOK
  <2>3. InCall' /\ AnswerAtHome' /\ ListAtHome'
    BY <1>2, <2>1, <1>cache
    DEF GetSuccessorAddress, Goto, TypeOK, InCall, AnswerAtHome, ListAtHome, NoAnswer
  <2> QED BY <1>2, <2>2, <2>3, <1>cache, <1>late DEF GetSuccessorAddress, SetsAreFinite
<1>3. ASSUME NEW t \in Threads, SendRequest(t) PROVE IInv'
  <2>1. op[t] \in Operation /\ addr[t] \in Nodes
    BY <1>3 DEF SendRequest, InCall, Operation
  <2>2. PICK list \in {attrCache[addr[t]], NoList} : sent' = [sent EXCEPT ![t] = list]
    BY <1>3 DEF SendRequest
  <2>3. list \in {addr[t], NoList}
    BY <2>1, <2>2 DEF ListAtHome
  <2>4. TypeOK'
    BY <1>3, <2>1, <2>2, <2>3, <1>cache, <1>late DEF SendRequest, Goto, TypeOK, MaybeList
  <2>5. InCall' /\ AnswerAtHome' /\ ListAtHome'
    BY <1>3, <2>1, <2>2, <2>3, <1>cache
    DEF SendRequest, Goto, TypeOK, InCall, AnswerAtHome, ListAtHome, NoAnswer
  <2> QED BY <1>3, <2>4, <2>5, <1>cache, <1>late DEF SendRequest, SetsAreFinite
<1>4. ASSUME NEW t \in Threads, Raise(t) PROVE IInv'
  <2>1. /\ Return(t, "failed", NoValue)
        /\ UNCHANGED <<attrCache, store>>
    BY <1>4 DEF Raise
  <2>2. /\ late' \subseteq Request /\ Cardinality(late') <= MaxLate
        /\ IsFiniteSet(late') /\ LateAtHome'
    <3>1. CASE late' = late
      BY <3>1, <1>late
    <3>2. CASE late' # late
      <4> DEFINE r == [op |-> op[t], addr |-> addr[t]]
      <4>1. /\ pc[t] = "sent" /\ op[t].kind # "read"
            /\ Cardinality(late) < MaxLate /\ late' = late \cup {r}
        BY <1>4, <3>2 DEF Raise
      <4>2. op[t] \in Operation /\ addr[t] = Successor[op[t].key] /\ op[t].key \in Keys
        BY <4>1 DEF InCall, Operation
      <4>3. r \in Request
        BY <4>2 DEF Request
      <4>4. Cardinality(late) \in Nat
        BY FS_CardinalityType DEF SetsAreFinite
      <4>5. /\ IsFiniteSet(late \cup {r})
            /\ Cardinality(late \cup {r}) \in {Cardinality(late), Cardinality(late) + 1}
        <5> HIDE DEF r
        <5> QED BY FS_AddElement DEF SetsAreFinite
      <4>6. Cardinality(late') <= MaxLate
        BY <4>1, <4>4, <4>5, DhtBoundAssumption
      <4>7. LateAtHome'
        BY <4>1, <4>2 DEF LateAtHome
      <4> QED BY <4>1, <4>3, <4>5, <4>6, <4>7 DEF TypeOK
    <3> QED BY <3>1, <3>2
  <2>3. TypeOK' /\ ListAtHome'
    BY <2>1, <2>2, <1>cache, ReturnIs DEF TypeOK, ListAtHome
  <2> QED BY <2>1, <2>2, <2>3, <1>cache, ReturnIs DEF SetsAreFinite
<1>5. ASSUME NEW t \in Threads, Receive(t) PROVE IInv'
  <2>1. addr[t] \in Nodes /\ answer[t] \in Answer
    BY <1>5 DEF Receive, InCall, Operation, TypeOK
  <2>2. PICK how \in {"ok", "failed"}, val \in Values \cup {NoValue} : Return(t, how, val)
    BY <1>5, <2>1 DEF Receive, Answer
  <2>3. /\ attrCache' \in [Nodes -> MaybeList]
        /\ Cardinality(CachedNodes') <= AttrCacheSize
        /\ IsFiniteSet(CachedNodes')
        /\ \A n \in Nodes : attrCache'[n] \in {n, NoList}
    <3>1. CASE answer[t].list = NoList
      BY <1>5, <3>1, <1>cache DEF Receive
    <3>2. CASE answer[t].list # NoList
      <4>1. answer[t].list = addr[t] /\ PutList(addr[t], addr[t])
        BY <1>5, <3>2 DEF Receive, AnswerAtHome
      <4> QED BY <2>1, <4>1, PutListIs DEF ListAtHome
    <3> QED BY <3>1, <3>2
  <2>4. TypeOK' /\ ListAtHome'
    BY <1>5, <2>2, <2>3, <1>late, ReturnIs DEF Receive, TypeOK, ListAtHome
  <2> QED BY <1>5, <2>2, <2>3, <2>4, <1>late, ReturnIs DEF Receive, SetsAreFinite
<1>6. ASSUME NEW t \in Threads, NEW ret \in k_success .. k_dos,
             NEW val \in Values \cup {NoValue}, pc[t] = "sent",
             Reply(t, ret, val), UNCHANGED late,
             store' \in [Nodes -> [Keys -> Values \cup {NoValue}]]
      PROVE  IInv'
  <2>1. PICK list \in {addr[t], NoList} :
          answer' = [answer EXCEPT ![t] = [ret |-> ret, val |-> val, list |-> list]]
    BY <1>6 DEF Reply
  <2>2. addr[t] \in Nodes
    BY <1>6 DEF InCall, Operation
  <2>3. [ret |-> ret, val |-> val, list |-> list] \in Answer
    BY <2>1, <2>2 DEF Answer, MaybeList
  <2>4. TypeOK'
    BY <1>6, <2>1, <2>3, <1>cache, <1>late DEF Reply, Goto, TypeOK
  <2>5. InCall' /\ AnswerAtHome' /\ ListAtHome'
    BY <1>6, <2>1, <1>cache DEF Reply, Goto, TypeOK, InCall, AnswerAtHome, ListAtHome
  <2> QED BY <1>6, <2>4, <2>5, <1>cache, <1>late DEF Reply, SetsAreFinite
<1>effect. ASSUME NEW o \in Operation, NEW n \in Nodes, Effect(o, n)
           PROVE  store' \in [Nodes -> [Keys -> Values \cup {NoValue}]]
  <2>1. o.key \in Keys /\ o.val \in Values \cup {NoValue}
    BY DEF Operation
  <2>2. \/ store' = store
        \/ store' = [store EXCEPT ![n][o.key] = o.val]
    BY <1>effect DEF Effect
  <2>3. CASE store' = [store EXCEPT ![n][o.key] = o.val]
    <3> DEFINE row == [store[n] EXCEPT ![o.key] = o.val]
    <3>1. row \in [Keys -> Values \cup {NoValue}]
      BY <2>1 DEF TypeOK
    <3>2. store' = [store EXCEPT ![n] = row]
      BY <2>3
    <3> HIDE DEF row
    <3> QED BY <3>1, <3>2 DEF TypeOK
  <2> QED BY <2>2, <2>3 DEF TypeOK
<1>7. ASSUME NEW t \in Threads, Serve(t) PROVE IInv'
  <2>1. op[t] \in Operation /\ addr[t] \in Nodes
    BY <1>7 DEF Serve, InCall, Operation
  <2>2. store' \in [Nodes -> [Keys -> Values \cup {NoValue}]]
    BY <1>7, <2>1, <1>effect DEF Serve
  <2>3. Stored(t) \in Values \cup {NoValue}
    BY <2>1 DEF Stored, TypeOK, Operation
  <2>4. k_success \in k_success .. k_dos
    BY DEF k_success, k_dos
  <2> QED BY <1>7, <2>2, <2>3, <2>4, <1>6 DEF Serve
<1>8. ASSUME NEW t \in Threads, Refuse(t) PROVE IInv'
  <2>1. PICK ret \in {k_denied, k_nonExist, k_dos} : Reply(t, ret, NoValue)
    BY <1>8 DEF Refuse
  <2>2. ret \in k_success .. k_dos
    BY DEF k_success, k_nonExist, k_denied, k_dos
  <2>3. store' \in [Nodes -> [Keys -> Values \cup {NoValue}]]
    BY <1>8 DEF Refuse, TypeOK
  <2> QED BY <1>8, <2>1, <2>2, <2>3, <1>6 DEF Refuse
<1>9. CASE ServeLate
  <2>1. PICK r \in late : late' = late \ {r} /\ (Effect(r.op, r.addr) \/ UNCHANGED store)
    BY <1>9 DEF ServeLate
  <2>2. UNCHANGED clientVars
    BY <1>9 DEF ServeLate
  <2>3. r.op \in Operation /\ r.addr \in Nodes
    BY <2>1 DEF TypeOK, Request
  <2>4. store' \in [Nodes -> [Keys -> Values \cup {NoValue}]]
    BY <2>1, <2>3, <1>effect DEF TypeOK
  <2>5. IsFiniteSet(late') /\ Cardinality(late') = Cardinality(late) - 1
    BY <2>1, FS_RemoveElement DEF SetsAreFinite
  <2>6. Cardinality(late) \in Nat
    BY FS_CardinalityType DEF SetsAreFinite
  <2>7. Cardinality(late') <= MaxLate
    BY <2>5, <2>6, DhtBoundAssumption DEF TypeOK
  <2>8. TypeOK'
    BY <2>1, <2>2, <2>4, <2>7, <1>cache DEF clientVars, TypeOK
  <2>9. InCall' /\ AnswerAtHome' /\ ListAtHome'
    BY <2>2, <1>cache DEF clientVars, InCall, AnswerAtHome, ListAtHome
  <2>10. LateAtHome'
    BY <2>1 DEF LateAtHome
  <2> QED BY <2>2, <2>5, <2>8, <2>9, <2>10, <1>cache DEF clientVars, SetsAreFinite
<1>10. CASE UNCHANGED vars
  BY <1>10, <1>cache, <1>late
  DEF vars, TypeOK, InCall, AnswerAtHome, ListAtHome, SetsAreFinite
<1> QED
  BY <1>1, <1>2, <1>3, <1>4, <1>5, <1>7, <1>8, <1>9, <1>10 DEF Next, ClientNext, NodeNext

\* The inductive invariant holds throughout.
LEMMA Invariance == Spec => []IInv
BY InitIInv, NextIInv, PTL DEF Spec

\* The variables have their types, and the cache its limit, whatever the threads do.
THEOREM TypeCorrect == Spec => []TypeOK
BY Invariance, PTL DEF IInv

\* No node is sent the attribute list of another one.
THEOREM AtHome == Spec => []ListAtHome
BY Invariance, PTL DEF IInv

----------------------------------------------------------------------------
(* The client implements KeyValueStore *)

\* What KeyValueStore sees of the variables.
StoredNow == [k \in Keys |-> store[Successor[k]][k]]
Calls == [t \in Threads |-> PendingCall(t)]
LateOps == {r.op : r \in {q \in late : q.op.kind # "attrList"}}

\* Nothing is stored and nobody calls at first.
LEMMA InitStore == Init => Promise!StoreInit
BY SuccessorAssumption
DEF Init, Promise!StoreInit, PendingCall, Promise!NoCall, NotReturned, Promise!NotReturned

\* A step of one call changes the call of its thread only.
LEMMA OneCall ==
  ASSUME IInv, NEW t \in Threads, pc' = [pc EXCEPT ![t] = pc'[t]],
         op' = [op EXCEPT ![t] = op'[t]], answer' = [answer EXCEPT ![t] = answer'[t]]
  PROVE  Calls' = [Calls EXCEPT ![t] = PendingCall(t)']
BY ZenonT(30) DEF Calls, PendingCall, Phase, IInv, TypeOK

\* A call that is not of an attribute list is what KeyValueStore calls pending.
LEMMA CallIs ==
  ASSUME IInv, NEW t \in Threads
  PROVE  /\ pc[t] = "idle" \/ op[t].kind = "attrList" <=> Calls[t] = Promise!NoCall
         /\ pc[t] # "idle" /\ op[t].kind # "attrList" =>
              Calls[t] = Promise!Calling(op[t], Phase(t), answer[t].val)
         /\ pc[t] # "idle" /\ op[t].kind # "attrList" => op[t] \in Promise!Operation
BY DEF Calls, PendingCall, Phase, Promise!NoCall, Promise!Calling, IInv, InCall, Operation,
       Promise!Operation

\* An effect on the node of the key is one on the key.
LEMMA EffectIs ==
  ASSUME IInv, NEW o \in Operation, o.kind # "attrList", Effect(o, Successor[o.key])
  PROVE  /\ o.kind = "insert" \/ StoredNow[o.key] # NoValue
         /\ StoredNow' = [StoredNow EXCEPT ![o.key] = IF o.kind = "read" THEN @ ELSE o.val]
<1> USE SuccessorAssumption
<1>1. o.key \in Keys
  BY DEF Operation
<1>2. CASE o.kind = "read"
  BY <1>1, <1>2 DEF Effect, StoredNow
<1>3. CASE o.kind # "read"
  <2>1. store' = [store EXCEPT ![Successor[o.key]][o.key] = o.val]
    BY <1>3 DEF Effect
  <2>2. \A k \in Keys : store'[Successor[k]][k] = IF k = o.key THEN o.val ELSE store[Successor[k]][k]
    BY <1>1, <2>1 DEF IInv, TypeOK
  <2> QED BY <1>1, <1>3, <2>2 DEF Effect, StoredNow
<1> QED BY <1>2, <1>3

\* The end of a call is the end of it for KeyValueStore, except for an attribute
\* list, of which KeyValueStore knows nothing.
LEMMA ReturnEnds ==
  ASSUME IInv, NEW t \in Threads, NEW how, NEW val, Return(t, how, val)
  PROVE  IF op[t].kind = "attrList"
           THEN UNCHANGED <<Calls, returned>>
           ELSE /\ Calls' = [Calls EXCEPT ![t] = Promise!NoCall]
                /\ returned' = [returned EXCEPT ![t] = [how |-> how, val |-> val]]
<1>1. PendingCall(t)' = Promise!NoCall
  BY DEF Return, Goto, PendingCall, Promise!NoCall, IInv, TypeOK
<1>2. Calls' = [Calls EXCEPT ![t] = Promise!NoCall]
  BY <1>1, OneCall DEF Return, Goto, IInv, TypeOK
<1>3. CASE op[t].kind = "attrList"
  <2>1. Calls[t] = Promise!NoCall
    BY <1>3, CallIs
  <2> QED BY <1>2, <1>3, <2>1 DEF Return, Calls
<1> QED BY <1>2, <1>3 DEF Return

\* Every step of the client or of a node is a step of KeyValueStore, or changes
\* nothing of it.
LEMMA NextStore == IInv /\ [Next]_vars => [Promise!StoreNext]_(Promise!storeVars)
<1> SUFFICES ASSUME IInv, [Next]_vars
             PROVE  Promise!StoreNext \/ UNCHANGED <<StoredNow, Calls, LateOps, returned>>
  BY DEF Promise!storeVars, StoredNow, Calls, LateOps
<1> USE SuccessorAssumption, NullAssumption
<1>same. ASSUME UNCHANGED <<store, late>> PROVE UNCHANGED <<StoredNow, LateOps>>
  BY <1>same DEF StoredNow, LateOps
<1>quiet. ASSUME NEW t \in Threads, UNCHANGED <<store, late, returned>>,
                 PendingCall(t)' = PendingCall(t), pc' = [pc EXCEPT ![t] = pc'[t]],
                 op' = [op EXCEPT ![t] = op'[t]], answer' = [answer EXCEPT ![t] = answer'[t]]
          PROVE  UNCHANGED <<StoredNow, Calls, LateOps, returned>>
  BY <1>quiet, <1>same, OneCall DEF Calls
<1>1. ASSUME NEW t \in Threads, Invoke(t)
      PROVE  Promise!StoreNext \/ UNCHANGED <<StoredNow, Calls, LateOps, returned>>
  <2>1. PICK o \in Operation :
          /\ op' = [op EXCEPT ![t] = o]
          /\ returned' = IF o.kind = "attrList" THEN returned
                           ELSE [returned EXCEPT ![t] = NotReturned]
    BY <1>1 DEF Invoke
  <2>2. pc' = [pc EXCEPT ![t] = "lookup"] /\ UNCHANGED <<store, late, answer>>
    BY <1>1 DEF Invoke, Goto
  <2>3. /\ pc[t] = "idle" /\ pc'[t] = "lookup" /\ op'[t] = o
        /\ answer'[t].val = NoValue
    BY <1>1, <2>1, <2>2 DEF Invoke, IInv, TypeOK, InCall, NoAnswer
  <2>4. answer' = [answer EXCEPT ![t] = answer'[t]]
    BY <2>2 DEF IInv, TypeOK
  <2>5. Calls' = [Calls EXCEPT ![t] = PendingCall(t)']
    BY <2>1, <2>2, <2>3, <2>4, OneCall
  <2>6. CASE o.kind = "attrList"
    <3>1. PendingCall(t)' = PendingCall(t)
      BY <2>3, <2>6 DEF PendingCall
    <3> QED BY <2>1, <2>2, <2>3, <2>4, <2>6, <3>1, <1>quiet
  <2>7. CASE o.kind # "attrList"
    <3>1. o \in Promise!Operation
      BY <2>7 DEF Operation, Promise!Operation
    <3>2. PendingCall(t)' = Promise!Calling(o, "called", NoValue)
      BY <2>3, <2>7 DEF PendingCall, Phase, Promise!Calling
    <3>3. Calls[t] = Promise!NoCall
      BY <2>3, CallIs
    <3>4. returned' = [returned EXCEPT ![t] = Promise!NotReturned]
      BY <2>1, <2>7 DEF NotReturned, Promise!NotReturned
    <3>5. Promise!Call(t)
      BY <2>2, <2>5, <3>1, <3>2, <3>3, <3>4, <1>same
      DEF Promise!Call, Calls, StoredNow, LateOps
    <3> QED BY <3>5 DEF Promise!StoreNext
  <2> QED BY <2>6, <2>7
<1>2. ASSUME NEW t \in Threads, GetSuccessorAddress(t) \/ SendRequest(t)
      PROVE  UNCHANGED <<StoredNow, Calls, LateOps, returned>>
  <2>1. PendingCall(t)' = PendingCall(t)
    BY <1>2 DEF GetSuccessorAddress, SendRequest, Goto, PendingCall, Phase, IInv, TypeOK
  <2> QED BY <1>2, <2>1, <1>quiet DEF GetSuccessorAddress, SendRequest, Goto, IInv, TypeOK
<1>3. ASSUME NEW t \in Threads, Raise(t)
      PROVE  Promise!StoreNext \/ UNCHANGED <<StoredNow, Calls, LateOps, returned>>
  <2>1. Return(t, "failed", NoValue) /\ UNCHANGED StoredNow /\ pc[t] # "idle"
    BY <1>3 DEF Raise, StoredNow
  <2>2. \/ late' = late
        \/ pc[t] = "sent" /\ late' = late \cup {[op |-> op[t], addr |-> addr[t]]}
    BY <1>3 DEF Raise
  <2>3. CASE op[t].kind = "attrList"
    <3>1. UNCHANGED LateOps
      BY <2>2, <2>3 DEF LateOps
    <3> QED BY <2>1, <2>3, <3>1, ReturnEnds
  <2>4. CASE op[t].kind # "attrList"
    <3>1. Calls[t] = Promise!Calling(op[t], Phase(t), answer[t].val) /\ Calls[t] # Promise!NoCall
      BY <2>1, <2>4, CallIs DEF Promise!Calling, Promise!NoCall
    <3>2. LateOps' \in {LateOps} \cup
            (IF Calls[t].phase = "called" THEN {LateOps \cup {Calls[t].op}} ELSE {})
      <4>1. CASE late' = late
        BY <4>1 DEF LateOps
      <4>2. CASE pc[t] = "sent" /\ late' = late \cup {[op |-> op[t], addr |-> addr[t]]}
        <5>1. Calls[t].phase = "called" /\ Calls[t].op = op[t]
          BY <3>1, <4>2 DEF Promise!Calling, Phase
        <5>2. LateOps' = LateOps \cup {op[t]}
          <6> DEFINE r == [op |-> op[t], addr |-> addr[t]]
          <6>1. late' = late \cup {r} /\ r.op = op[t]
            BY <4>2
          <6> HIDE DEF r
          <6> QED BY <2>4, <6>1 DEF LateOps
        <5> QED BY <5>1, <5>2
      <4> QED BY <2>2, <4>1, <4>2
    <3>3. /\ Calls' = [Calls EXCEPT ![t] = Promise!NoCall]
          /\ returned' = [returned EXCEPT ![t] = [how |-> "failed", val |-> NoValue]]
      BY <2>1, <2>4, ReturnEnds
    <3>4. Promise!Fail(t)
      BY <2>1, <3>1, <3>2, <3>3 DEF Promise!Fail, Calls, StoredNow, LateOps
    <3> QED BY <3>4 DEF Promise!StoreNext
  <2> QED BY <2>3, <2>4
<1>4. ASSUME NEW t \in Threads, Receive(t)
      PROVE  Promise!StoreNext \/ UNCHANGED <<StoredNow, Calls, LateOps, returned>>
  <2>1. pc[t] = "answered" /\ UNCHANGED <<StoredNow, LateOps>>
    BY <1>4, <1>same DEF Receive
  <2>2. answer[t].ret \in k_success .. k_dos
    BY DEF IInv, TypeOK, Answer
  <2>3. CASE op[t].kind = "attrList"
    BY <1>4, <2>1, <2>3, ReturnEnds DEF Receive
  <2>4. CASE op[t].kind # "attrList" /\ CheckDhtStoreRpcError(answer[t].ret)
    <3>1. Phase(t) \in {"done", "ignored"}
      BY <2>1, <2>2, <2>4
      DEF Phase, CheckDhtStoreRpcError, k_success, k_nonExist, k_denied, k_dos
    <3>2. Calls[t] = Promise!Calling(op[t], Phase(t), answer[t].val)
      BY <2>1, <2>4, CallIs
    <3>3. Calls[t].phase \in {"done", "ignored"} /\ Calls[t].val = answer[t].val
      BY <3>1, <3>2 DEF Promise!Calling
    <3>4. Return(t, "ok", answer[t].val)
      BY <1>4, <2>4 DEF Receive
    <3>5. /\ Calls' = [Calls EXCEPT ![t] = Promise!NoCall]
          /\ returned' = [returned EXCEPT ![t] = [how |-> "ok", val |-> Calls[t].val]]
      BY <2>4, <3>3, <3>4, ReturnEnds
    <3>6. Promise!Succeed(t)
      BY <2>1, <3>3, <3>5 DEF Promise!Succeed, Calls, StoredNow, LateOps
    <3> QED BY <3>6 DEF Promise!StoreNext
  <2>5. CASE op[t].kind # "attrList" /\ ~CheckDhtStoreRpcError(answer[t].ret)
    <3>1. Return(t, "failed", NoValue)
      BY <1>4, <2>5 DEF Receive
    <3>2. Calls[t] # Promise!NoCall
      BY <2>1, <2>5, CallIs
    <3>3. /\ Calls' = [Calls EXCEPT ![t] = Promise!NoCall]
          /\ returned' = [returned EXCEPT ![t] = [how |-> "failed", val |-> NoValue]]
      BY <2>5, <3>1, ReturnEnds
    <3>4. Promise!Fail(t)
      BY <2>1, <3>2, <3>3 DEF Promise!Fail, Calls, StoredNow, LateOps
    <3> QED BY <3>4 DEF Promise!StoreNext
  <2> QED BY <2>3, <2>4, <2>5
<1>5. ASSUME NEW t \in Threads, NEW ret, NEW val, pc[t] = "sent", Reply(t, ret, val),
             op[t].kind = "attrList"
      PROVE  UNCHANGED <<Calls, returned>>
  <2>1. /\ pc' = [pc EXCEPT ![t] = pc'[t]]
        /\ op' = [op EXCEPT ![t] = op'[t]]
        /\ answer' = [answer EXCEPT ![t] = answer'[t]]
        /\ UNCHANGED <<op, returned>>
    BY <1>5 DEF Reply, Goto, IInv, TypeOK
  <2>2. PendingCall(t)' = PendingCall(t)
    BY <1>5, <2>1 DEF PendingCall
  <2>3. Calls' = [Calls EXCEPT ![t] = PendingCall(t)']
    BY <2>1, OneCall
  <2> QED BY <2>1, <2>2, <2>3 DEF Calls
<1>6. ASSUME NEW t \in Threads, NEW ret, NEW val, pc[t] = "sent", Reply(t, ret, val),
             op[t].kind # "attrList"
      PROVE  /\ UNCHANGED returned
             /\ Calls[t] = Promise!Calling(op[t], "called", NoValue)
             /\ op[t] \in Promise!Operation
             /\ \E phase : /\ Calls' = [Calls EXCEPT ![t] = Promise!Calling(op[t], phase, val)]
                           /\ ret = k_success => phase = "done"
                           /\ ret = k_dos => phase = "ignored"
                           /\ ret \in {k_nonExist, k_denied} => phase = "called"
  <2>1. PICK list : answer' = [answer EXCEPT ![t] = [ret |-> ret, val |-> val, list |-> list]]
    BY <1>6 DEF Reply
  <2>2. pc' = [pc EXCEPT ![t] = "answered"] /\ UNCHANGED <<op, returned>>
    BY <1>6 DEF Reply, Goto
  <2>3. /\ pc'[t] = "answered" /\ op'[t] = op[t]
        /\ answer'[t] = [ret |-> ret, val |-> val, list |-> list]
    BY <2>1, <2>2 DEF IInv, TypeOK
  <2>4. Calls' = [Calls EXCEPT ![t] = PendingCall(t)']
    BY <2>1, <2>2, <2>3, OneCall DEF IInv, TypeOK
  <2>5. Calls[t] = Promise!Calling(op[t], "called", NoValue) /\ op[t] \in Promise!Operation
    BY <1>6, CallIs DEF Phase, IInv, InCall, NoAnswer
  <2>6. PendingCall(t)' = Promise!Calling(op[t], Phase(t)', val)
    BY <2>3, <1>6 DEF PendingCall, Promise!Calling
  <2>7. /\ ret = k_success => Phase(t)' = "done"
        /\ ret = k_dos => Phase(t)' = "ignored"
        /\ ret \in {k_nonExist, k_denied} => Phase(t)' = "called"
    BY <2>3 DEF Phase, k_success, k_nonExist, k_denied, k_dos
  <2>8. Calls' = [Calls EXCEPT ![t] = Promise!Calling(op[t], Phase(t)', val)]
    BY <2>4, <2>6
  <2> QED BY <2>2, <2>5, <2>7, <2>8
<1>7. ASSUME NEW t \in Threads, Serve(t)
      PROVE  Promise!StoreNext \/ UNCHANGED <<StoredNow, Calls, LateOps, returned>>
  <2> DEFINE val == IF op[t].kind = "read" THEN Stored(t) ELSE NoValue
  <2>1. /\ pc[t] = "sent" /\ Effect(op[t], addr[t]) /\ UNCHANGED LateOps
        /\ Reply(t, k_success, val)
    BY <1>7 DEF Serve, LateOps
  <2>2. op[t] \in Operation /\ addr[t] = Successor[op[t].key] /\ op[t].key \in Keys
    BY <2>1 DEF IInv, InCall, Operation
  <2>3. val = IF op[t].kind = "read" THEN StoredNow[op[t].key] ELSE NoValue
    BY <2>2 DEF Stored, StoredNow
  <2> HIDE DEF val
  <2>4. CASE op[t].kind = "attrList"
    <3>1. UNCHANGED StoredNow
      BY <2>1, <2>4 DEF Effect, StoredNow
    <3> QED BY <2>1, <2>4, <3>1, <1>5
  <2>5. CASE op[t].kind # "attrList"
    <3>1. /\ op[t].kind = "insert" \/ StoredNow[op[t].key] # NoValue
          /\ StoredNow' = [StoredNow EXCEPT ![op[t].key] = IF op[t].kind = "read" THEN @ ELSE op[t].val]
      BY <2>1, <2>2, <2>5, EffectIs
    <3>2. /\ Calls[t] = Promise!Calling(op[t], "called", NoValue)
          /\ Calls' = [Calls EXCEPT ![t] = Promise!Calling(op[t], "done", val)]
          /\ UNCHANGED returned
      BY <2>1, <2>5, <1>6
    <3>3. Calls[t].phase = "called" /\ Calls[t].op = op[t]
      BY <3>2 DEF Promise!Calling
    <3>4. /\ Calls[t].op.kind = "insert" \/ StoredNow[Calls[t].op.key] # NoValue
          /\ StoredNow' = [StoredNow EXCEPT
               ![Calls[t].op.key] = IF Calls[t].op.kind = "read" THEN @ ELSE Calls[t].op.val]
          /\ Calls' = [Calls EXCEPT ![t] = Promise!Calling(@.op, "done",
               IF @.op.kind = "read" THEN StoredNow[@.op.key] ELSE NoValue)]
      BY <2>3, <3>1, <3>2, <3>3
    <3>5. Promise!TakeEffect(t)
      BY <2>1, <3>2, <3>3, <3>4
      DEF Promise!TakeEffect, Promise!Effect, Promise!Result, Calls, StoredNow, LateOps
    <3> QED BY <3>5 DEF Promise!StoreNext
  <2> QED BY <2>4, <2>5
<1>8. ASSUME NEW t \in Threads, Refuse(t)
      PROVE  Promise!StoreNext \/ UNCHANGED <<StoredNow, Calls, LateOps, returned>>
  <2>1. PICK ret \in {k_denied, k_nonExist} \cup (IF AnswersDos THEN {k_dos} ELSE {}) :
          Reply(t, ret, NoValue)
    BY <1>8 DEF Refuse
  <2>2. pc[t] = "sent" /\ UNCHANGED <<StoredNow, LateOps>>
    BY <1>8, <1>same DEF Refuse
  <2>3. CASE op[t].kind = "attrList"
    BY <2>1, <2>2, <2>3, <1>5
  <2>4. CASE op[t].kind # "attrList" /\ ret \in {k_nonExist, k_denied}
    <3>1. Calls' = [Calls EXCEPT ![t] = Calls[t]] /\ UNCHANGED returned
      BY <2>1, <2>2, <2>4, <1>6
    <3> QED BY <2>2, <3>1 DEF Calls
  <2>5. CASE op[t].kind # "attrList" /\ ret = k_dos
    <3>1. AnswersDos
      BY <2>1, <2>5 DEF k_nonExist, k_denied, k_dos
    <3>2. /\ Calls[t] = Promise!Calling(op[t], "called", NoValue)
          /\ Calls' = [Calls EXCEPT ![t] = Promise!Calling(op[t], "ignored", NoValue)]
          /\ UNCHANGED returned
      BY <2>1, <2>2, <2>5, <1>6
    <3>3. Calls[t].phase = "called" /\ Calls' = [Calls EXCEPT ![t].phase = "ignored"]
      <4>1. [Calls[t] EXCEPT !.phase = "ignored"] = Promise!Calling(op[t], "ignored", NoValue)
        BY <3>2 DEF Promise!Calling
      <4>2. Calls[t].phase = "called"
        BY <3>2 DEF Promise!Calling
      <4>3. Calls' = [Calls EXCEPT ![t] = [Calls[t] EXCEPT !.phase = "ignored"]]
        BY <3>2, <4>1
      <4> QED BY <4>2, <4>3
    <3>4. Promise!Ignore(t)
      BY <2>2, <3>1, <3>2, <3>3 DEF Promise!Ignore, Calls, StoredNow, LateOps
    <3> QED BY <3>4 DEF Promise!StoreNext
  <2> QED BY <2>1, <2>3, <2>4, <2>5
<1>9. CASE ServeLate
  <2>1. PICK r \in late : late' = late \ {r} /\ (Effect(r.op, r.addr) \/ UNCHANGED store)
    BY <1>9 DEF ServeLate
  <2>2. UNCHANGED <<Calls, returned>>
    BY <1>9 DEF ServeLate, clientVars, Calls, PendingCall, Phase
  <2>3. r.op \in Operation /\ r.addr = Successor[r.op.key]
    BY <2>1 DEF IInv, TypeOK, LateAtHome, Request
  <2>4. CASE r.op.kind = "attrList"
    <3>1. UNCHANGED StoredNow
      BY <2>1, <2>4 DEF Effect, StoredNow
    <3>2. UNCHANGED LateOps
      BY <2>1, <2>4 DEF LateOps
    <3> QED BY <2>2, <3>1, <3>2
  <2>5. CASE r.op.kind # "attrList"
    <3>1. \A q \in late : q.op = r.op => q = r
      BY <2>1 DEF IInv, TypeOK, LateAtHome, Request
    <3>2. r.op \in LateOps /\ LateOps' = LateOps \ {r.op}
      BY <2>1, <2>5, <3>1 DEF LateOps
    <3>3. \/ /\ r.op.kind = "insert" \/ StoredNow[r.op.key] # NoValue
             /\ StoredNow' = [StoredNow EXCEPT
                                ![r.op.key] = IF r.op.kind = "read" THEN @ ELSE r.op.val]
          \/ UNCHANGED StoredNow
      <4>1. CASE Effect(r.op, r.addr)
        BY <2>3, <2>5, <4>1, EffectIs
      <4>2. CASE UNCHANGED store
        BY <4>2 DEF StoredNow
      <4> QED BY <2>1, <4>1, <4>2
    <3>4. Promise!TakeEffectLate
      BY <2>2, <3>2, <3>3
      DEF Promise!TakeEffectLate, Promise!Effect, Calls, StoredNow, LateOps
    <3> QED BY <3>4 DEF Promise!StoreNext
  <2> QED BY <2>4, <2>5
<1>10. CASE UNCHANGED vars
  BY <1>10, <1>same DEF vars, Calls, PendingCall, Phase
<1> QED
  BY <1>1, <1>2, <1>3, <1>4, <1>7, <1>8, <1>9, <1>10 DEF Next, ClientNext, NodeNext

\* For any number of threads, keys and nodes, and either build, the client is an
\* implementation of KeyValueStore.
THEOREM Refinement == Spec => KeepsStorePromise
BY InitStore, NextStore, Invariance, PTL DEF Spec, KeepsStorePromise, Promise!StoreSpec
=============================================================================
