----------------------------- MODULE DhtClient -----------------------------
(***************************************************************************)
(* The operations of the DHT client,                                       *)
(* sources/Common_Enclave/DhtClient/DhtClient.cpp, as the entry points of  *)
(* the enclave (EnclaveMain.cpp) and the application (DhtClientApp.cpp)    *)
(* call them.                                                              *)
(*                                                                         *)
(* A call asks any node for the successor of its key, then sends the       *)
(* request to the node at the address of the answer.  The build for users  *)
(* (DHT_USER_TEST) sends along the attribute list it has cached for that   *)
(* node, and caches the list the node answers with.  Every exception on    *)
(* the way ends in one thrown by the application.                          *)
(*                                                                         *)
(* The connections are those of ConnectionManager; here they either work   *)
(* or raise.  The nodes are not part of the repository: they are modelled  *)
(* by what the client can see of them.  The hash of a key is the key.      *)
(***************************************************************************)
EXTENDS Integers, FiniteSets

CONSTANTS
  Threads,
  Keys, Values, NoValue,
  Nodes,          \* the addresses of the nodes
  Successor,      \* the node each key belongs to
  UserMode,       \* the macro DHT_USER_TEST
  AnswersDos,     \* nodes may answer k_dos
  AttrCacheSize,  \* how many attribute lists the cache keeps
  MaxLate,        \* bound: requests that nobody waits for, at a time
  NoNode, NoList

ASSUME SuccessorAssumption == Successor \in [Keys -> Nodes]
ASSUME NullAssumption == NoValue \notin Values /\ {NoNode, NoList} \cap Nodes = {}
ASSUME ModeAssumption == UserMode \in BOOLEAN /\ AnswersDos \in BOOLEAN
ASSUME DhtBoundAssumption == AttrCacheSize \in Nat \ {0} /\ MaxLate \in Nat

VARIABLES
  pc,           \* where each thread is in its call
  op,           \* the operation, its key and its value
  addr,         \* the address that GetSuccessorAddress returned
  sent,         \* the attribute list sent along
  answer,       \* the node's answer on its way
  returned,     \* how the application's last call has ended, and what it read
  attrCache,    \* States::m_attrCache
  late,         \* requests on their way whose call has raised
  store         \* what each node stores

clientVars == <<pc, op, addr, sent, answer, returned, attrCache>>
vars == <<pc, op, addr, sent, answer, returned, attrCache, late, store>>

\* The key of "attrList" is the name of the list.
Operation == [kind : {"insert", "update"}, key : Keys, val : Values]
        \cup [kind : {"read", "delete", "attrList"}, key : Keys, val : {NoValue}]
Request == [op : Operation, addr : Nodes]
NoOp == [kind |-> "none"]

\* An attribute list is known by the node that made it.
MaybeList == Nodes \cup {NoList}

k_success == 0
k_nonExist == 1
k_denied == 2
k_dos == 3
Answer == [ret : k_success .. k_dos, val : Values \cup {NoValue}, list : MaybeList]
NotReturned == [how |-> "none", val |-> NoValue]
NoAnswer == [ret |-> k_success, val |-> NoValue, list |-> NoList]

Goto(t, label) == pc' = [pc EXCEPT ![t] = label]

Init ==
  /\ pc = [t \in Threads |-> "idle"]
  /\ op = [t \in Threads |-> NoOp]
  /\ addr = [t \in Threads |-> NoNode]
  /\ sent = [t \in Threads |-> NoList]
  /\ answer = [t \in Threads |-> NoAnswer]
  /\ returned = [t \in Threads |-> NotReturned]
  /\ attrCache = [n \in Nodes |-> NoList]
  /\ late = {}
  /\ store = [n \in Nodes |-> [k \in Keys |-> NoValue]]

----------------------------------------------------------------------------
(* The client *)

\* A call of the application; the attribute lists are inserted by users only.
Invoke(t) ==
  /\ pc[t] = "idle"
  /\ \E o \in Operation :
       /\ o.kind = "attrList" => UserMode
       /\ op' = [op EXCEPT ![t] = o]
       /\ returned' = IF o.kind = "attrList" THEN returned
                        ELSE [returned EXCEPT ![t] = NotReturned]
  /\ Goto(t, "lookup")
  /\ UNCHANGED <<addr, sent, answer, attrCache, late, store>>

\* A slip of GetSuccessorAddress: the address of the node that was asked.
GetAddressAsked(t) ==
  /\ pc[t] = "lookup"
  /\ \E n \in Nodes : addr' = [addr EXCEPT ![t] = n]
  /\ Goto(t, "request")
  /\ UNCHANGED <<op, sent, answer, returned, attrCache, late, store>>

\* GetSuccessorAddress and GetAttrListAddress: any node knows the answer.
GetSuccessorAddress(t) ==
  /\ pc[t] = "lookup"
  /\ addr' = [addr EXCEPT ![t] = Successor[op[t].key]]
  /\ Goto(t, "request")
  /\ UNCHANGED <<op, sent, answer, returned, attrCache, late, store>>

\* The operations that send and receive attribute lists.
UsesAttrList(t) == UserMode /\ op[t].kind \in {"read", "update", "delete"}

\* A slip of SendRequest: one list for all nodes.
SendAnyList(t) ==
  /\ pc[t] = "request"
  /\ \E n \in Nodes : sent' = [sent EXCEPT ![t] = IF UsesAttrList(t) THEN attrCache[n] ELSE NoList]
  /\ Goto(t, "sent")
  /\ UNCHANGED <<op, addr, answer, returned, attrCache, late, store>>

\* GetNew, m_attrCache.Get(addr), SendRpc
SendRequest(t) ==
  /\ pc[t] = "request"
  /\ sent' = [sent EXCEPT ![t] = IF UsesAttrList(t) THEN attrCache[addr[t]] ELSE NoList]
  /\ Goto(t, "sent")
  /\ UNCHANGED <<op, addr, answer, returned, attrCache, late, store>>

\* The call is over and its local variables are gone.
Return(t, how, val) ==
  /\ Goto(t, "idle")
  /\ op' = [op EXCEPT ![t] = NoOp]
  /\ addr' = [addr EXCEPT ![t] = NoNode]
  /\ sent' = [sent EXCEPT ![t] = NoList]
  /\ answer' = [answer EXCEPT ![t] = NoAnswer]
  /\ returned' = IF op[t].kind = "attrList" THEN returned
                   ELSE [returned EXCEPT ![t] = [how |-> how, val |-> val]]

\* GetAny or GetNew raises, a send, a receive or the parsing of an answer does,
\* or the buffer for a value cannot be had.  A request that was sent may be lost
\* or still be on its way.
Raise(t) ==
  /\ pc[t] # "idle"
  /\ late' \in {late} \cup
       (IF pc[t] = "sent" /\ op[t].kind # "read" /\ Cardinality(late) < MaxLate
          THEN {late \cup {[op |-> op[t], addr |-> addr[t]]}} ELSE {})
  /\ Return(t, "failed", NoValue)
  /\ UNCHANGED <<attrCache, store>>

CachedNodes == {n \in Nodes : attrCache[n] # NoList}

\* A slip of PutList: the cache has no limit.
PutListAnyway(n, list) == attrCache' = [attrCache EXCEPT ![n] = list]

\* m_attrCache.Put(addr, list, true): a full cache pushes another list out.
PutList(n, list) ==
  IF n \in CachedNodes \/ Cardinality(CachedNodes) < AttrCacheSize
    THEN attrCache' = [attrCache EXCEPT ![n] = list]
    ELSE \E victim \in CachedNodes :
           attrCache' = [attrCache EXCEPT ![n] = list, ![victim] = NoList]

\* Two of the codes raise; any other is a success, k_dos included.
CheckDhtStoreRpcError(ret) == ret \notin {k_nonExist, k_denied}

\* The answer is received; its list is cached before its code is looked at.
Receive(t) ==
  /\ pc[t] = "answered"
  /\ IF answer[t].list = NoList THEN UNCHANGED attrCache
                                ELSE PutList(addr[t], answer[t].list)
  /\ IF CheckDhtStoreRpcError(answer[t].ret) THEN Return(t, "ok", answer[t].val)
                                             ELSE Return(t, "failed", NoValue)
  /\ UNCHANGED <<late, store>>

----------------------------------------------------------------------------
(* A node *)

\* The node has answered; it adds its list if the one that was sent is old.
Reply(t, ret, val) ==
  /\ \E list \in {NoList} \cup (IF UsesAttrList(t) THEN {addr[t]} ELSE {}) :
       answer' = [answer EXCEPT ![t] = [ret |-> ret, val |-> val, list |-> list]]
  /\ Goto(t, "answered")
  /\ UNCHANGED <<op, addr, sent, returned, attrCache>>

\* A request has its effect; only an insertion has one on data that is not there.
Effect(o, n) ==
  \/ /\ o.kind = "insert" \/ (o.kind # "attrList" /\ store[n][o.key] # NoValue)
     /\ store' = IF o.kind = "read" THEN store ELSE [store EXCEPT ![n][o.key] = o.val]
  \/ o.kind = "attrList" /\ UNCHANGED store

\* What the node has under the key of the request.
Stored(t) == store[addr[t]][op[t].key]

Serve(t) ==
  /\ pc[t] = "sent"
  /\ Effect(op[t], addr[t])
  /\ Reply(t, k_success, IF op[t].kind = "read" THEN Stored(t) ELSE NoValue)
  /\ UNCHANGED late

\* An answer without an effect: there is no such data, the policy denies it, or
\* k_dos.
Refuse(t) ==
  /\ pc[t] = "sent"
  /\ \E ret \in {k_denied}
            \cup (IF op[t].kind # "insert" /\ Stored(t) = NoValue THEN {k_nonExist} ELSE {})
            \cup (IF AnswersDos THEN {k_dos} ELSE {}) : Reply(t, ret, NoValue)
  /\ UNCHANGED <<late, store>>

\* A request that nobody waits for any more is served, or refused.
ServeLate ==
  \E r \in late :
    /\ late' = late \ {r}
    /\ Effect(r.op, r.addr) \/ UNCHANGED store
    /\ UNCHANGED clientVars

----------------------------------------------------------------------------
NodeNext(t) ==
  \/ Serve(t)
  \/ Refuse(t)

ClientNext(t) ==
  \/ Invoke(t)
  \/ GetSuccessorAddress(t)
  \/ SendRequest(t)
  \/ Raise(t)
  \/ Receive(t)

Next == (\E t \in Threads : ClientNext(t) \/ NodeNext(t)) \/ ServeLate

Spec == Init /\ [][Next]_vars

----------------------------------------------------------------------------
\* The values the variables take; the cache keeps its limit.
TypeOK ==
  /\ pc \in [Threads -> {"idle", "lookup", "request", "sent", "answered"}]
  /\ op \in [Threads -> Operation \cup {NoOp}]
  /\ addr \in [Threads -> Nodes \cup {NoNode}]
  /\ sent \in [Threads -> MaybeList]
  /\ answer \in [Threads -> Answer]
  /\ returned \in [Threads -> [how : {"none", "ok", "failed"}, val : Values \cup {NoValue}]]
  /\ attrCache \in [Nodes -> MaybeList]
  /\ Cardinality(CachedNodes) <= AttrCacheSize
  /\ late \subseteq Request /\ Cardinality(late) <= MaxLate
  /\ store \in [Nodes -> [Keys -> Values \cup {NoValue}]]

\* The attribute list cached for a node is one that node has made, and no node
\* is ever sent the list of another one: the cache is read and written with the
\* address of the connection, whichever calls are under way.
ListAtHome ==
  /\ \A n \in Nodes : attrCache[n] \in {n, NoList}
  /\ \A t \in Threads : sent[t] \in {addr[t], NoList}

\* The calls as KeyValueStore sees them.
Phase(t) == IF pc[t] # "answered" THEN "called"
            ELSE CASE answer[t].ret = k_success -> "done"
                   [] answer[t].ret = k_dos -> "ignored"
                   [] OTHER -> "called"
PendingCall(t) ==
  IF pc[t] = "idle" \/ op[t].kind = "attrList" THEN [phase |-> "none"]
  ELSE [phase |-> Phase(t), op |-> op[t], val |-> answer[t].val]

Promise == INSTANCE KeyValueStore
  WITH MayIgnore <- AnswersDos,
       stored <- [k \in Keys |-> store[Successor[k]][k]],
       pending <- [t \in Threads |-> PendingCall(t)],
       late <- {r.op : r \in {q \in late : q.op.kind # "attrList"}}

\* The client implements KeyValueStore: a call that returns without an exception
\* had its effect once, on the node its key belongs to, and a value read was
\* stored at some moment of the call; a call that raises has it at most once,
\* then or later.  The one exception are the calls a node answered with k_dos.
KeepsStorePromise == Promise!StoreSpec
=============================================================================
