--------------------------- MODULE ConnectionPool ---------------------------
(***************************************************************************)
(* The connections of a client to the nodes of the DHT: ConnectionPool.cpp *)
(* of the applications, the calls out of the enclave that reach it         *)
(* (ocall_dht_client.cpp) and what receives their result inside            *)
(* (UntrustedConnectionPool.cpp).  Each package of DhtBinding has a pool.  *)
(*                                                                         *)
(* An operation takes a connection to any known node, asks it which node   *)
(* the key belongs to, gives it back, and takes one to that node.  The     *)
(* base class Net::ConnectionPool (idle connections by address, locked)    *)
(* and CntPoolConnection (which gives its connection back when it is       *)
(* destroyed) are external.                                                *)
(***************************************************************************)
EXTENDS DhtBinding

CONSTANTS
  Addrs,      \* of the nodes there may be, ordered as the ports are
  FirstAddr,  \* 57756, where the nodes known to the pool start
  LastAddrs,  \* the ports that the configuration file may give
  Conns,
  NoAddr,
  NoConn

ASSUME OrderAssumption == InOrder
ASSUME AddrAssumption ==
  /\ FirstAddr \in Nat /\ Addrs \subseteq Nat /\ LastAddrs \subseteq Nat
  /\ \A last \in LastAddrs : FirstAddr .. last \subseteq Addrs
  /\ NoAddr \notin Addrs
ASSUME ConnAssumption == NoConn \notin Conns

VARIABLES
  lastAddr,   \* the port in the configuration file, never changed
  crashed,    \* the process has ended on something undefined
  round,      \* of an operation: about "any" node, about the "node" of its key, or "over"
  ask,        \* how far its request to the pool is
  to,         \* the address its connection is said to be to
  cnt,        \* its connection
  idle,       \* the connections each pool keeps, by address
  home        \* of an open connection: the pool that opened it, and its address

callVars == <<round, ask, to, cnt>>
connVars == <<idle, home>>
poolVars == <<lastAddr, crashed, callVars, connVars>>
allVars == <<vars, poolVars>>

Closed == <<NullPtr, NoAddr>>

\* The loop in the constructor: every address from the first to the configured one.
KnownNodeAddr == {a \in Addrs : FirstAddr <= a /\ a <= lastAddr}

PoolInit ==
  /\ Init
  /\ lastAddr \in LastAddrs
  /\ crashed = FALSE
  /\ round = [t \in Threads |-> "over"]
  /\ ask = [t \in Threads |-> "none"]
  /\ to = [t \in Threads |-> NoAddr]
  /\ cnt = [t \in Threads |-> NoConn]
  /\ idle = [p \in Packages |-> [a \in Addrs |-> {}]]
  /\ home = [c \in Conns |-> Closed]

----------------------------------------------------------------------------
(* With the steps of the binding *)

\* The operation shares the package's pool for as long as it runs.
Begin(t) ==
  /\ Operation(t)
  /\ round' = [round EXCEPT ![t] = IF pc'[t] = "operation" THEN "any" ELSE "over"]
  /\ UNCHANGED <<lastAddr, crashed, ask, to, cnt, connVars>>

\* The operation has given back what it took.
End(t) ==
  /\ ask[t] = "none"
  /\ OperationEnds(t)
  /\ round' = [round EXCEPT ![t] = "over"]
  /\ UNCHANGED <<lastAddr, crashed, ask, to, cnt, connVars>>

\* With its package a pool goes, and closes its idle connections.
Close(t) ==
  /\ Cleanup(t)
  /\ LET gone == {p \in Packages : stage[p] # "deleted" /\ stage'[p] = "deleted"} IN
       /\ idle' = [p \in Packages |-> IF p \in gone THEN [a \in Addrs |-> {}] ELSE idle[p]]
       /\ home' = [c \in Conns |-> IF home[c][1] \in gone THEN Closed ELSE home[c]]
  /\ UNCHANGED <<lastAddr, crashed, callVars>>

----------------------------------------------------------------------------
(* The calls out of the enclave *)

Goto(t, place) == ask' = [ask EXCEPT ![t] = place]

\* A slip of TakeIdle: the connection is left for others to take.
ShareIdle(t, a) ==
  \E c \in idle[pkg[t]][a] :
    /\ cnt' = [cnt EXCEPT ![t] = c]
    /\ Goto(t, "send")
    /\ UNCHANGED connVars

\* The base class: an idle connection to the address is taken out of the pool.
TakeIdle(t, a) ==
  \E c \in idle[pkg[t]][a] :
    /\ cnt' = [cnt EXCEPT ![t] = c]
    /\ idle' = [idle EXCEPT ![pkg[t]][a] = @ \ {c}]
    /\ Goto(t, "send")
    /\ UNCHANGED home

\* A new one, when none is idle.
GetNew(t, a) ==
  /\ idle[pkg[t]][a] = {}
  /\ \E c \in Conns :
       /\ home[c] = Closed
       /\ cnt' = [cnt EXCEPT ![t] = c]
       /\ home' = [home EXCEPT ![c] = <<pkg[t], a>>]
  /\ Goto(t, "send")
  /\ UNCHANGED idle

\* It cannot connect, which is caught: the call returns a null pointer.
ConnectFails(t, a) ==
  /\ idle[pkg[t]][a] = {}
  /\ Goto(t, "null")
  /\ UNCHANGED <<cnt, connVars>>

Get(t, a) ==
  /\ TakeIdle(t, a) \/ GetNew(t, a) \/ ConnectFails(t, a)
  /\ UNCHANGED <<vars, lastAddr, crashed, round>>

\* A slip of GetAnyDhtNode: a node is drawn for the connection, another for the pair.
GetAnyDhtNodeTwice(t) ==
  /\ round[t] = "any" /\ ask[t] = "none"
  /\ \E a, b \in KnownNodeAddr : Get(t, a) /\ to' = [to EXCEPT ![t] = b]

\* Any index the list has may be drawn, also when threads share the generator.  The
\* largest index of an empty list wraps: the process reads beyond the list.
GetAnyDhtNode(t) ==
  /\ round[t] = "any" /\ ask[t] = "none"
  /\ \/ \E a \in KnownNodeAddr : Get(t, a) /\ to' = [to EXCEPT ![t] = a]
     \/ /\ KnownNodeAddr = {}
        /\ \/ crashed' = TRUE /\ UNCHANGED <<vars, lastAddr, callVars, connVars>>
           \/ \E a \in Addrs : Get(t, a) /\ to' = [to EXCEPT ![t] = a]

\* The address is the one a node has answered with.
GetDhtNode(t) ==
  /\ round[t] = "node" /\ ask[t] = "none"
  /\ \E a \in Addrs : Get(t, a) /\ to' = [to EXCEPT ![t] = a]

\* SendContainer, of the request's category: the connection is wrapped and handed in.
SendCategory(t) ==
  /\ ask[t] = "send"
  /\ Goto(t, "held")
  /\ UNCHANGED <<vars, lastAddr, crashed, round, to, cnt, connVars>>

\* It raises: the connection is destroyed and the call returns a null pointer.
SendFails(t) ==
  /\ ask[t] = "send"
  /\ Goto(t, "null")
  /\ cnt' = [cnt EXCEPT ![t] = NoConn]
  /\ home' = [home EXCEPT ![cnt[t]] = Closed]
  /\ UNCHANGED <<vars, lastAddr, crashed, round, to, idle>>

----------------------------------------------------------------------------
(* Inside the enclave *)

\* The builder of the enclave's wrapper (external) refuses a null pointer.
RefusesNull == build = "enclave"

\* UntrustedConnectionPool wraps what it got.  Refused, the operation has failed;
\* without an enclave the handshake is made over the null pointer.
ReceiveNull(t) ==
  /\ ask[t] = "null"
  /\ IF RefusesNull
       THEN /\ Goto(t, "none")
            /\ round' = [round EXCEPT ![t] = "over"]
            /\ to' = [to EXCEPT ![t] = NoAddr]
            /\ UNCHANGED crashed
       ELSE crashed' = TRUE /\ UNCHANGED <<round, ask, to>>
  /\ UNCHANGED <<vars, lastAddr, cnt, connVars>>

\* The pair is destroyed, after the answer or by an exception.  The pool takes the
\* connection back, or closes it when it has enough of them.
Release(t) ==
  /\ ask[t] = "held"
  /\ \/ /\ idle' = [idle EXCEPT ![pkg[t]][to[t]] = @ \cup {cnt[t]}]
        /\ UNCHANGED home
     \/ /\ home' = [home EXCEPT ![cnt[t]] = Closed]
        /\ UNCHANGED idle
  /\ Goto(t, "none")
  /\ round' \in {[round EXCEPT ![t] = "over"],
                 [round EXCEPT ![t] = IF @ = "any" THEN "node" ELSE "over"]}
  /\ to' = [to EXCEPT ![t] = NoAddr]
  /\ cnt' = [cnt EXCEPT ![t] = NoConn]
  /\ UNCHANGED <<vars, lastAddr, crashed>>

----------------------------------------------------------------------------
PoolNext ==
  /\ ~crashed
  /\ \/ OnLoad /\ UNCHANGED poolVars
     \/ \E t \in Threads :
          \/ NewPackage(t) /\ UNCHANGED poolVars
          \/ MakeApp(t) /\ UNCHANGED poolVars
          \/ InitApp(t) /\ UNCHANGED poolVars
          \/ Publish(t) /\ UNCHANGED poolVars
          \/ InitRaises(t) /\ UNCHANGED poolVars
          \/ Begin(t)
          \/ End(t)
          \/ Close(t)
          \/ GetAnyDhtNode(t)
          \/ GetDhtNode(t)
          \/ SendCategory(t)
          \/ SendFails(t)
          \/ ReceiveNull(t)
          \/ Release(t)

PoolSpec == PoolInit /\ [][PoolNext]_allVars
----------------------------------------------------------------------------
\* Where each operation and each connection is.
PoolTypeOK ==
  /\ TypeOK
  /\ lastAddr \in LastAddrs
  /\ crashed \in BOOLEAN
  /\ round \in [Threads -> {"any", "node", "over"}]
  /\ ask \in [Threads -> {"none", "send", "null", "held"}]
  /\ to \in [Threads -> Addrs \cup {NoAddr}]
  /\ cnt \in [Threads -> Conns \cup {NoConn}]
  /\ idle \in [Packages -> [Addrs -> SUBSET Conns]]
  /\ home \in [Conns -> (Packages \X Addrs) \cup {Closed}]

\* The handshake is made with the node whose session the connection manager looks up
\* and whose handshakes it counts: a connection leads where the pool says it does,
\* and is given back to the pool it came from, under its own address.
RightPlace ==
  /\ \A t \in Threads : cnt[t] # NoConn => home[cnt[t]] = <<pkg[t], to[t]>>
  /\ \A p \in Packages, a \in Addrs : \A c \in idle[p][a] : home[c] = <<p, a>>

\* An open connection is either with one operation or idle in one pool of a package
\* that lives: no two operations talk over one, and none is left open by a failure
\* or by the end of its client.
OnePlace ==
  /\ \A t, u \in Threads : t # u /\ cnt[t] # NoConn => cnt[t] # cnt[u]
  /\ \A c \in Conns : home[c] # Closed =>
       /\ stage[home[c][1]] = "ready"
       /\ (\E t \in Threads : cnt[t] = c) # (\E a \in Addrs : c \in idle[home[c][1]][a])
=============================================================================
