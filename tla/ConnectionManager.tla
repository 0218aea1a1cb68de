------------------------- MODULE ConnectionManager -------------------------
(***************************************************************************)
(* The TLS connection manager of the DHT client,                           *)
(* sources/Common_Enclave/DhtClient/ConnectionManager.cpp.                 *)
(*                                                                         *)
(* Every DHT operation asks the manager for a TLS connection to a node     *)
(* (GetNew) or to any node (GetAny).  The manager keeps one cache of TLS   *)
(* sessions, so that a handshake can be resumed, and counts the            *)
(* handshakes: after maxOpPerTicket of them the cached sessions are        *)
(* thrown away and the next connection negotiates a new one.               *)
(*                                                                         *)
(* The threads of the benchmark (YCSB "-threads") call the manager         *)
(* concurrently.  The cache locks itself; the counters have a mutex that   *)
(* is commented out (lines 97 and 111), so one increment is a load, a      *)
(* store and a comparison that other threads can come between.             *)
(*                                                                         *)
(* A session is an identifier.  uses and home are history variables: the   *)
(* handshakes a session served and the node it was negotiated with.  An    *)
(* identifier that nobody holds is given to a later session.               *)
(***************************************************************************)
EXTENDS Integers, FiniteSets

CONSTANTS
  Threads,          \* the client threads
  KnownAddr,        \* the addresses of the configured nodes
  ForeignAddr,      \* addresses a node may answer with, outside that range
  Sessions,         \* identifiers of TLS sessions
  CacheSize,        \* how many sessions the cache keeps
  OpCountMaxValues, \* the maxOpPerTicket a benchmark may give; <= 0 is "off"
  CountPerSession,  \* the macro COUNT_OPERATION_PER_SESSION
  AllNodes,         \* names the counter of that macro, m_opCount
  NoAddr, NoSession,
  MaxUses,          \* bound: the handshakes of one session that are explored
  MaxCount          \* bound: no thread counts on from a value above it

Addr == KnownAddr \cup ForeignAddr

ASSUME AddrAssumption ==
  /\ KnownAddr \cap ForeignAddr = {}
  /\ NoAddr \notin Addr
  /\ AllNodes \notin Addr
ASSUME SessionAssumption == NoSession \notin Sessions
ASSUME OpCountMaxAssumption == OpCountMaxValues \subseteq Int
ASSUME CountPerSessionAssumption == CountPerSession \in BOOLEAN
ASSUME BoundAssumption == CacheSize \in Nat /\ MaxUses \in Nat /\ MaxCount \in Nat

VARIABLES
  initialized,   \* InitOpCountMax has been called
  opCountMax,    \* m_opCountMax
  opCount,       \* m_idvOpCount, with m_opCount under the key AllNodes
  sessionCache,  \* m_sessionCache: the sessions cached for each address
  pc,            \* where each thread is in GetNew, GetAny or CheckOpCount
  addr,          \* the address of the call
  session,       \* the session the call found, or the one it negotiated
  loaded,        \* the register that holds the loaded counter
  uses, home

managerVars == <<initialized, opCountMax, opCount>>
threadVars == <<pc, addr, session, loaded>>
history == <<uses, home>>
vars == <<initialized, opCountMax, opCount, sessionCache,
          pc, addr, session, loaded, uses, home>>

\* In a call, but not yet past its handshake.
BeforeHandshake == {"connected", "looked"}
\* From the handshake to the return.
AfterHandshake == {"put", "count", "store", "compare", "drop", "reset"}

----------------------------------------------------------------------------
Cached == UNION {sessionCache[a] : a \in Addr}

\* The counter CheckOpCount uses for an address.
Counter(a) == IF CountPerSession THEN AllNodes ELSE a

\* The counters there are: the map is empty until InitOpCountMax fills it.
CounterKeys == IF initialized THEN KnownAddr \cup {AllNodes} ELSE {AllNodes}

\* The addresses whose sessions are thrown away with those of a.
SharesCounter(a, b) == Counter(a) = Counter(b)

\* The handshakes with these addresses are counted at all.
Counted(a) == opCountMax > 0 /\ (CountPerSession \/ a \in KnownAddr)

\* GenRandomInitCount: uniform over 0..max, both ends included.  With a
\* negative maximum the value drawn is never read.
GenRandomInitCount(max) == 0 .. (IF max > 0 THEN max ELSE 0)

\* The call is over and its local variables are gone.
EndCall(t) ==
  /\ pc' = [pc EXCEPT ![t] = "idle"]
  /\ addr' = [addr EXCEPT ![t] = NoAddr]
  /\ session' = [session EXCEPT ![t] = NoSession]
  /\ loaded' = [loaded EXCEPT ![t] = 0]

Goto(t, label) == pc' = [pc EXCEPT ![t] = label]

----------------------------------------------------------------------------
(* The constructor, ConnectionManager(50, -1) *)
Init ==
  /\ initialized = FALSE
  /\ opCountMax = -1
  /\ opCount = [k \in {AllNodes} |-> 0]
  /\ sessionCache = [a \in Addr |-> {}]
  /\ pc = [t \in Threads |-> "idle"]
  /\ addr = [t \in Threads |-> NoAddr]
  /\ session = [t \in Threads |-> NoSession]
  /\ loaded = [t \in Threads |-> 0]
  /\ uses = [s \in Sessions |-> 0]
  /\ home = [s \in Sessions |-> NoAddr]

\* Called once, by the application's Init, before any operation.
InitOpCountMax ==
  /\ ~initialized
  /\ initialized' = TRUE
  /\ opCountMax' \in OpCountMaxValues
  /\ opCount' \in [KnownAddr \cup {AllNodes} -> GenRandomInitCount(opCountMax')]
  /\ UNCHANGED <<sessionCache, threadVars, history>>

\* The pool hands out a connection; when it cannot, the call ends with an
\* exception and nothing has changed.
Connect(t, a) ==
  /\ initialized
  /\ pc[t] = "idle"
  /\ Goto(t, "connected")
  /\ addr' = [addr EXCEPT ![t] = a]
  /\ UNCHANGED <<managerVars, sessionCache, session, loaded, history>>

\* GetNew: the address is the one a node answered with.
GetNew(t) == \E a \in Addr : Connect(t, a)

\* GetAny: the pool picks one of the configured nodes.
GetAny(t) == \E a \in KnownAddr : Connect(t, a)

\* A slip of LookupSession: the lookup ignores the address.
LookupAnySession(t) ==
  /\ pc[t] = "connected"
  /\ \E s \in (IF Cached = {} THEN {NoSession} ELSE Cached) :
       session' = [session EXCEPT ![t] = s]
  /\ Goto(t, "looked")
  /\ UNCHANGED <<managerVars, sessionCache, addr, loaded, history>>

\* m_sessionCache.Get(addr): a session of that address, or none.
LookupSession(t) ==
  /\ pc[t] = "connected"
  /\ LET found == sessionCache[addr[t]] IN
       \E s \in (IF found = {} THEN {NoSession} ELSE found) :
         session' = [session EXCEPT ![t] = s]
  /\ Goto(t, "looked")
  /\ UNCHANGED <<managerVars, sessionCache, addr, loaded, history>>

\* No session was found: a full handshake negotiates a new one.
FullHandshake(t) ==
  /\ pc[t] = "looked"
  /\ session[t] = NoSession
  /\ \E s \in Sessions \ (Cached \cup {session[u] : u \in Threads}) :
       /\ session' = [session EXCEPT ![t] = s]
       /\ uses' = [uses EXCEPT ![s] = 1]
       /\ home' = [home EXCEPT ![s] = addr[t]]
  /\ Goto(t, "put")
  /\ UNCHANGED <<managerVars, sessionCache, addr, loaded>>

\* A slip of ResumedHandshake: without the test "if (!session)" the resumed session
\* is put back.
ResumedPutsBack(t) ==
  /\ pc[t] = "looked"
  /\ session[t] # NoSession
  /\ uses[session[t]] < MaxUses
  /\ uses' = [uses EXCEPT ![session[t]] = @ + 1]
  /\ Goto(t, "put")
  /\ UNCHANGED <<managerVars, sessionCache, addr, session, loaded, home>>

\* The node resumes the session that was found.
ResumedHandshake(t) ==
  /\ pc[t] = "looked"
  /\ session[t] # NoSession
  /\ uses[session[t]] < MaxUses
  /\ uses' = [uses EXCEPT ![session[t]] = @ + 1]
  /\ Goto(t, "count")
  /\ UNCHANGED <<managerVars, sessionCache, addr, session, loaded, home>>

\* The node refuses to resume, and a full handshake follows.  The session it
\* negotiates is not cached: the code tests the session it had found.
RefusedHandshake(t) ==
  /\ pc[t] = "looked"
  /\ session[t] # NoSession
  /\ Goto(t, "count")
  /\ session' = [session EXCEPT ![t] = NoSession]
  /\ UNCHANGED <<managerVars, sessionCache, addr, loaded, history>>

\* The constructor of the TLS layer throws.
FailedHandshake(t) ==
  /\ pc[t] = "looked"
  /\ EndCall(t)
  /\ UNCHANGED <<managerVars, sessionCache, history>>

\* m_sessionCache.Put(addr, session, false).  Another thread may have put a
\* session there meanwhile: the cache keeps either the old one or both.  A full
\* cache pushes one session out.
PutSession(t) ==
  /\ pc[t] = "put"
  /\ \/ /\ sessionCache[addr[t]] # {}
        /\ UNCHANGED sessionCache
     \/ \E victims \in IF Cardinality(Cached) < CacheSize
                         THEN {{}} ELSE {{v} : v \in Cached} :
          sessionCache' = [a \in Addr |->
            (sessionCache[a] \ victims) \cup (IF a = addr[t] THEN {session[t]} ELSE {})]
  /\ Goto(t, "count")
  /\ UNCHANGED <<managerVars, addr, session, loaded, history>>

----------------------------------------------------------------------------
(* CheckOpCount *)

SkipCounting(t) ==
  /\ pc[t] = "count"
  /\ opCountMax <= 0
  /\ EndCall(t)
  /\ UNCHANGED <<managerVars, sessionCache, history>>

\* m_idvOpCount.find fails and the call throws, its session cached already.
UnknownAddress(t) ==
  /\ pc[t] = "count"
  /\ opCountMax > 0
  /\ Counter(addr[t]) \notin CounterKeys
  /\ EndCall(t)
  /\ UNCHANGED <<managerVars, sessionCache, history>>

\* The increment, first half: the counter is loaded.
LoadCount(t) ==
  /\ pc[t] = "count"
  /\ opCountMax > 0
  /\ Counter(addr[t]) \in CounterKeys
  /\ opCount[Counter(addr[t])] <= MaxCount
  /\ loaded' = [loaded EXCEPT ![t] = opCount[Counter(addr[t])]]
  /\ Goto(t, "store")
  /\ UNCHANGED <<managerVars, sessionCache, addr, session, history>>

\* The increment, second half: the counter is stored.
StoreCount(t) ==
  /\ pc[t] = "store"
  /\ opCount' = [opCount EXCEPT ![Counter(addr[t])] = loaded[t] + 1]
  /\ loaded' = [loaded EXCEPT ![t] = @ + 1]
  /\ Goto(t, "compare")
  /\ UNCHANGED <<initialized, opCountMax, sessionCache, addr, session, history>>

\* A slip of CompareCount: ">" for ">=".
CompareOffByOne(t) ==
  /\ pc[t] = "compare"
  /\ \E count \in {loaded[t], opCount[Counter(addr[t])]} :
       \/ count > opCountMax /\ Goto(t, "drop") /\ UNCHANGED <<addr, session, loaded>>
       \/ count <= opCountMax /\ EndCall(t)
  /\ UNCHANGED <<managerVars, sessionCache, history>>

\* The comparison reads the counter again or uses the register, as the
\* compiler pleases.
CompareCount(t) ==
  /\ pc[t] = "compare"
  /\ \E count \in {loaded[t], opCount[Counter(addr[t])]} :
       \/ count >= opCountMax /\ Goto(t, "drop") /\ UNCHANGED <<addr, session, loaded>>
       \/ count < opCountMax /\ EndCall(t)
  /\ UNCHANGED <<managerVars, sessionCache, history>>

\* Two slips of DropSessions: RemoveAll(addr) although one counter serves all
\* addresses, and no removal at all, the counter being reset.
DropOneAddress(t) ==
  /\ pc[t] = "drop"
  /\ sessionCache' = [sessionCache EXCEPT ![addr[t]] = {}]
  /\ Goto(t, "reset")
  /\ UNCHANGED <<managerVars, addr, session, loaded, history>>

DropForgotten(t) ==
  /\ pc[t] = "drop"
  /\ Goto(t, "reset")
  /\ UNCHANGED <<managerVars, sessionCache, addr, session, loaded, history>>

\* m_sessionCache.RemoveAll(addr), or Clear() when one counter serves all.
DropSessions(t) ==
  /\ pc[t] = "drop"
  /\ sessionCache' = [a \in Addr |-> IF SharesCounter(a, addr[t])
                                      THEN {} ELSE sessionCache[a]]
  /\ Goto(t, "reset")
  /\ UNCHANGED <<managerVars, addr, session, loaded, history>>

\* A slip of ResetCount: the limit is subtracted, by every thread that saw it
\* reached.
ResetBySubtraction(t) ==
  /\ pc[t] = "reset"
  /\ opCount' = [opCount EXCEPT ![Counter(addr[t])] = @ - opCountMax]
  /\ EndCall(t)
  /\ UNCHANGED <<initialized, opCountMax, sessionCache, history>>

ResetCount(t) ==
  /\ pc[t] = "reset"
  /\ opCount' = [opCount EXCEPT ![Counter(addr[t])] = 0]
  /\ EndCall(t)
  /\ UNCHANGED <<initialized, opCountMax, sessionCache, history>>

----------------------------------------------------------------------------
CheckOpCount(t) ==
  \/ SkipCounting(t)
  \/ UnknownAddress(t)
  \/ LoadCount(t)
  \/ StoreCount(t)
  \/ CompareCount(t)
  \/ DropSessions(t)
  \/ ResetCount(t)

Handshake(t) ==
  \/ FullHandshake(t)
  \/ ResumedHandshake(t)
  \/ RefusedHandshake(t)
  \/ FailedHandshake(t)

ThreadNext(t) ==
  \/ GetNew(t)
  \/ GetAny(t)
  \/ LookupSession(t)
  \/ Handshake(t)
  \/ PutSession(t)
  \/ CheckOpCount(t)

Next == InitOpCountMax \/ \E t \in Threads : ThreadNext(t)

Spec == Init /\ [][Next]_vars

----------------------------------------------------------------------------
(* What every number of threads preserves *)

\* The values the variables take, at every point of a call.
TypeOK ==
  /\ initialized \in BOOLEAN
  /\ opCountMax \in Int
  /\ opCount \in [CounterKeys -> Nat]
  /\ sessionCache \in [Addr -> SUBSET Sessions]
  /\ pc \in [Threads -> {"idle"} \cup BeforeHandshake \cup AfterHandshake]
  /\ addr \in [Threads -> Addr \cup {NoAddr}]
  /\ session \in [Threads -> Sessions \cup {NoSession}]
  /\ loaded \in [Threads -> Nat]
  /\ uses \in [Sessions -> Nat]
  /\ home \in [Sessions -> Addr \cup {NoAddr}]

\* A TLS session is cached for, and offered to, the node it was negotiated
\* with and no other: the address of Get, Put and the connection agree, however
\* the calls of GetNew and GetAny interleave.
SessionAtHome ==
  /\ \A a \in Addr : \A s \in sessionCache[a] : home[s] = a
  /\ \A t \in Threads : session[t] # NoSession => home[session[t]] = addr[t]

\* A session enters the cache once, straight from its own full handshake.  A
\* thread that resumed a session must not put it back: another thread may have
\* thrown it away since, and it would be used past its limit.
CachedWhenFresh ==
  [][\A a \in Addr : \A s \in sessionCache'[a] \ sessionCache[a] : uses[s] = 1]_vars

----------------------------------------------------------------------------
(* What only one thread preserves *)

\* maxOpPerTicket (DhtClientApp::Init, GetNewDhtClientAppPkg): no session serves
\* more handshakes than that, with the nodes whose handshakes are counted.
TicketBudget ==
  \A s \in Sessions : home[s] # NoAddr /\ Counted(home[s]) => uses[s] <= opCountMax

\* The sessions a single thread may still use: the cached ones and the one it
\* is about to cache.
LiveSessions == Cached \cup {session[t] : t \in {u \in Threads : pc[u] = "put"}}

Tickets == INSTANCE SessionTickets
             WITH Limits <- OpCountMaxValues,
                  limit <- IF initialized THEN opCountMax ELSE 0,
                  live <- LiveSessions

\* With one thread and every node counted the manager keeps the promise of
\* SessionTickets: a session serves at most maxOpPerTicket handshakes, and one
\* that RemoveAll, Clear or the cache's limit took away is never offered again.
KeepsTicketPromise == Tickets!TicketSpec
=============================================================================
