---------------------- MODULE ConnectionManagerProofs ----------------------
(***************************************************************************)
(* Proofs about ConnectionManager, for every number of threads, addresses  *)
(* and sessions and every maxOpPerTicket.                                  *)
(*                                                                         *)
(* IInv is the inductive invariant of any number of threads.  The limit on *)
(* a session's use holds for one thread only; BudgetInv is its             *)
(* strengthening: between two calls the counter of a cached session is at  *)
(* least the session's use and below the limit, and inside CheckOpCount it *)
(* lags by the one handshake that is being counted.                        *)
(***************************************************************************)
EXTENDS ConnectionManager, TLAPS

\* A thread in a call has the address of the call, and it holds a session from
\* the lookup or the handshake on, never before.
InCall ==
  \A t \in Threads :
    /\ pc[t] # "idle" => initialized /\ addr[t] \in Addr
    /\ pc[t] \in {"idle", "connected"} => session[t] = NoSession

\* A session that is about to be cached was negotiated by this thread, has
\* served that handshake only, and no other thread can have come by it.
FreshIsOwned ==
  \A t \in Threads : pc[t] = "put" =>
    /\ session[t] \in Sessions
    /\ uses[session[t]] = 1
    /\ \A a \in Addr : session[t] \notin sessionCache[a]
    /\ \A u \in Threads \ {t} : session[u] # session[t]

IInv == TypeOK /\ InCall /\ SessionAtHome /\ FreshIsOwned

----------------------------------------------------------------------------
\* The constructor establishes the invariant.
LEMMA InitIInv == Init => IInv
<1> SUFFICES ASSUME Init PROVE IInv
  OBVIOUS
<1>1. TypeOK
  <2>1. opCount \in [CounterKeys -> Nat]
    <3>1. CounterKeys = {AllNodes}
      BY DEF Init, CounterKeys
    <3> QED BY <3>1 DEF Init
  <2>2. initialized \in BOOLEAN
    BY Zenon DEF Init
  <2>3. opCountMax \in Int
    BY DEF Init
  <2> QED BY <2>1, <2>2, <2>3 DEF Init, TypeOK
<1>2. InCall /\ SessionAtHome /\ FreshIsOwned
  BY DEF Init, InCall, SessionAtHome, FreshIsOwned
<1> QED BY <1>1, <1>2 DEF IInv

\* Every step of every thread preserves it.
LEMMA NextIInv == IInv /\ [Next]_vars => IInv'
<1> SUFFICES ASSUME IInv, [Next]_vars PROVE IInv'
  OBVIOUS
<1> USE SessionAssumption, AddrAssumption, OpCountMaxAssumption
<1> USE DEF IInv, TypeOK, InCall, SessionAtHome, FreshIsOwned, BeforeHandshake,
            AfterHandshake
<1>1. CASE InitOpCountMax
  <2>1. opCount' \in [CounterKeys' -> Nat]
    <3>1. GenRandomInitCount(opCountMax') \subseteq Nat
      BY <1>1 DEF InitOpCountMax, GenRandomInitCount
    <3> QED BY <1>1, <3>1 DEF InitOpCountMax, CounterKeys
  <2> QED BY <1>1, <2>1 DEF InitOpCountMax, threadVars, history
<1>2. ASSUME NEW t \in Threads, NEW a \in Addr, Connect(t, a) PROVE IInv'
  BY <1>2 DEF Connect, Goto, managerVars, history, CounterKeys
<1>3. ASSUME NEW t \in Threads, LookupSession(t) PROVE IInv'
  <2>1. session'[t] = NoSession \/ session'[t] \in sessionCache[addr[t]]
    BY <1>3 DEF LookupSession
  <2> QED BY <1>3, <2>1 DEF LookupSession, Goto, managerVars, history, CounterKeys
<1>4. ASSUME NEW t \in Threads, FullHandshake(t) PROVE IInv'
  <2>1. PICK s \in Sessions \ (Cached \cup {session[u] : u \in Threads}) :
          /\ session' = [session EXCEPT ![t] = s]
          /\ uses' = [uses EXCEPT ![s] = 1]
          /\ home' = [home EXCEPT ![s] = addr[t]]
    BY <1>4 DEF FullHandshake
  <2>2. /\ \A a \in Addr : s \notin sessionCache[a]
        /\ \A u \in Threads : session[u] # s
    BY DEF Cached
  <2> QED BY <1>4, <2>1, <2>2 DEF FullHandshake, Goto, managerVars, CounterKeys
<1>5. ASSUME NEW t \in Threads, ResumedHandshake(t) PROVE IInv'
  BY <1>5 DEF ResumedHandshake, Goto, managerVars, CounterKeys
<1>6. ASSUME NEW t \in Threads, RefusedHandshake(t) PROVE IInv'
  BY <1>6 DEF RefusedHandshake, Goto, managerVars, history, CounterKeys
<1>7. ASSUME NEW t \in Threads, FailedHandshake(t) PROVE IInv'
  BY <1>7 DEF FailedHandshake, EndCall, managerVars, history, CounterKeys
<1>8. ASSUME NEW t \in Threads, PutSession(t) PROVE IInv'
  <2>1. /\ sessionCache' \in [Addr -> SUBSET Sessions]
        /\ \A a \in Addr : sessionCache'[a] \subseteq
             sessionCache[a] \cup (IF a = addr[t] THEN {session[t]} ELSE {})
    BY <1>8 DEF PutSession
  <2> QED BY <1>8, <2>1 DEF PutSession, Goto, managerVars, history, CounterKeys
<1>9. ASSUME NEW t \in Threads, SkipCounting(t) PROVE IInv'
  BY <1>9 DEF SkipCounting, EndCall, managerVars, history, CounterKeys
<1>10. ASSUME NEW t \in Threads, UnknownAddress(t) PROVE IInv'
  BY <1>10 DEF UnknownAddress, EndCall, managerVars, history, CounterKeys
<1>11. ASSUME NEW t \in Threads, LoadCount(t) PROVE IInv'
  BY <1>11 DEF LoadCount, Goto, managerVars, history, CounterKeys
<1>12. ASSUME NEW t \in Threads, StoreCount(t) PROVE IInv'
  <2>1. CounterKeys' = CounterKeys
    BY <1>12 DEF StoreCount, CounterKeys
  <2>2. opCount' \in [CounterKeys -> Nat]
    <3>1. loaded[t] + 1 \in Nat
      OBVIOUS
    <3> QED BY <1>12, <3>1 DEF StoreCount
  <2> QED BY <1>12, <2>1, <2>2 DEF StoreCount, Goto, history
<1>13. ASSUME NEW t \in Threads, CompareCount(t) PROVE IInv'
  BY <1>13 DEF CompareCount, EndCall, Goto, managerVars, history, CounterKeys
<1>14. ASSUME NEW t \in Threads, DropSessions(t) PROVE IInv'
  BY <1>14 DEF DropSessions, Goto, managerVars, history, CounterKeys
<1>15. ASSUME NEW t \in Threads, ResetCount(t) PROVE IInv'
  BY <1>15 DEF ResetCount, EndCall, history, CounterKeys
<1>16. CASE UNCHANGED vars
  BY <1>16 DEF vars, CounterKeys
<1> QED
  BY <1>1, <1>2, <1>3, <1>4, <1>5, <1>6, <1>7, <1>8, <1>9, <1>10, <1>11, <1>12,
     <1>13, <1>14, <1>15, <1>16
  DEF Next, ThreadNext, GetNew, GetAny, Handshake, CheckOpCount, Addr

\* IInv holds in every reachable state, whatever the threads do.
THEOREM Invariance == Spec => []IInv
BY InitIInv, NextIInv, PTL DEF Spec

\* The variables keep the values the code gives them.
THEOREM TypeCorrect == Spec => []TypeOK
BY Invariance, PTL DEF IInv

\* A session is cached for and offered to the node it was negotiated with,
\* with any number of threads in GetNew, GetAny and CheckOpCount.
THEOREM AtHome == Spec => []SessionAtHome
BY Invariance, PTL DEF IInv

----------------------------------------------------------------------------
\* The step of CachedWhenFresh.
EntersFresh == \A a \in Addr : \A s \in sessionCache'[a] \ sessionCache[a] : uses[s] = 1

\* Only PutSession adds to the cache, and what it adds is the fresh session.
LEMMA NextEntersFresh == IInv /\ [Next]_vars => [EntersFresh]_vars
<1> SUFFICES ASSUME IInv, [Next]_vars,
                    NEW a \in Addr, NEW s \in sessionCache'[a] \ sessionCache[a]
             PROVE  uses[s] = 1
  BY DEF EntersFresh
<1>1. ASSUME NEW t \in Threads, PutSession(t) PROVE uses[s] = 1
  <2>1. s = session[t]
    BY <1>1 DEF PutSession, IInv, TypeOK
  <2> QED BY <1>1, <2>1 DEF PutSession, IInv, FreshIsOwned
<1>2. ASSUME NEW t \in Threads, DropSessions(t) PROVE FALSE
  BY <1>2 DEF DropSessions, IInv, TypeOK
<1>3. ASSUME UNCHANGED sessionCache PROVE FALSE
  BY <1>3
<1> QED
  BY <1>1, <1>2, <1>3
  DEF Next, ThreadNext, GetNew, GetAny, Handshake, CheckOpCount, Connect, LookupSession,
      FullHandshake, ResumedHandshake, RefusedHandshake, FailedHandshake, SkipCounting,
      UnknownAddress, LoadCount, StoreCount, CompareCount, ResetCount, InitOpCountMax, vars

\* A session enters the cache straight from its own full handshake: no thread,
\* however long it was suspended, puts back a session that RemoveAll took out.
THEOREM NothingReturns == Spec => CachedWhenFresh
<1>1. IInv /\ [Next]_vars => [EntersFresh]_vars
  BY NextEntersFresh
<1>2. Spec => [][EntersFresh]_vars
  BY <1>1, Invariance, PTL DEF Spec
<1> QED BY <1>2 DEF EntersFresh, CachedWhenFresh

----------------------------------------------------------------------------
(* One thread *)

\* Thread t is past the handshake of a call whose counter is that of a.
Counting(t, a) == pc[t] \in AfterHandshake /\ SharesCounter(a, addr[t])

\* Before anything was negotiated the limit may still be set.
NothingYet ==
  ~initialized => /\ \A a \in Addr : sessionCache[a] = {}
                  /\ \A s \in Sessions : home[s] = NoAddr

\* CheckOpCount runs to the store only with counting on and a counter to store
\* to, and nobody else writes the counter it has loaded.
CounterIsOwn(t) ==
  /\ pc[t] \in {"store", "compare", "drop", "reset"} =>
       opCountMax > 0 /\ Counter(addr[t]) \in CounterKeys
  /\ pc[t] \in {"store", "compare"} => loaded[t] = opCount[Counter(addr[t])]

\* The session the lookup found is still in the cache at the handshake.
FoundIsCached(t) ==
  pc[t] = "looked" /\ session[t] # NoSession => session[t] \in sessionCache[addr[t]]

\* The counter of a cached session against its use, at each point of a call.
CounterCoversUse(t) ==
  \A a \in Addr : Counted(a) => \A s \in sessionCache[a] :
    /\ ~Counting(t, a) => /\ uses[s] <= opCount[Counter(a)]
                          /\ opCount[Counter(a)] < opCountMax
    /\ Counting(t, a) =>
         /\ pc[t] \in {"put", "count", "store"} => uses[s] <= opCount[Counter(a)] + 1
         /\ pc[t] = "compare" => uses[s] <= opCount[Counter(a)]
         /\ pc[t] # "reset"

BudgetInv(t) ==
  /\ NothingYet
  /\ CounterIsOwn(t)
  /\ FoundIsCached(t)
  /\ CounterCoversUse(t)
  /\ TicketBudget

\* A counted address with a cached session has a counter, which is a number.
LEMMA HasCounter ==
  ASSUME NEW t \in Threads, IInv, BudgetInv(t), NEW a \in Addr, Counted(a), initialized
  PROVE  Counter(a) \in CounterKeys /\ opCount[Counter(a)] \in Nat
<1>1. Counter(a) \in CounterKeys
  BY DEF Counted, Counter, CounterKeys
<1> QED BY <1>1 DEF IInv, TypeOK

\* Nothing is negotiated at construction.
LEMMA InitBudget == ASSUME NEW t \in Threads PROVE Init => BudgetInv(t)
BY DEF Init, BudgetInv, NothingYet, CounterIsOwn, FoundIsCached, CounterCoversUse,
       TicketBudget

\* With one thread every step preserves BudgetInv.
LEMMA NextBudget ==
  ASSUME NEW t, Threads = {t}
  PROVE  IInv /\ IInv' /\ BudgetInv(t) /\ [Next]_vars => BudgetInv(t)'
<1> SUFFICES ASSUME IInv, IInv', BudgetInv(t), [Next]_vars PROVE BudgetInv(t)'
  OBVIOUS
<1> USE SessionAssumption, AddrAssumption, OpCountMaxAssumption, CountPerSessionAssumption
<1>t. t \in Threads
  OBVIOUS
<1>n. \A a \in Addr : Counted(a) /\ initialized => opCount[Counter(a)] \in Nat
  BY <1>t, HasCounter
<1> USE DEF BudgetInv, NothingYet, CounterIsOwn, FoundIsCached, CounterCoversUse,
            TicketBudget, Counting, Counted, SharesCounter, AfterHandshake
<1>1. CASE InitOpCountMax
  BY <1>1, <1>t DEF InitOpCountMax, IInv, TypeOK, InCall, threadVars, history
<1>2. ASSUME NEW b \in Addr, Connect(t, b) PROVE BudgetInv(t)'
  BY <1>2, <1>t DEF Connect, Goto, IInv, TypeOK, managerVars, history, CounterKeys
<1>3. CASE LookupSession(t)
  BY <1>3, <1>t DEF LookupSession, Goto, IInv, TypeOK, managerVars, history, CounterKeys
<1>4. CASE FullHandshake(t)
  <2>1. PICK s \in Sessions \ (Cached \cup {session[u] : u \in Threads}) :
          /\ session' = [session EXCEPT ![t] = s]
          /\ uses' = [uses EXCEPT ![s] = 1]
          /\ home' = [home EXCEPT ![s] = addr[t]]
    BY <1>4 DEF FullHandshake
  <2>2. \A a \in Addr : s \notin sessionCache[a]
    BY DEF Cached
  <2> QED BY <1>4, <1>t, <1>n, <2>1, <2>2
          DEF FullHandshake, Goto, IInv, TypeOK, InCall, managerVars, CounterKeys
<1>5. CASE ResumedHandshake(t)
  BY <1>5, <1>t, <1>n
  DEF ResumedHandshake, Goto, IInv, TypeOK, InCall, SessionAtHome, managerVars, CounterKeys
<1>6. CASE RefusedHandshake(t)
  BY <1>6, <1>t, <1>n
  DEF RefusedHandshake, Goto, IInv, TypeOK, InCall, managerVars, history, CounterKeys
<1>7. CASE FailedHandshake(t)
  BY <1>7, <1>t
  DEF FailedHandshake, EndCall, IInv, TypeOK, managerVars, history, CounterKeys
<1>8. CASE PutSession(t)
  <2>1. \A a \in Addr : sessionCache'[a] \subseteq
          sessionCache[a] \cup (IF a = addr[t] THEN {session[t]} ELSE {})
    BY <1>8 DEF PutSession, IInv, TypeOK
  <2> QED BY <1>8, <1>t, <1>n, <2>1
          DEF PutSession, Goto, IInv, TypeOK, InCall, FreshIsOwned, managerVars, history,
              CounterKeys
<1>9. CASE SkipCounting(t)
  BY <1>9, <1>t DEF SkipCounting, EndCall, IInv, TypeOK, managerVars, history, CounterKeys
<1>10. CASE UnknownAddress(t)
  BY <1>10, <1>t
  DEF UnknownAddress, EndCall, Counter, IInv, TypeOK, InCall, managerVars, history, CounterKeys
<1>11. CASE LoadCount(t)
  BY <1>11, <1>t DEF LoadCount, Goto, IInv, TypeOK, managerVars, history, CounterKeys
<1>12. CASE StoreCount(t)
  BY <1>12, <1>t, <1>n
  DEF StoreCount, Goto, IInv, TypeOK, InCall, history, CounterKeys
<1>13. CASE CompareCount(t)
  BY <1>13, <1>t, <1>n
  DEF CompareCount, EndCall, Goto, IInv, TypeOK, InCall, managerVars, history, CounterKeys
<1>14. CASE DropSessions(t)
  BY <1>14, <1>t
  DEF DropSessions, Goto, IInv, TypeOK, InCall, managerVars, history, CounterKeys
<1>15. CASE ResetCount(t)
  BY <1>15, <1>t DEF ResetCount, EndCall, IInv, TypeOK, InCall, history, CounterKeys
<1>16. CASE UNCHANGED vars
  BY <1>16 DEF vars, CounterKeys, Counter
<1> HIDE DEF BudgetInv
<1>17. GetNew(t) \/ GetAny(t) => BudgetInv(t)'
  BY <1>2 DEF GetNew, GetAny, Addr
<1>18. Handshake(t) => BudgetInv(t)'
  BY <1>4, <1>5, <1>6, <1>7 DEF Handshake
<1>19. CheckOpCount(t) => BudgetInv(t)'
  BY <1>9, <1>10, <1>11, <1>12, <1>13, <1>14, <1>15 DEF CheckOpCount
<1>20. ThreadNext(t) => BudgetInv(t)'
  BY <1>3, <1>8, <1>17, <1>18, <1>19 DEF ThreadNext
<1> QED BY <1>1, <1>16, <1>20 DEF Next

\* maxOpPerTicket bounds the handshakes of every session whose node is counted,
\* when one thread uses the manager; the run overrun shows that two break it.
THEOREM Budget ==
  ASSUME NEW t, Threads = {t}
  PROVE  Spec => []TicketBudget
<1>1. Init => BudgetInv(t)
  BY InitBudget
<1>2. IInv /\ IInv' /\ BudgetInv(t) /\ [Next]_vars => BudgetInv(t)'
  BY NextBudget
<1>3. BudgetInv(t) => TicketBudget
  BY DEF BudgetInv
<1> QED BY <1>1, <1>2, <1>3, Invariance, PTL DEF Spec

----------------------------------------------------------------------------
(* The manager implements SessionTickets *)

\* No session lives at construction.
LEMMA InitTickets == Init => Tickets!TicketInit
BY DEF Init, Tickets!TicketInit, LiveSessions, Cached

\* Every step of the one thread is a step of SessionTickets or changes nothing
\* of it: a handshake issues a session or serves within the limit, and what
\* leaves the cache is retired.
LEMMA NextTickets ==
  ASSUME NEW t, Threads = {t}, CountPerSession \/ ForeignAddr = {}
  PROVE  IInv /\ BudgetInv(t) /\ [Next]_vars
           => [Tickets!TicketNext]_(Tickets!ticketVars)
<1> SUFFICES ASSUME IInv, BudgetInv(t), [Next]_vars
             PROVE  Tickets!TicketNext \/ UNCHANGED Tickets!ticketVars
  OBVIOUS
<1> USE SessionAssumption, AddrAssumption
<1>live. LiveSessions = Cached \cup (IF pc[t] = "put" THEN {session[t]} ELSE {})
  BY DEF LiveSessions
<1>live2. LiveSessions' = Cached' \cup (IF pc'[t] = "put" THEN {session'[t]} ELSE {})
  BY DEF LiveSessions
<1>same. ASSUME UNCHANGED <<initialized, opCountMax, uses>>, LiveSessions' \subseteq LiveSessions
         PROVE  Tickets!TicketNext
  BY <1>same DEF Tickets!TicketNext, Tickets!Retire
<1>1. CASE InitOpCountMax
  <2>1. LiveSessions = {}
    BY <1>1, <1>live DEF InitOpCountMax, BudgetInv, NothingYet, Cached, IInv, InCall
  <2>2. UNCHANGED LiveSessions
    BY <1>1 DEF InitOpCountMax, threadVars, history, LiveSessions, Cached
  <2> QED BY <1>1, <2>1, <2>2
          DEF InitOpCountMax, Tickets!TicketNext, Tickets!SetLimit, history
<1>2. CASE FullHandshake(t)
  <2>1. PICK s \in Sessions \ (Cached \cup {session[u] : u \in Threads}) :
          /\ session' = [session EXCEPT ![t] = s]
          /\ uses' = [uses EXCEPT ![s] = 1]
    BY <1>2 DEF FullHandshake
  <2>2. /\ LiveSessions = Cached
        /\ LiveSessions' = Cached \cup {s}
    BY <1>2, <2>1, <1>live, <1>live2 DEF FullHandshake, Goto, Cached, IInv, TypeOK
  <2>3. Tickets!Issue(s)
    BY <1>2, <2>1, <2>2 DEF Tickets!Issue, FullHandshake, managerVars
  <2> QED BY <2>1, <2>3 DEF Tickets!TicketNext
<1>3. CASE ResumedHandshake(t)
  <2>1. /\ session[t] \in sessionCache[addr[t]]
        /\ addr[t] \in Addr
        /\ initialized
    BY <1>3 DEF ResumedHandshake, BudgetInv, FoundIsCached, IInv, InCall
  <2>2. session[t] \in Sessions /\ session[t] \in LiveSessions
    BY <2>1, <1>live DEF Cached, IInv, TypeOK
  <2>3. opCountMax > 0 => uses[session[t]] < opCountMax
    <3> SUFFICES ASSUME opCountMax > 0 PROVE uses[session[t]] < opCountMax
      OBVIOUS
    <3>1. Counted(addr[t])
      BY <2>1 DEF Counted, Addr
    <3>2. opCount[Counter(addr[t])] \in Nat
      BY <2>1, <3>1, HasCounter
    <3> QED BY <1>3, <2>1, <2>2, <3>1, <3>2
            DEF ResumedHandshake, BudgetInv, CounterCoversUse, Counting, AfterHandshake,
                IInv, TypeOK
  <2>4. UNCHANGED LiveSessions
    BY <1>3, <1>live, <1>live2 DEF ResumedHandshake, Goto, Cached, IInv, TypeOK
  <2>5. Tickets!Serve(session[t])
    BY <1>3, <2>1, <2>2, <2>3, <2>4 DEF Tickets!Serve, ResumedHandshake, managerVars
  <2> QED BY <2>2, <2>5 DEF Tickets!TicketNext
<1>4. CASE PutSession(t)
  <2>1. Cached' \subseteq Cached \cup {session[t]}
    <3>1. \A a \in Addr : sessionCache'[a] \subseteq sessionCache[a] \cup {session[t]}
      BY <1>4 DEF PutSession, IInv, TypeOK
    <3> QED BY <3>1 DEF Cached
  <2>2. LiveSessions' \subseteq LiveSessions
    BY <1>4, <2>1, <1>live, <1>live2 DEF PutSession, Goto, IInv, TypeOK
  <2> QED BY <1>4, <2>2, <1>same DEF PutSession, managerVars, history
<1>5. CASE DropSessions(t)
  <2>1. Cached' \subseteq Cached
    BY <1>5 DEF DropSessions, Cached, IInv, TypeOK
  <2>2. LiveSessions' \subseteq LiveSessions
    BY <1>5, <2>1, <1>live, <1>live2 DEF DropSessions, Goto, IInv, TypeOK
  <2> QED BY <1>5, <2>2, <1>same DEF DropSessions, managerVars, history
<1>6. ASSUME UNCHANGED <<initialized, opCountMax, sessionCache, uses>>, pc'[t] # "put"
      PROVE  Tickets!TicketNext
  <2>1. LiveSessions' \subseteq LiveSessions
    BY <1>6, <1>live, <1>live2 DEF Cached
  <2> QED BY <1>6, <2>1, <1>same
<1>7. ASSUME NEW a \in Addr, Connect(t, a) PROVE Tickets!TicketNext
  BY <1>7, <1>6 DEF Connect, Goto, IInv, TypeOK, managerVars, history
<1>8. CASE LookupSession(t)
  BY <1>8, <1>6 DEF LookupSession, Goto, IInv, TypeOK, managerVars, history
<1>9. CASE RefusedHandshake(t) \/ FailedHandshake(t)
  BY <1>9, <1>6
  DEF RefusedHandshake, FailedHandshake, EndCall, Goto, IInv, TypeOK, managerVars, history
<1>10. CASE SkipCounting(t) \/ UnknownAddress(t) \/ LoadCount(t)
  BY <1>10, <1>6
  DEF SkipCounting, UnknownAddress, LoadCount, EndCall, Goto, IInv, TypeOK, managerVars, history
<1>11. CASE StoreCount(t) \/ CompareCount(t) \/ ResetCount(t)
  BY <1>11, <1>6
  DEF StoreCount, CompareCount, ResetCount, EndCall, Goto, IInv, TypeOK, managerVars, history
<1>12. CASE UNCHANGED vars
  <2>1. UNCHANGED LiveSessions
    BY <1>12 DEF vars, LiveSessions, Cached
  <2> QED BY <1>12, <2>1, <1>same DEF vars
<1> QED
  BY <1>1, <1>2, <1>3, <1>4, <1>5, <1>7, <1>8, <1>9, <1>10, <1>11, <1>12
  DEF Next, ThreadNext, GetNew, GetAny, Handshake, CheckOpCount, Addr

\* With one thread, and every node counted, the manager is an implementation of
\* SessionTickets.
THEOREM Promise ==
  ASSUME NEW t, Threads = {t}, CountPerSession \/ ForeignAddr = {}
  PROVE  Spec => KeepsTicketPromise
<1>1. Init => BudgetInv(t)
  BY InitBudget
<1>2. IInv /\ IInv' /\ BudgetInv(t) /\ [Next]_vars => BudgetInv(t)'
  BY NextBudget
<1>3. IInv /\ BudgetInv(t) /\ [Next]_vars => [Tickets!TicketNext]_(Tickets!ticketVars)
  BY NextTickets
<1> QED BY <1>1, <1>2, <1>3, InitTickets, Invariance, PTL
        DEF Spec, KeepsTicketPromise, Tickets!TicketSpec
=============================================================================
