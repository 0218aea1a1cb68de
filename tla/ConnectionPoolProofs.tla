------------------------ MODULE ConnectionPoolProofs ------------------------
(***************************************************************************)
(* Proofs about DhtBinding and ConnectionPool, for any number of threads,  *)
(* objects, packages, nodes and connections, in either build.              *)
(***************************************************************************)

EXTENDS ConnectionPool, TLAPS

----------------------------------------------------------------------------
(***************************************************************************)
(* The binding, when callers keep to the order.                            *)
(*                                                                         *)
(* UsedIsReady is not inductive: that a package in use is nobody else's    *)
(* needs that an address is in the field of one living object at most, and *)
(* that a package being built is in none.                                  *)
(***************************************************************************)

Initialising == {"app", "initApp", "publish"}

\* The objects that can be used: their field, if set, is good.
Living == Bindings \ cleaned

\* A thread has a package when it is in a call, and when it initialises one, that
\* is as far as the thread is; its object has none yet.
InCall ==
  /\ cleaned \subseteq inited
  /\ \A t \in Threads :
       /\ pc[t] = "idle" <=> pkg[t] = NullPtr
       /\ pc[t] = "app" => stage[pkg[t]] = "empty" /\ inits[pkg[t]] = 0
       /\ pc[t] = "initApp" => stage[pkg[t]] = "made" /\ inits[pkg[t]] = 0
       /\ pc[t] = "publish" => stage[pkg[t]] = "ready" /\ inits[pkg[t]] = 1
       /\ pc[t] \in Initialising =>
            obj[t] \in inited /\ obj[t] \notin cleaned /\ cPtr[obj[t]] = NullPtr
       /\ pc[t] = "operation" => obj[t] \notin cleaned /\ cPtr[obj[t]] = pkg[t]

\* The field of a living object holds an initialised package that is in no other
\* field and not being built.
OwnPackage ==
  /\ \A b \in Bindings : b \notin inited => cPtr[b] = NullPtr
  /\ \A b \in Living : cPtr[b] # NullPtr =>
       /\ stage[cPtr[b]] = "ready" /\ inits[cPtr[b]] = 1
       /\ \A c \in Living : cPtr[c] = cPtr[b] => c = b
       /\ \A t \in Threads : pkg[t] = cPtr[b] => pc[t] = "operation"

\* Nobody builds what another does, or for the same object.
OwnInit ==
  \A t, u \in Threads : pc[t] \in Initialising /\ pc[u] \in Initialising /\ t # u =>
    pkg[t] # pkg[u] /\ obj[t] # obj[u]

IInv == TypeOK /\ InCall /\ OwnPackage /\ OwnInit /\ ReadyIsHeld

----------------------------------------------------------------------------
\* Initially there are no packages.
LEMMA InitIInv == Init => IInv
BY NullPtrAssumption
  DEF Init, IInv, TypeOK, InCall, OwnPackage, OwnInit, ReadyIsHeld, Living, Initialising

\* Loading the library changes no package.
LEMMA OnLoadIInv == IInv /\ OnLoad => IInv'
BY DEF OnLoad, packageVars, threadVars, IInv, TypeOK, InCall, OwnPackage, OwnInit,
  ReadyIsHeld, Living, Initialising

\* A new package is in no field and in no thread's hands, because it was free.
LEMMA NewPackageIInv ==
  ASSUME InOrder, IInv, NEW t \in Threads, NewPackage(t) PROVE IInv'
<1>1. PICK b \in Bindings : b \notin inited /\ Enter(t, b) /\ inited' = inited \cup {b}
  BY DEF NewPackage
<1>2. PICK p \in {q \in Packages : stage[q] \in {"none", "deleted"}} :
        /\ pkg' = [pkg EXCEPT ![t] = p]
        /\ stage' = [stage EXCEPT ![p] = "empty"]
        /\ inits' = [inits EXCEPT ![p] = 0]
  BY DEF NewPackage
<1>3. /\ pc[t] = "idle" /\ pc' = [pc EXCEPT ![t] = "app"]
      /\ obj' = [obj EXCEPT ![t] = b]
      /\ UNCHANGED <<build, library, cPtr, cleaned, thrown>>
  BY <1>1 DEF NewPackage, Enter
<1>4. /\ \A c \in Living : cPtr[c] # p
      /\ \A u \in Threads : pkg[u] # p
  BY <1>2, NullPtrAssumption DEF IInv, TypeOK, InCall, OwnPackage, Living, Initialising
<1>5. TypeOK'
  BY <1>1, <1>2, <1>3 DEF IInv, TypeOK
<1>6. InCall'
  BY <1>1, <1>2, <1>3, <1>4, NullPtrAssumption
    DEF IInv, TypeOK, InCall, OwnPackage, Initialising
<1>7. OwnPackage'
  BY <1>1, <1>2, <1>3, <1>4, NullPtrAssumption
    DEF IInv, TypeOK, InCall, OwnPackage, Living
<1>8. OwnInit'
  BY <1>1, <1>2, <1>3, <1>4 DEF IInv, TypeOK, InCall, OwnInit, Initialising
<1>9. ReadyIsHeld'
  BY <1>1, <1>2, <1>3, <1>4 DEF IInv, TypeOK, InCall, ReadyIsHeld
<1> QED BY <1>5, <1>6, <1>7, <1>8, <1>9 DEF IInv

\* The steps of an init that build its package.
LEMMA BuildIInv ==
  ASSUME IInv, NEW t \in Threads, MakeApp(t) \/ InitApp(t) PROVE IInv'
<1>1. /\ pc[t] \in {"app", "initApp"} /\ pkg[t] \in Packages
      /\ UNCHANGED <<build, library, cPtr, inited, cleaned, obj, pkg, thrown>>
  BY NullPtrAssumption DEF MakeApp, InitApp, IInv, TypeOK, InCall
<1>2. \/ /\ pc[t] = "app" /\ pc' = [pc EXCEPT ![t] = "initApp"]
         /\ stage' = [stage EXCEPT ![pkg[t]] = "made"] /\ inits' = inits
      \/ /\ pc[t] = "initApp" /\ pc' = [pc EXCEPT ![t] = "publish"]
         /\ stage' = [stage EXCEPT ![pkg[t]] = "ready"]
         /\ inits' = [inits EXCEPT ![pkg[t]] = @ + 1] /\ inits[pkg[t]] = 0
  BY DEF MakeApp, InitApp, IInv, InCall
<1>3. /\ \A c \in Living : cPtr[c] # pkg[t]
      /\ \A u \in Threads : u # t => pkg[u] # pkg[t]
  BY <1>1 DEF IInv, TypeOK, InCall, OwnPackage, OwnInit, Living, Initialising
<1>5. TypeOK'
  BY <1>1, <1>2 DEF IInv, TypeOK
<1>6. InCall'
  BY <1>1, <1>2, <1>3 DEF IInv, TypeOK, InCall, Initialising
<1>7. OwnPackage'
  BY <1>1, <1>2, <1>3, NullPtrAssumption DEF IInv, TypeOK, InCall, OwnPackage, Living
<1>8. OwnInit'
  BY <1>1, <1>2 DEF IInv, TypeOK, OwnInit, Initialising
<1>9. ReadyIsHeld'
  BY <1>1, <1>2, <1>3 DEF IInv, TypeOK, InCall, ReadyIsHeld
<1> QED BY <1>5, <1>6, <1>7, <1>8, <1>9 DEF IInv

\* The package goes from the thread to the field.
LEMMA PublishIInv == ASSUME IInv, NEW t \in Threads, Publish(t) PROVE IInv'
<1>1. /\ pc[t] = "publish" /\ pkg[t] \in Packages /\ obj[t] \in Bindings
      /\ cPtr' = [cPtr EXCEPT ![obj[t]] = pkg[t]]
      /\ pc' = [pc EXCEPT ![t] = "idle"]
      /\ pkg' = [pkg EXCEPT ![t] = NullPtr]
      /\ thrown' = [thrown EXCEPT ![t] = "none"]
      /\ UNCHANGED <<build, library, inited, cleaned, stage, inits, obj>>
  BY NullPtrAssumption DEF Publish, Leave, packageVars, IInv, TypeOK, InCall
<1>3. /\ \A c \in Living : cPtr[c] # pkg[t]
      /\ \A u \in Threads : u # t => pkg[u] # pkg[t]
  BY <1>1 DEF IInv, TypeOK, InCall, OwnPackage, OwnInit, Living, Initialising
<1>4. \A u \in Threads : u # t /\ pc[u] # "idle" => obj[u] # obj[t]
  <2> SUFFICES ASSUME NEW u \in Threads, u # t, pc[u] # "idle", obj[u] = obj[t] PROVE FALSE
    OBVIOUS
  <2>1. pc[u] \notin Initialising
    BY <1>1 DEF IInv, OwnInit, Initialising
  <2>2. pc[u] = "operation"
    BY <2>1 DEF IInv, TypeOK, Initialising
  <2> QED BY <1>1, <2>2 DEF IInv, InCall, Initialising
<1>5. TypeOK'
  BY <1>1 DEF IInv, TypeOK
<1>6. InCall'
  BY <1>1, <1>3, <1>4, NullPtrAssumption DEF IInv, TypeOK, InCall, Initialising
<1>7. OwnPackage'
  BY <1>1, <1>3, <1>4, NullPtrAssumption DEF IInv, TypeOK, InCall, OwnPackage, Living, Initialising
<1>8. OwnInit'
  BY <1>1 DEF IInv, TypeOK, OwnInit, Initialising
<1>9. ReadyIsHeld'
  <2> SUFFICES ASSUME NEW p \in Packages, stage[p] = "ready"
               PROVE \/ \E u \in Threads : pc'[u] = "publish" /\ pkg'[u] = p
                     \/ \E b \in Living : cPtr'[b] = p
    BY <1>1 DEF ReadyIsHeld, Living
  <2>1. obj[t] \in Living /\ cPtr[obj[t]] # p
    BY <1>1, NullPtrAssumption DEF IInv, InCall, Initialising, Living
  <2>2. CASE pkg[t] = p
    BY <1>1, <2>1, <2>2 DEF IInv, TypeOK, Living
  <2>3. CASE pkg[t] # p
    BY <1>1, <2>1, <2>3 DEF IInv, TypeOK, Living, ReadyIsHeld
  <2> QED BY <2>2, <2>3
<1> QED BY <1>5, <1>6, <1>7, <1>8, <1>9 DEF IInv

\* The package of an init that fails is in nobody's hands any more.
LEMMA InitRaisesIInv == ASSUME IInv, NEW t \in Threads, InitRaises(t) PROVE IInv'
<1>1. /\ pc[t] \in {"app", "initApp"} /\ pkg[t] \in Packages
      /\ pc' = [pc EXCEPT ![t] = "idle"]
      /\ pkg' = [pkg EXCEPT ![t] = NullPtr]
      /\ thrown' = [thrown EXCEPT ![t] = "initFailed"]
      /\ stage' = [stage EXCEPT ![pkg[t]] = "lost"]
      /\ UNCHANGED <<build, library, cPtr, inited, cleaned, obj>>
  BY NullPtrAssumption DEF InitRaises, Leave, IInv, TypeOK, InCall
<1>2. inits' \in {inits, [inits EXCEPT ![pkg[t]] = 1]}
  BY <1>1 DEF InitRaises, IInv, TypeOK, InCall
<1>3. /\ \A c \in Living : cPtr[c] # pkg[t]
      /\ \A u \in Threads : u # t => pkg[u] # pkg[t]
  BY <1>1 DEF IInv, TypeOK, InCall, OwnPackage, OwnInit, Living, Initialising
<1>5. TypeOK'
  BY <1>1, <1>2 DEF IInv, TypeOK
<1>6. InCall'
  BY <1>1, <1>2, <1>3 DEF IInv, TypeOK, InCall, Initialising
<1>7. OwnPackage'
  BY <1>1, <1>2, <1>3, NullPtrAssumption DEF IInv, TypeOK, InCall, OwnPackage, Living
<1>8. OwnInit'
  BY <1>1 DEF IInv, TypeOK, OwnInit, Initialising
<1>9. ReadyIsHeld'
  BY <1>1, <1>3 DEF IInv, TypeOK, InCall, ReadyIsHeld
<1> QED BY <1>5, <1>6, <1>7, <1>8, <1>9 DEF IInv

\* An operation works on what the field of a living object holds.
LEMMA OperationIInv ==
  ASSUME InOrder, IInv, NEW t \in Threads, Operation(t) \/ OperationEnds(t) PROVE IInv'
<1>1. CASE OperationEnds(t)
  <2>1. PICK exception \in {"none", "failed"} : Leave(t, exception)
    BY <1>1 DEF OperationEnds
  <2> QED
    BY <1>1, <2>1, NullPtrAssumption
      DEF OperationEnds, Leave, packageVars, IInv, TypeOK, InCall, OwnPackage, OwnInit,
          ReadyIsHeld, Living, Initialising
<1>2. CASE Operation(t)
  <2>1. PICK b \in Bindings :
          /\ b \notin cleaned
          /\ Enter(t, b)
          /\ pkg' = [pkg EXCEPT ![t] = cPtr[b]]
          /\ \/ /\ cPtr[b] = NullPtr /\ UNCHANGED pc
                /\ thrown' = [thrown EXCEPT ![t] = "notInitialized"]
             \/ /\ cPtr[b] # NullPtr /\ UNCHANGED thrown
                /\ pc' = [pc EXCEPT ![t] = "operation"]
    BY <1>2 DEF Operation
  <2>2. /\ pc[t] = "idle" /\ obj' = [obj EXCEPT ![t] = b]
        /\ UNCHANGED <<build, library, cPtr, inited, cleaned, stage, inits>>
    BY <1>2, <2>1 DEF Operation, Enter, packageVars
  <2>3. \A u \in Threads : pkg[u] # NullPtr /\ pkg[u] = cPtr[b] => pc[u] = "operation"
    BY <2>1, NullPtrAssumption DEF IInv, TypeOK, OwnPackage, Living
  <2>5. TypeOK'
    BY <2>1, <2>2 DEF IInv, TypeOK
  <2>6. InCall'
    BY <2>1, <2>2, NullPtrAssumption DEF IInv, TypeOK, InCall, Initialising
  <2>7. OwnPackage'
    BY <2>1, <2>2, <2>3, NullPtrAssumption DEF IInv, TypeOK, InCall, OwnPackage, Living
  <2>8. OwnInit'
    BY <2>1, <2>2 DEF IInv, TypeOK, OwnInit, Initialising
  <2>9. ReadyIsHeld'
    BY <2>1, <2>2 DEF IInv, TypeOK, InCall, ReadyIsHeld
  <2> QED BY <2>5, <2>6, <2>7, <2>8, <2>9 DEF IInv
<1> QED BY <1>1, <1>2

\* The deleted package is in no other field, and in no thread's hands.
LEMMA CleanupIInv == ASSUME InOrder, IInv, NEW t \in Threads, Cleanup(t) PROVE IInv'
<1>1. PICK b \in Bindings :
        /\ b \in inited /\ b \notin cleaned /\ Using(b) = {} /\ Enter(t, b)
        /\ cleaned' = cleaned \cup {b}
        /\ stage' = IF cPtr[b] = NullPtr THEN stage
                    ELSE [stage EXCEPT ![cPtr[b]] = "deleted"]
  BY DEF Cleanup
<1>2. /\ pc[t] = "idle" /\ obj' = [obj EXCEPT ![t] = b]
      /\ pc' = pc /\ pkg' = pkg
      /\ thrown' = [thrown EXCEPT ![t] = "none"]
      /\ UNCHANGED <<build, library, cPtr, inited, inits>>
  <2>1. pc[t] = "idle" /\ pkg[t] = NullPtr
    BY <1>1 DEF Enter, IInv, InCall
  <2> QED BY <1>1, <2>1 DEF Cleanup, Leave, Enter, IInv, TypeOK
<1>3. \A u \in Threads : obj[u] = b => pc[u] = "idle"
  BY <1>1 DEF Using
<1>4. cPtr[b] # NullPtr =>
        /\ \A c \in Living : cPtr[c] = cPtr[b] => c = b
        /\ \A u \in Threads : pkg[u] # cPtr[b]
  BY <1>1, <1>3 DEF IInv, TypeOK, InCall, OwnPackage, Living
<1>5. TypeOK'
  BY <1>1, <1>2 DEF IInv, TypeOK
<1>6. InCall'
  BY <1>1, <1>2, <1>3, <1>4 DEF IInv, TypeOK, InCall, Initialising
<1>7. OwnPackage'
  BY <1>1, <1>2, <1>4, NullPtrAssumption DEF IInv, TypeOK, OwnPackage, Living
<1>8. OwnInit'
  BY <1>1, <1>2 DEF IInv, TypeOK, OwnInit, Initialising
<1>9. ReadyIsHeld'
  <2> SUFFICES ASSUME NEW p \in Packages, stage'[p] = "ready"
               PROVE \/ \E u \in Threads : pc[u] = "publish" /\ pkg[u] = p
                     \/ \E c \in Bindings \ cleaned' : cPtr[c] = p
    BY <1>2 DEF ReadyIsHeld
  <2>1. stage[p] = "ready" /\ cPtr[b] # p
    BY <1>1, NullPtrAssumption DEF IInv, TypeOK
  <2> QED BY <1>1, <2>1 DEF IInv, ReadyIsHeld
<1> QED BY <1>5, <1>6, <1>7, <1>8, <1>9 DEF IInv

\* Every step of the binding.
LEMMA NextIInv == InOrder /\ IInv /\ [Next]_vars => IInv'
<1> SUFFICES ASSUME InOrder, IInv, [Next]_vars PROVE IInv'
  OBVIOUS
<1>1. CASE UNCHANGED vars
  BY <1>1 DEF vars, IInv, TypeOK, InCall, OwnPackage, OwnInit, ReadyIsHeld, Living, Initialising
<1>2. CASE OnLoad
  BY <1>2, OnLoadIInv
<1>3. ASSUME NEW t \in Threads, NewPackage(t) PROVE IInv'
  BY <1>3, NewPackageIInv
<1>4. ASSUME NEW t \in Threads, MakeApp(t) \/ InitApp(t) PROVE IInv'
  BY <1>4, BuildIInv
<1>5. ASSUME NEW t \in Threads, Publish(t) PROVE IInv'
  BY <1>5, PublishIInv
<1>6. ASSUME NEW t \in Threads, InitRaises(t) PROVE IInv'
  BY <1>6, InitRaisesIInv
<1>7. ASSUME NEW t \in Threads, Operation(t) \/ OperationEnds(t) PROVE IInv'
  BY <1>7, OperationIInv
<1>8. ASSUME NEW t \in Threads, Cleanup(t) PROVE IInv'
  BY <1>8, CleanupIInv
<1> QED BY <1>1, <1>2, <1>3, <1>4, <1>5, <1>6, <1>7, <1>8 DEF Next

\* A package in use is ready, and its object's alone.
LEMMA IInvUsed == IInv => UsedIsReady
BY NullPtrAssumption
  DEF IInv, TypeOK, InCall, OwnPackage, UsedIsReady, Living, Initialising

\* The invariant, for callers that keep to the order.
LEMMA Inductive == ASSUME InOrder PROVE Spec => []IInv
<1>1. IInv /\ [Next]_vars => IInv'
  BY NextIInv
<1> QED BY <1>1, InitIInv, PTL DEF Spec

----------------------------------------------------------------------------
\* Where each package, object and thread is, when callers keep to the order.
THEOREM TypeCorrect == ASSUME InOrder PROVE Spec => []TypeOK
<1>1. IInv => TypeOK
  BY DEF IInv
<1> QED BY <1>1, Inductive, PTL

\* With callers that keep to the order, an operation works on a package that is
\* initialised once and its object's alone.
THEOREM Used == ASSUME InOrder PROVE Spec => []UsedIsReady
BY Inductive, IInvUsed, PTL

\* With callers that keep to the order, no initialised package is lost.
THEOREM Held == ASSUME InOrder PROVE Spec => []ReadyIsHeld
<1>1. IInv => ReadyIsHeld
  BY DEF IInv
<1> QED BY <1>1, Inductive, PTL

----------------------------------------------------------------------------
(***************************************************************************)
(* The pool.                                                               *)
(*                                                                         *)
(* A step of the pool is one of the binding or none to it, so that what    *)
(* has been shown of packages holds here.  The rest relates how far a      *)
(* request is to what it holds.                                            *)
(***************************************************************************)

\* A request has a connection when one was taken for it, and an address from then on;
\* only operations make requests.
InRequest ==
  \A t \in Threads :
    /\ ask[t] \in {"send", "held"} <=> cnt[t] # NoConn
    /\ ask[t] # "none" => to[t] \in Addrs
    /\ pc[t] # "operation" => ask[t] = "none" /\ round[t] = "over"

PoolInv == PoolTypeOK /\ InRequest /\ RightPlace /\ OnePlace

----------------------------------------------------------------------------
\* Initially nothing is open.
LEMMA PoolInitInv == PoolInit => IInv /\ PoolInv
<1> SUFFICES ASSUME PoolInit PROVE IInv /\ PoolInv
  OBVIOUS
<1>1. IInv
  BY InitIInv DEF PoolInit
<1>2. PoolTypeOK
  BY <1>1 DEF PoolInit, PoolTypeOK, IInv, Closed
<1>3. InRequest /\ RightPlace /\ OnePlace
  BY DEF PoolInit, Init, InRequest, RightPlace, OnePlace
<1> QED BY <1>1, <1>2, <1>3 DEF PoolInv

\* Every step of the pool is one of the binding, or none to it.
LEMMA PoolNextIsNext == [PoolNext]_allVars => [Next]_vars
BY DEF PoolNext, allVars, Next, Begin, End, Close, GetAnyDhtNode, GetDhtNode, Get,
  SendCategory, SendFails, ReceiveNull, Release

\* The steps of the binding that the pool does not notice leave a package that is
\* ready as it is, and no thread in an operation comes or goes.
LEMMA BindingPoolInv ==
  ASSUME IInv, IInv', PoolInv, UNCHANGED poolVars,
         \/ OnLoad
         \/ \E t \in Threads : \/ NewPackage(t) \/ MakeApp(t) \/ InitApp(t)
                               \/ Publish(t) \/ InitRaises(t)
  PROVE PoolInv'
<1>1. \A p \in Packages : stage[p] = "ready" => stage'[p] = "ready"
  <2>1. CASE OnLoad
    BY <2>1 DEF OnLoad, packageVars
  <2>2. ASSUME NEW t \in Threads, NewPackage(t)
        PROVE \A p \in Packages : stage[p] = "ready" => stage'[p] = "ready"
    BY <2>2 DEF NewPackage, IInv, TypeOK
  <2>3. ASSUME NEW t \in Threads, MakeApp(t) \/ InitApp(t) \/ Publish(t) \/ InitRaises(t)
        PROVE \A p \in Packages : stage[p] = "ready" => stage'[p] = "ready"
    BY <2>3 DEF MakeApp, InitApp, Publish, InitRaises, packageVars, IInv, TypeOK, InCall
  <2> QED BY <2>1, <2>2, <2>3
<1>2. \A t \in Threads : /\ pc'[t] = "operation" <=> pc[t] = "operation"
                         /\ pc[t] = "operation" => pkg'[t] = pkg[t]
  <2>1. CASE OnLoad
    BY <2>1 DEF OnLoad, threadVars
  <2>2. ASSUME NEW u \in Threads,
               NewPackage(u) \/ MakeApp(u) \/ InitApp(u) \/ Publish(u) \/ InitRaises(u)
        PROVE \A t \in Threads : /\ pc'[t] = "operation" <=> pc[t] = "operation"
                                 /\ pc[t] = "operation" => pkg'[t] = pkg[t]
    BY <2>2 DEF NewPackage, MakeApp, InitApp, Publish, InitRaises, Enter, Leave, IInv, TypeOK
  <2> QED BY <2>1, <2>2
<1> USE DEF poolVars, callVars, connVars, PoolInv
<1>3. PoolTypeOK'
  BY DEF PoolTypeOK, IInv
<1>4. InRequest'
  BY <1>2 DEF InRequest
<1>5. RightPlace'
  BY <1>2 DEF RightPlace, InRequest
<1>6. OnePlace'
  BY <1>1 DEF OnePlace, PoolTypeOK, Closed
<1> QED BY <1>3, <1>4, <1>5, <1>6

\* An operation begins and ends with nothing in its hands.
LEMMA OperationPoolInv ==
  ASSUME IInv, IInv', PoolInv, NEW t \in Threads, Begin(t) \/ End(t) PROVE PoolInv'
<1>1. /\ ask[t] = "none" /\ UNCHANGED <<build, stage, ask, to, cnt, connVars, lastAddr, crashed>>
      /\ \A u \in Threads : u # t => pc'[u] = pc[u] /\ pkg'[u] = pkg[u]
  BY DEF Begin, End, Operation, OperationEnds, Enter, Leave, packageVars, IInv, TypeOK,
    PoolInv, InRequest
<1>2. round' \in [Threads -> {"any", "node", "over"}]
      /\ (pc'[t] # "operation" => round'[t] = "over")
      /\ \A u \in Threads : u # t => round'[u] = round[u]
  <2>1. CASE Begin(t)
    <3>1. round' = [round EXCEPT ![t] = IF pc'[t] = "operation" THEN "any" ELSE "over"]
      BY <2>1 DEF Begin
    <3> QED BY <3>1 DEF PoolInv, PoolTypeOK
  <2>2. CASE End(t)
    <3>1. round' = [round EXCEPT ![t] = "over"]
      BY <2>2 DEF End
    <3> QED BY <3>1 DEF PoolInv, PoolTypeOK
  <2> QED BY <2>1, <2>2
<1> USE DEF connVars, PoolInv
<1>3. PoolTypeOK'
  BY <1>1, <1>2 DEF PoolTypeOK, IInv
<1>4. InRequest'
  BY <1>1, <1>2 DEF InRequest
<1>5. RightPlace'
  BY <1>1 DEF RightPlace, InRequest
<1>6. OnePlace'
  BY <1>1 DEF OnePlace
<1> QED BY <1>3, <1>4, <1>5, <1>6

\* A pool that closes has no connection with an operation, since the package of each
\* of them is ready after the step as well.
LEMMA ClosePoolInv ==
  ASSUME IInv, IInv', PoolInv, NEW t \in Threads, Close(t) PROVE PoolInv'
<1> DEFINE gone == {p \in Packages : stage[p] # "deleted" /\ stage'[p] = "deleted"}
<1>1. /\ idle' = [p \in Packages |-> IF p \in gone THEN [a \in Addrs |-> {}] ELSE idle[p]]
      /\ home' = [c \in Conns |-> IF home[c][1] \in gone THEN Closed ELSE home[c]]
      /\ UNCHANGED <<build, lastAddr, crashed, round, ask, to, cnt>>
  BY DEF Close, Cleanup, callVars
<1>2. /\ \A p \in Packages \ gone : stage[p] = "ready" => stage'[p] = "ready"
      /\ pc' = pc /\ pkg' = pkg
  BY DEF Close, Cleanup, Enter, Leave, IInv, TypeOK, InCall
<1>3. \A u \in Threads : cnt[u] # NoConn => pkg[u] \notin gone
  <2> SUFFICES ASSUME NEW u \in Threads, cnt[u] # NoConn PROVE stage'[pkg[u]] = "ready"
    OBVIOUS
  <2>1. pc[u] = "operation"
    BY DEF PoolInv, InRequest
  <2>2. UsedIsReady'
    BY IInvUsed, PTL
  <2> QED BY <1>2, <2>1, <2>2 DEF UsedIsReady
<1> HIDE DEF gone
<1> USE DEF PoolInv
<1>4. PoolTypeOK'
  BY <1>1 DEF PoolTypeOK, IInv
<1>5. InRequest'
  BY <1>1, <1>2 DEF InRequest
<1>6. RightPlace'
  <2>1. \A u \in Threads : cnt[u] # NoConn => home'[cnt[u]] = <<pkg[u], to[u]>>
    BY <1>1, <1>3 DEF RightPlace, PoolTypeOK
  <2>2. \A p \in Packages, a \in Addrs : \A c \in idle'[p][a] :
          p \notin gone /\ c \in idle[p][a] /\ c \in Conns
    BY <1>1 DEF PoolTypeOK
  <2>3. \A p \in Packages, a \in Addrs : \A c \in idle'[p][a] : home'[c] = <<p, a>>
    BY <1>1, <2>2 DEF RightPlace
  <2> QED BY <1>1, <1>2, <2>1, <2>3 DEF RightPlace
<1>7. OnePlace'
  <2>1. \A c \in Conns : home'[c] # Closed =>
          home'[c] = home[c] /\ home[c] # Closed /\ home[c][1] \in Packages \ gone
    BY <1>1 DEF PoolTypeOK, Closed
  <2>2. \A c \in Conns : home'[c] # Closed => idle'[home[c][1]] = idle[home[c][1]]
    BY <1>1, <2>1
  <2> QED BY SMTT(30), <1>1, <1>2, <2>1, <2>2 DEF OnePlace
<1> QED BY <1>4, <1>5, <1>6, <1>7

\* What an operation has in its hands is open, with nobody else and not idle.
LEMMA HeldIsNotIdle ==
  ASSUME IInv, PoolInv, NEW t \in Threads, cnt[t] # NoConn
  PROVE  /\ pc[t] = "operation" /\ pkg[t] \in Packages /\ to[t] \in Addrs
         /\ cnt[t] \in Conns /\ home[cnt[t]] = <<pkg[t], to[t]>> /\ home[cnt[t]] # Closed
         /\ \A u \in Threads : u # t => cnt[u] # cnt[t]
         /\ \A p \in Packages, a \in Addrs : cnt[t] \notin idle[p][a]
<1> USE DEF PoolInv
<1>1. /\ pc[t] = "operation" /\ to[t] \in Addrs /\ cnt[t] \in Conns
      /\ home[cnt[t]] = <<pkg[t], to[t]>>
  BY DEF InRequest, RightPlace, PoolTypeOK
<1>2. pkg[t] \in Packages
  BY <1>1 DEF IInv, TypeOK, InCall
<1>3. home[cnt[t]] # Closed /\ home[cnt[t]][1] = pkg[t]
  BY <1>1, AddrAssumption DEF Closed
<1>4. \A a \in Addrs : cnt[t] \notin idle[pkg[t]][a]
  BY <1>1, <1>3 DEF OnePlace
<1>5. \A p \in Packages, a \in Addrs : cnt[t] \in idle[p][a] => p = pkg[t]
  BY <1>1 DEF RightPlace
<1>6. \A u \in Threads : u # t => cnt[u] # cnt[t]
  BY DEF OnePlace
<1> QED BY <1>1, <1>2, <1>3, <1>4, <1>5, <1>6

\* A request for a connection takes an idle one, opens a new one, or has none.
LEMMA GetPoolInv ==
  ASSUME IInv, PoolInv, NEW t \in Threads, NEW a \in Addrs,
         ask[t] = "none", round[t] # "over", Get(t, a), to' = [to EXCEPT ![t] = a]
  PROVE PoolInv'
<1>1. /\ pc[t] = "operation" /\ pkg[t] \in Packages /\ stage[pkg[t]] = "ready"
      /\ cnt[t] = NoConn
  BY IInvUsed DEF PoolInv, InRequest, UsedIsReady, IInv, TypeOK, InCall
<1>2. UNCHANGED <<vars, lastAddr, crashed, round>>
  BY DEF Get
<1>3. IInv'
  BY <1>2, NextIInv, OrderAssumption
<1> USE DEF PoolInv
<1>4. CASE TakeIdle(t, a)
  <2>1. PICK c \in idle[pkg[t]][a] :
          /\ cnt' = [cnt EXCEPT ![t] = c]
          /\ idle' = [idle EXCEPT ![pkg[t]][a] = @ \ {c}]
          /\ ask' = [ask EXCEPT ![t] = "send"] /\ home' = home
    BY <1>4 DEF TakeIdle, Goto
  <2>2. c \in Conns /\ home[c] = <<pkg[t], a>> /\ \A u \in Threads : cnt[u] # c
    <3>1. c \in Conns /\ home[c] = <<pkg[t], a>>
      BY <1>1, <2>1 DEF PoolTypeOK, RightPlace
    <3>2. home[c] # Closed /\ home[c][1] = pkg[t]
      BY <1>1, <3>1, NullPtrAssumption DEF Closed
    <3>3. \E b \in Addrs : c \in idle[home[c][1]][b]
      BY <2>1, <3>2
    <3> QED BY <3>1, <3>2, <3>3 DEF OnePlace
  <2>3. PoolTypeOK'
    BY <1>1, <1>2, <1>3, <2>1, <2>2 DEF PoolTypeOK, IInv
  <2>4. InRequest' /\ RightPlace'
    BY <1>1, <1>2, <2>1, <2>2, ConnAssumption DEF InRequest, RightPlace, PoolTypeOK, vars
  <2>5. \A d \in Conns, p \in Packages, b \in Addrs :
          d \in idle'[p][b] <=> d \in idle[p][b] /\ d # c
    BY <1>1, <2>1, <2>2 DEF PoolTypeOK, RightPlace
  <2>6. OnePlace'
    <3>1. \A u, v \in Threads : u # v /\ cnt'[u] # NoConn => cnt'[u] # cnt'[v]
      BY <2>1, <2>2, <1>1 DEF OnePlace, PoolTypeOK
    <3>2. ASSUME NEW d \in Conns, home[d] # Closed
          PROVE (\E u \in Threads : cnt'[u] = d) # (\E b \in Addrs : d \in idle'[home[d][1]][b])
      <4>1. home[d][1] \in Packages
        BY <3>2 DEF PoolTypeOK
      <4>2. CASE d = c
        BY <4>1, <4>2, <2>1, <2>5 DEF PoolTypeOK
      <4>3. CASE d # c
        <5>1. \A u \in Threads : cnt'[u] = d <=> cnt[u] = d
          BY <4>3, <2>1, <1>1, ConnAssumption DEF PoolTypeOK
        <5>2. \A b \in Addrs : d \in idle'[home[d][1]][b] <=> d \in idle[home[d][1]][b]
          BY <4>1, <4>3, <2>5
        <5> QED BY <5>1, <5>2, <3>2 DEF OnePlace
      <4> QED BY <4>2, <4>3
    <3> QED BY <1>2, <2>1, <3>1, <3>2 DEF OnePlace, vars
  <2> QED BY <2>3, <2>4, <2>6
<1>5. CASE GetNew(t, a)
  <2>1. PICK c \in Conns :
          /\ home[c] = Closed
          /\ cnt' = [cnt EXCEPT ![t] = c]
          /\ home' = [home EXCEPT ![c] = <<pkg[t], a>>]
          /\ ask' = [ask EXCEPT ![t] = "send"] /\ idle' = idle
    BY <1>5 DEF GetNew, Goto
  <2>2. /\ \A u \in Threads : cnt[u] # c
        /\ \A p \in Packages, b \in Addrs : c \notin idle[p][b]
    <3>1. ASSUME NEW u \in Threads, cnt[u] = c PROVE FALSE
      <4>1. home[c] = <<pkg[u], to[u]>> /\ to[u] \in Addrs
        BY <2>1, <3>1, ConnAssumption DEF RightPlace, InRequest
      <4> QED BY <2>1, <4>1, AddrAssumption DEF Closed
    <3>2. ASSUME NEW p \in Packages, NEW b \in Addrs, c \in idle[p][b] PROVE FALSE
      <4>1. home[c] = <<p, b>>
        BY <3>2 DEF RightPlace
      <4> QED BY <2>1, <4>1, AddrAssumption DEF Closed
    <3> QED BY <3>1, <3>2
  <2>3. PoolTypeOK'
    BY <1>1, <1>2, <1>3, <2>1 DEF PoolTypeOK, IInv
  <2>4. InRequest' /\ RightPlace'
    BY <1>1, <1>2, <2>1, <2>2, ConnAssumption DEF InRequest, RightPlace, PoolTypeOK, vars
  <2>6. OnePlace'
    <3>1. \A u, v \in Threads : u # v /\ cnt'[u] # NoConn => cnt'[u] # cnt'[v]
      BY <2>1, <2>2, <1>1 DEF OnePlace, PoolTypeOK
    <3>2. ASSUME NEW d \in Conns, home'[d] # Closed
          PROVE /\ stage[home'[d][1]] = "ready"
                /\ (\E u \in Threads : cnt'[u] = d) # (\E b \in Addrs : d \in idle[home'[d][1]][b])
      <4>2. CASE d = c
        BY <4>2, <2>1, <2>2, <1>1 DEF PoolTypeOK
      <4>3. CASE d # c
        BY <4>3, <2>1, <1>1, <3>2, ConnAssumption DEF PoolTypeOK, OnePlace
      <4> QED BY <4>2, <4>3
    <3> QED BY <1>2, <2>1, <3>1, <3>2 DEF OnePlace, vars
  <2> QED BY <2>3, <2>4, <2>6
<1>6. CASE ConnectFails(t, a)
  <2>1. ask' = [ask EXCEPT ![t] = "null"] /\ UNCHANGED <<cnt, idle, home>>
    BY <1>6 DEF ConnectFails, Goto, connVars
  <2>2. PoolTypeOK'
    BY <1>1, <1>2, <1>3, <2>1 DEF PoolTypeOK, IInv
  <2>3. InRequest' /\ RightPlace' /\ OnePlace'
    BY <1>1, <1>2, <2>1 DEF InRequest, RightPlace, OnePlace, PoolTypeOK, vars
  <2> QED BY <2>2, <2>3
<1> QED BY <1>4, <1>5, <1>6 DEF Get

\* Either call out of the enclave makes such a request, or reads beyond an empty list.
LEMMA AskPoolInv ==
  ASSUME IInv, PoolInv, NEW t \in Threads, GetAnyDhtNode(t) \/ GetDhtNode(t)
  PROVE PoolInv'
<1>1. ask[t] = "none" /\ round[t] # "over"
  BY DEF GetAnyDhtNode, GetDhtNode
<1>2. CASE \E a \in Addrs : Get(t, a) /\ to' = [to EXCEPT ![t] = a]
  BY <1>1, <1>2, GetPoolInv
<1>3. CASE /\ KnownNodeAddr = {} /\ crashed' = TRUE
           /\ UNCHANGED <<vars, lastAddr, callVars, connVars>>
  <2>1. TypeOK'
    BY <1>3, NextIInv, OrderAssumption DEF IInv
  <2> QED
    BY <1>3, <2>1 DEF vars, callVars, connVars, PoolInv, PoolTypeOK, InRequest,
      RightPlace, OnePlace
<1> QED BY <1>2, <1>3 DEF GetAnyDhtNode, GetDhtNode, KnownNodeAddr

\* Between the request and the release the connection stays where it is, unless the
\* category cannot be sent.
LEMMA SendPoolInv ==
  ASSUME IInv, IInv', PoolInv, NEW t \in Threads,
         SendCategory(t) \/ SendFails(t) \/ ReceiveNull(t)
  PROVE PoolInv'
<1> USE DEF PoolInv
<1>1. UNCHANGED vars
  BY DEF SendCategory, SendFails, ReceiveNull
<1>2. TypeOK'
  BY DEF IInv
<1>3. CASE SendCategory(t)
  BY SMTT(30), <1>1, <1>2, <1>3 DEF SendCategory, Goto, vars, connVars, PoolTypeOK, InRequest,
    RightPlace, OnePlace
<1>4. CASE ReceiveNull(t)
  <2>1. PoolTypeOK'
    BY <1>1, <1>2, <1>4 DEF ReceiveNull, Goto, vars, connVars, PoolTypeOK
  <2>2. InRequest'
    BY <1>1, <1>4 DEF ReceiveNull, Goto, vars, PoolTypeOK, InRequest
  <2>3. RightPlace' /\ OnePlace'
    BY <1>1, <1>4 DEF ReceiveNull, vars, connVars, PoolTypeOK, InRequest, RightPlace, OnePlace
  <2> QED BY <2>1, <2>2, <2>3
<1>5. CASE SendFails(t)
  <2>1. /\ ask[t] = "send" /\ ask' = [ask EXCEPT ![t] = "null"]
        /\ cnt' = [cnt EXCEPT ![t] = NoConn]
        /\ home' = [home EXCEPT ![cnt[t]] = Closed]
        /\ UNCHANGED <<lastAddr, crashed, round, to, idle>>
    BY <1>5 DEF SendFails, Goto
  <2>2. PoolTypeOK' /\ InRequest'
    BY <1>1, <1>2, <2>1 DEF vars, PoolTypeOK, InRequest
  <2>3. LET c == cnt[t] IN
          /\ c \in Conns /\ home[c] # Closed
          /\ \A u \in Threads : u # t => cnt[u] # c
          /\ \A p \in Packages, a \in Addrs : c \notin idle[p][a]
    BY <2>1, HeldIsNotIdle DEF InRequest
  <2>4. RightPlace'
    BY <1>1, <2>1, <2>3 DEF vars, RightPlace, PoolTypeOK
  <2>5. OnePlace'
    <3>1. \A u, v \in Threads : u # v /\ cnt'[u] # NoConn => cnt'[u] # cnt'[v]
      BY <2>1 DEF OnePlace, PoolTypeOK
    <3>2. ASSUME NEW d \in Conns, home'[d] # Closed
          PROVE /\ stage[home'[d][1]] = "ready"
                /\ (\E u \in Threads : cnt'[u] = d) # (\E b \in Addrs : d \in idle[home'[d][1]][b])
      <4>1. d # cnt[t] /\ home'[d] = home[d]
        BY <2>1, <2>3, <3>2 DEF PoolTypeOK
      <4>2. \A u \in Threads : cnt'[u] = d <=> cnt[u] = d
        BY <2>1, <4>1, ConnAssumption DEF PoolTypeOK
      <4> QED BY <3>2, <4>1, <4>2 DEF OnePlace
    <3> QED BY <1>1, <2>1, <3>1, <3>2 DEF vars, OnePlace
  <2> QED BY <2>2, <2>4, <2>5
<1> QED BY <1>3, <1>4, <1>5

\* The connection goes back to the pool it came from, or is closed.
LEMMA ReleasePoolInv ==
  ASSUME IInv, IInv', PoolInv, NEW t \in Threads, Release(t) PROVE PoolInv'
<1> DEFINE c == cnt[t]
<1> USE DEF PoolInv
<1>1. /\ ask[t] = "held" /\ ask' = [ask EXCEPT ![t] = "none"]
      /\ cnt' = [cnt EXCEPT ![t] = NoConn]
      /\ to' = [to EXCEPT ![t] = NoAddr]
      /\ UNCHANGED <<vars, lastAddr, crashed>>
  BY DEF Release, Goto
<1>2. /\ pc[t] = "operation" /\ pkg[t] \in Packages /\ to[t] \in Addrs
      /\ c \in Conns /\ home[c] = <<pkg[t], to[t]>> /\ home[c] # Closed
      /\ \A u \in Threads : u # t => cnt[u] # c
      /\ \A p \in Packages, a \in Addrs : c \notin idle[p][a]
  BY <1>1, HeldIsNotIdle DEF InRequest
<1> HIDE DEF c
<1>3. /\ round' \in [Threads -> {"any", "node", "over"}]
      /\ \A u \in Threads : u # t => round'[u] = round[u]
  BY DEF Release, PoolTypeOK
<1>4. \/ /\ idle' = [idle EXCEPT ![pkg[t]][to[t]] = @ \cup {c}] /\ home' = home
      \/ /\ home' = [home EXCEPT ![c] = Closed] /\ idle' = idle
  BY DEF Release, c
<1>5. PoolTypeOK'
  <2>1. home' \in [Conns -> (Packages \X Addrs) \cup {Closed}]
    BY <1>2, <1>4 DEF PoolTypeOK
  <2>2. idle' \in [Packages -> [Addrs -> SUBSET Conns]]
    <3>1. idle[pkg[t]][to[t]] \cup {c} \in SUBSET Conns
      BY <1>2 DEF PoolTypeOK
    <3>2. [idle[pkg[t]] EXCEPT ![to[t]] = @ \cup {c}] \in [Addrs -> SUBSET Conns]
      BY <1>2, <3>1 DEF PoolTypeOK
    <3>3. CASE idle' = [idle EXCEPT ![pkg[t]][to[t]] = @ \cup {c}]
      BY <1>2, <3>2, <3>3 DEF PoolTypeOK
    <3> QED BY <1>4, <3>3 DEF PoolTypeOK
  <2>3. /\ ask' \in [Threads -> {"none", "send", "null", "held"}]
        /\ to' \in [Threads -> Addrs \cup {NoAddr}]
        /\ cnt' \in [Threads -> Conns \cup {NoConn}]
    BY <1>1 DEF PoolTypeOK
  <2> QED BY <1>1, <1>3, <2>1, <2>2, <2>3 DEF PoolTypeOK, IInv
<1>6. InRequest'
  BY <1>1, <1>2, <1>3 DEF vars, InRequest, PoolTypeOK
<1>7. \A d \in Conns, p \in Packages, b \in Addrs :
        d # c => (d \in idle'[p][b] <=> d \in idle[p][b]) /\ home'[d] = home[d]
  BY <1>2, <1>4 DEF PoolTypeOK
<1>8. RightPlace'
  <2>1. \A u \in Threads : cnt'[u] # NoConn => home'[cnt'[u]] = <<pkg'[u], to'[u]>>
    BY <1>1, <1>2, <1>4 DEF vars, RightPlace, PoolTypeOK
  <2>3. \A p \in Packages, b \in Addrs : idle'[p][b] \subseteq Conns
    BY <1>5 DEF PoolTypeOK
  <2>2. ASSUME NEW p \in Packages, NEW b \in Addrs, NEW d \in idle'[p][b]
        PROVE home'[d] = <<p, b>>
    <3>1. CASE d = c
      BY <3>1, <1>2, <1>4 DEF PoolTypeOK
    <3>2. CASE d # c
      BY <3>2, <1>2, <1>4, <2>3, <1>7 DEF RightPlace
    <3> QED BY <3>1, <3>2
  <2> QED BY <2>1, <2>2 DEF RightPlace
<1>9. OnePlace'
  <2>1. \A u, v \in Threads : u # v /\ cnt'[u] # NoConn => cnt'[u] # cnt'[v]
    BY <1>1 DEF OnePlace, PoolTypeOK
  <2>2. ASSUME NEW d \in Conns, home'[d] # Closed
        PROVE /\ stage[home'[d][1]] = "ready"
              /\ (\E u \in Threads : cnt'[u] = d) # (\E b \in Addrs : d \in idle'[home'[d][1]][b])
    <3>1. CASE d # c
      <4>1. home'[d] = home[d] /\ home[d][1] \in Packages
        BY <2>2, <3>1, <1>7, <1>2 DEF PoolTypeOK
      <4>2. \A u \in Threads : cnt'[u] = d <=> cnt[u] = d
        BY <1>1, <3>1, ConnAssumption DEF PoolTypeOK, c
      <4>3. \A b \in Addrs : d \in idle'[home[d][1]][b] <=> d \in idle[home[d][1]][b]
        BY <1>7, <3>1, <4>1
      <4> QED BY <2>2, <4>1, <4>2, <4>3 DEF OnePlace
    <3>2. CASE d = c
      <4>1. home'[c] = <<pkg[t], to[t]>> /\ c \in idle'[pkg[t]][to[t]]
        BY <1>2, <1>4, <2>2, <3>2 DEF PoolTypeOK
      <4>2. \A u \in Threads : cnt'[u] # c
        BY <1>1, <1>2, ConnAssumption DEF PoolTypeOK
      <4>3. stage[pkg[t]] = "ready"
        BY <1>2, IInvUsed DEF UsedIsReady
      <4> QED BY <1>2, <3>2, <4>1, <4>2, <4>3
    <3> QED BY <3>1, <3>2
  <2> QED BY <1>1, <2>1, <2>2 DEF OnePlace, vars
<1> QED BY <1>5, <1>6, <1>8, <1>9

\* Every step of the composition.
LEMMA PoolNextInv == IInv /\ PoolInv /\ [PoolNext]_allVars => IInv' /\ PoolInv'
<1> SUFFICES ASSUME IInv, PoolInv, [PoolNext]_allVars PROVE IInv' /\ PoolInv'
  OBVIOUS
<1>1. IInv'
  BY PoolNextIsNext, NextIInv, OrderAssumption
<1>2. CASE UNCHANGED allVars
  <2>1. PoolTypeOK'
    BY <1>1, <1>2 DEF allVars, poolVars, callVars, connVars, PoolInv, PoolTypeOK, IInv
  <2> QED
    BY <1>1, <1>2, <2>1 DEF allVars, poolVars, callVars, connVars, vars, PoolInv, InRequest,
      RightPlace, OnePlace
<1>3. CASE /\ UNCHANGED poolVars
           /\ \/ OnLoad
              \/ \E t \in Threads : \/ NewPackage(t) \/ MakeApp(t) \/ InitApp(t)
                                    \/ Publish(t) \/ InitRaises(t)
  BY <1>1, <1>3, BindingPoolInv
<1>4. ASSUME NEW t \in Threads, Begin(t) \/ End(t) PROVE PoolInv'
  BY <1>1, <1>4, OperationPoolInv
<1>5. ASSUME NEW t \in Threads, Close(t) PROVE PoolInv'
  BY <1>1, <1>5, ClosePoolInv
<1>6. ASSUME NEW t \in Threads, GetAnyDhtNode(t) \/ GetDhtNode(t) PROVE PoolInv'
  BY <1>6, AskPoolInv
<1>7. ASSUME NEW t \in Threads, SendCategory(t) \/ SendFails(t) \/ ReceiveNull(t)
      PROVE PoolInv'
  BY <1>1, <1>7, SendPoolInv
<1>8. ASSUME NEW t \in Threads, Release(t) PROVE PoolInv'
  BY <1>1, <1>8, ReleasePoolInv
<1> QED BY <1>1, <1>2, <1>3, <1>4, <1>5, <1>6, <1>7, <1>8 DEF PoolNext

\* The invariants of the composition.
LEMMA PoolInductive == PoolSpec => [](IInv /\ PoolInv)
BY PoolInitInv, PoolNextInv, PTL DEF PoolSpec

----------------------------------------------------------------------------
\* Where each operation and each connection is.
THEOREM PoolTypeCorrect == PoolSpec => []PoolTypeOK
<1>1. PoolInv => PoolTypeOK
  BY DEF PoolInv
<1> QED BY <1>1, PoolInductive, PTL

\* A client with its pool is a client: the composition implements the binding.
THEOREM PoolRefinement == PoolSpec => Spec
<1>1. PoolInit => Init
  BY DEF PoolInit
<1> QED BY <1>1, PoolNextIsNext, PTL DEF PoolSpec, Spec

\* A connection leads where its user is told, and goes back to where it came from.
THEOREM Places == PoolSpec => []RightPlace
<1>1. PoolInv => RightPlace
  BY DEF PoolInv
<1> QED BY <1>1, PoolInductive, PTL

\* No connection is shared by two operations, and none is left open.
THEOREM NothingLeaks == PoolSpec => []OnePlace
<1>1. PoolInv => OnePlace
  BY DEF PoolInv
<1> QED BY <1>1, PoolInductive, PTL
=============================================================================
