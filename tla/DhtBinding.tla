----------------------------- MODULE DhtBinding -----------------------------
(***************************************************************************)
(* The life of a DHT client behind its Java binding:                       *)
(* com_Decent_DhtClientBinding.cpp, EnclaveInitializer.cpp and             *)
(* DhtClientApp.cpp of the enclave's application and of the one without.   *)
(*                                                                         *)
(* init builds a package (a connection pool and an application with its    *)
(* connection manager) and stores the pointer in the object's field cPtr;  *)
(* the operations use the package that cPtr points to; cleanup deletes it. *)
(* The field is not reset and nothing is locked, so that the threads of    *)
(* one object depend on calling in the right order.                        *)
(*                                                                         *)
(* What an operation does with the package is in DhtClient and             *)
(* ConnectionManager.                                                      *)
(***************************************************************************)
EXTENDS Naturals

CONSTANTS
  Threads,
  Bindings,     \* the Java objects
  Packages,     \* DhtClientAppPkg objects on the heap
  Builds,       \* of "enclave" and "plain", the application without one
  InOrder,      \* no object is initialised twice, cleaned up while it is in
                \* use, or used after its cleanup
  NullPtr

ASSUME NullPtrAssumption == NullPtr \notin Packages
ASSUME BuildAssumption == Builds \subseteq {"enclave", "plain"} /\ InOrder \in BOOLEAN

VARIABLES
  build,      \* which application it is, never changed
  library,    \* the shared library: "unloaded", "loaded", or "error"
  cPtr,       \* the field of each object
  inited,     \* the objects whose init was called
  cleaned,    \* the objects whose cleanup was called
  stage,      \* how far each package has come
  inits,      \* how often InitOpCountMax was called for its manager
  pc,         \* what each thread is doing
  obj,        \* the object it was called on
  pkg,        \* the package it works on
  thrown      \* the exception of its last call

packageVars == <<stage, inits>>
threadVars == <<pc, obj, pkg, thrown>>
vars == <<build, library, cPtr, inited, cleaned, stage, inits, pc, obj, pkg, thrown>>

Init ==
  /\ build \in Builds
  /\ library = "unloaded"
  /\ cPtr = [b \in Bindings |-> NullPtr]
  /\ inited = {}
  /\ cleaned = {}
  /\ stage = [p \in Packages |-> "none"]
  /\ inits = [p \in Packages |-> 0]
  /\ pc = [t \in Threads |-> "idle"]
  /\ obj \in [Threads -> Bindings]
  /\ pkg = [t \in Threads |-> NullPtr]
  /\ thrown = [t \in Threads |-> "none"]

----------------------------------------------------------------------------
\* JNI_OnLoad, once and before any other call: it looks up the class and its field
\* and, with an enclave, sends the white list to the Decent server.  If it fails
\* the library is refused.
OnLoad ==
  /\ library = "unloaded"
  /\ library' \in {"loaded", "error"}
  /\ UNCHANGED <<build, cPtr, inited, cleaned, packageVars, threadVars>>

\* The thread calls a method of an object.
Enter(t, b) ==
  /\ library = "loaded"
  /\ pc[t] = "idle"
  /\ obj' = [obj EXCEPT ![t] = b]

Using(b) == {t \in Threads : pc[t] # "idle" /\ obj[t] = b}

Leave(t, exception) ==
  /\ pc' = [pc EXCEPT ![t] = "idle"]
  /\ pkg' = [pkg EXCEPT ![t] = NullPtr]
  /\ thrown' = [thrown EXCEPT ![t] = exception]

----------------------------------------------------------------------------
(* init: GetNewDhtClientAppPkg, then SetLongField *)

\* A new package on the heap, at any address that is free.
NewPackage(t) ==
  /\ \E b \in Bindings :
       /\ InOrder => b \notin inited
       /\ Enter(t, b)
       /\ inited' = inited \cup {b}
  /\ \E p \in {q \in Packages : stage[q] \in {"none", "deleted"}} :
       /\ pkg' = [pkg EXCEPT ![t] = p]
       /\ stage' = [stage EXCEPT ![p] = "empty"]
       /\ inits' = [inits EXCEPT ![p] = 0]
  /\ pc' = [pc EXCEPT ![t] = "app"]
  /\ UNCHANGED <<build, library, cPtr, cleaned, thrown>>

\* A slip of MakeApp: the package is in the field before its application is
\* initialised.
MakeAndPublish(t) ==
  /\ pc[t] = "app"
  /\ stage' = [stage EXCEPT ![pkg[t]] = "made"]
  /\ cPtr' = [cPtr EXCEPT ![obj[t]] = pkg[t]]
  /\ pc' = [pc EXCEPT ![t] = "initApp"]
  /\ UNCHANGED <<build, library, inited, cleaned, inits, obj, pkg, thrown>>

\* Another one: the constructor initialises the application too.
MakeAndInitApp(t) ==
  /\ pc[t] = "app"
  /\ stage' = [stage EXCEPT ![pkg[t]] = "made"]
  /\ inits' = [inits EXCEPT ![pkg[t]] = @ + 1]
  /\ pc' = [pc EXCEPT ![t] = "initApp"]
  /\ UNCHANGED <<build, library, cPtr, inited, cleaned, obj, pkg, thrown>>

\* The connection pool and the application: with an enclave, a connection to the
\* Decent server and an enclave of its own.
MakeApp(t) ==
  /\ pc[t] = "app"
  /\ stage' = [stage EXCEPT ![pkg[t]] = "made"]
  /\ pc' = [pc EXCEPT ![t] = "initApp"]
  /\ UNCHANGED <<build, library, cPtr, inited, cleaned, inits, obj, pkg, thrown>>

\* DhtClientApp::Init: the number of operations per ticket and the addresses go
\* to the connection manager, the TLS configuration to the states.
InitApp(t) ==
  /\ pc[t] = "initApp"
  /\ stage' = [stage EXCEPT ![pkg[t]] = "ready"]
  /\ inits' = [inits EXCEPT ![pkg[t]] = @ + 1]
  /\ pc' = [pc EXCEPT ![t] = "publish"]
  /\ UNCHANGED <<build, library, cPtr, inited, cleaned, obj, pkg, thrown>>

\* SetLongField.  A package that was there before is lost.
Publish(t) ==
  /\ pc[t] = "publish"
  /\ cPtr' = [cPtr EXCEPT ![obj[t]] = pkg[t]]
  /\ Leave(t, "none")
  /\ UNCHANGED <<build, library, inited, cleaned, packageVars, obj>>

\* One of the steps of init raises: the package is lost, the field unchanged.
\* Without an enclave the manager may have been initialised by then.
InitRaises(t) ==
  /\ pc[t] \in {"app", "initApp"}
  /\ inits' \in {inits} \cup
       (IF build = "plain" /\ pc[t] = "initApp" THEN {[inits EXCEPT ![pkg[t]] = @ + 1]} ELSE {})
  /\ stage' = [stage EXCEPT ![pkg[t]] = "lost"]
  /\ Leave(t, "initFailed")
  /\ UNCHANGED <<build, library, cPtr, inited, cleaned, obj>>

----------------------------------------------------------------------------
(* read, insert, update, delete *)

\* The operation raises unless the field points to something.
Operation(t) ==
  /\ \E b \in Bindings :
       /\ InOrder => b \notin cleaned
       /\ Enter(t, b)
       /\ pkg' = [pkg EXCEPT ![t] = cPtr[b]]
       /\ \/ /\ cPtr[b] = NullPtr
             /\ thrown' = [thrown EXCEPT ![t] = "notInitialized"]
             /\ UNCHANGED pc
          \/ /\ cPtr[b] # NullPtr
             /\ pc' = [pc EXCEPT ![t] = "operation"]
             /\ UNCHANGED thrown
  /\ UNCHANGED <<build, library, cPtr, inited, cleaned, packageVars>>

\* It returns, or the application has raised.
OperationEnds(t) ==
  /\ pc[t] = "operation"
  /\ \E exception \in {"none", "failed"} : Leave(t, exception)
  /\ UNCHANGED <<build, library, cPtr, inited, cleaned, packageVars, obj>>

\* A slip of Cleanup: the field is reset and the package forgotten.
CleanupForgets(t) ==
  /\ \E b \in Bindings :
       /\ InOrder => b \in inited /\ b \notin cleaned /\ Using(b) = {}
       /\ Enter(t, b)
       /\ cleaned' = cleaned \cup {b}
       /\ cPtr' = [cPtr EXCEPT ![b] = NullPtr]
  /\ Leave(t, "none")
  /\ UNCHANGED <<build, library, inited, packageVars>>

\* cleanup: the package is deleted; the field keeps its address.
Cleanup(t) ==
  /\ \E b \in Bindings :
       /\ InOrder => b \in inited /\ b \notin cleaned /\ Using(b) = {}
       /\ Enter(t, b)
       /\ cleaned' = cleaned \cup {b}
       /\ stage' = IF cPtr[b] = NullPtr THEN stage
                   ELSE [stage EXCEPT ![cPtr[b]] = "deleted"]
  /\ Leave(t, "none")
  /\ UNCHANGED <<build, library, cPtr, inited, inits>>

----------------------------------------------------------------------------
Next ==
  \/ OnLoad
  \/ \E t \in Threads : \/ NewPackage(t)
                        \/ MakeApp(t)
                        \/ InitApp(t)
                        \/ Publish(t)
                        \/ InitRaises(t)
                        \/ Operation(t)
                        \/ OperationEnds(t)
                        \/ Cleanup(t)

Spec == Init /\ [][Next]_vars
----------------------------------------------------------------------------
\* Where each package, each object and each thread is.
TypeOK ==
  /\ build \in Builds
  /\ library \in {"unloaded", "loaded", "error"}
  /\ cPtr \in [Bindings -> Packages \cup {NullPtr}]
  /\ inited \subseteq Bindings
  /\ cleaned \subseteq Bindings
  /\ stage \in [Packages -> {"none", "empty", "made", "ready", "lost", "deleted"}]
  /\ inits \in [Packages -> 0 .. 1]
  /\ pc \in [Threads -> {"idle", "app", "initApp", "publish", "operation"}]
  /\ obj \in [Threads -> Bindings]
  /\ pkg \in [Threads -> Packages \cup {NullPtr}]
  /\ thrown \in [Threads -> {"none", "failed", "initFailed",
                             "notInitialized"}]

\* An operation works on a package whose connection manager was initialised,
\* once, and that is its object's alone, whatever other threads initialise,
\* clean up and allocate again meanwhile.  (ConnectionManager.h, 33-37: do not
\* initialise after the initialisation phase.)
UsedIsReady ==
  \A t \in Threads : pc[t] = "operation" =>
    /\ stage[pkg[t]] = "ready"
    /\ inits[pkg[t]] = 1
    /\ \A u \in Threads : pkg[u] = pkg[t] => pc[u] = "operation" /\ obj[u] = obj[t]

\* A package that was initialised is held by a thread that will store it or by an
\* object that can still clean it up: only an init that raises loses one.
ReadyIsHeld ==
  \A p \in Packages : stage[p] = "ready" =>
    \/ \E t \in Threads : pc[t] = "publish" /\ pkg[t] = p
    \/ \E b \in Bindings \ cleaned : cPtr[b] = p

\* An operation on an object that has no client raises "Please Initialize first!"
\* (com_Decent_DhtClientBinding.cpp, 113): with one thread, none works on anything
\* but an initialised package.
NeedsClient == \A t \in Threads : pc[t] = "operation" => stage[pkg[t]] = "ready"
=============================================================================
