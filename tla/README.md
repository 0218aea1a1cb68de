# A TLA+ model of DecentTester

DecentTester benchmarks the Decent DHT. Its C++ part is a DHT client that runs inside an SGX enclave (or without one) and is
called by the YCSB benchmark through a Java binding. Its Python part starts the nodes and the benchmarks on several machines
in step with each other, and makes tables of what the benchmarks have written. The DHT itself, the Decent API, TLS and YCSB
are other projects: here they are modelled by how this code uses them, and marked `external` in `PROJECT.json`.

Paths below are relative to `src/`.

## 1. The system

| Component | State it keeps | Operations | Module |
|---|---|---|---|
| Connection manager, `sources/Common_Enclave/DhtClient/ConnectionManager.cpp` | the cache of TLS sessions, a counter of handshakes per node (or one for all), the limit | `InitOpCountMax`, `GetNew`, `GetAny`, `CheckOpCount` | `ConnectionManager`, `SessionTickets`, `ConnectionManagerProofs` |
| DHT client, `.../DhtClient/DhtClient.cpp`, and the entry points `EnclaveMain.cpp` | the cache of attribute lists (`States.h`) | look up the successor, read, insert, update, delete, insert an attribute list | `DhtClient`, `KeyValueStore`, `DhtClientProofs` |
| Access policies, `.../DhtClient/AccessCtrl/` | none: values | build, size, serialise, parse, examine, related attributes | `AccessPolicy`, `Collections`, `AccessCtrlProofs` |
| Lists of attributes and of enclaves, `AccessCtrl/AbAttributeList.*`, `EntityList.*`, `ItemBase.*` | ordered sets | insert, merge, subtract, search, swap, assign, serialise, parse | `AttributeLists`, `AccessCtrlProofs` |
| Java binding and application, `sources/DhtClientYcsb_App/`, `sources/DhtClientNonEnclaveYcsb_App/` | the pointer in the Java object, the packages on the heap | load, init, operations, cleanup | `DhtBinding`, `ConnectionPoolProofs` |
| Connection pool, `Common_App/DhtClient/ConnectionPool.cpp`, `ocall_dht_client.cpp`, `UntrustedConnectionPool.cpp` | idle connections per client and node, the list of known nodes | take a connection to any node or to one, hand it in, give it back | `ConnectionPool`, `ConnectionPoolProofs` |
| Tester server and clients, `TesterSuit/YcsbTester_Server.py`, `YcsbTester_Client.py`, `YcsbModules/SocketTools.py`, `procConfigureTools.py` | connections, node processes, the recorder, each client's test case and round | the benchmark protocol | `YcsbTester`, `YcsbTesterProofs` |
| Raw data pool, `TesterSuit/YcsbModules/ProcRawData.py` | threads, a semaphore, the list of threads, the rows | start, parse, collect | `ParserPool`, `ParserPoolProofs` |
| Pairing of result files, the same file | none: lists of names | list, sort, match | `ResultPairs`, `ResultsProofs` |
| Parsing and statistics, `PreProcRawData.py`, `FinalProcRawData.py` | none: tables | parse, merge, combine, trim, count | `YcsbResults`, `ResultsProofs` |
| Figures, spreadsheets, configuration, build | none | drawing, reading JSON | not modelled: pure output or input |

How they interact: a Java thread calls the binding, which calls the application, which enters the enclave, which runs one
DHT operation; an operation asks the connection manager for two connections one after the other (any node, then the node the
key belongs to), which the application's pool hands into the enclave and takes back. All threads of one benchmark share one Java-side client with one manager and one cache of attribute lists.
The tester client starts YCSB as a process between two messages of the protocol; the tester server starts the nodes the DHT
client talks to. The result tools read what the benchmarks have left on disk.

What is hard in it:

* threads that come between the read of a session, the handshake, the count and the drop, with the lock commented out;
* a call whose request has been served while its answer is lost, or that is served after the call has raised;
* processes on several machines in step over blocking sockets, any of which may fail between any two steps;
* a Java object whose native half has a life of its own, and a pool of connections that goes with it;
* connections and listening sockets that outlive the benchmark they were made for;
* a list that is changed while it is iterated, a semaphore around code that raises;
* byte formats whose sizes and contents come from different expressions;
* results whose correctness depends on limits, empty ranges and the order in which a directory is listed.

`hazards` in `PROJECT.json` names each at its line, with the properties that are about it.

## 2. The modules

Every module that models code is laid out in the same way: constants with named assumptions, variables, one action per step
or operation with the name the source uses, the next-state relation, the type invariant, the properties. A definition
introduced as *a slip* changes the definition after it as a plausible mistake would; it is not part of the specification, and
serves to confirm that the property it is paired with (under `mutants` in `PROJECT.json`) would notice the mistake.

**ConnectionManager.** One action for each step of a call that another thread can come between: the call connects, looks the
session up, shakes hands (a full one, a resumed one, one the node refuses to resume, one that fails), puts a new session in
the cache, and counts: load, store, compare, drop, reset. The cache locks itself and is atomic. A session is an identifier;
the history variables `uses` and `home` hold the handshakes it served and the node it was negotiated with. The build with
`COUNT_OPERATION_PER_SESSION` is the constant `CountPerSession`. `InitOpCountMax` is called once, before the first connection
(`DhtBinding` shows that this is so). **SessionTickets** is what a caller may expect of it: tickets are issued, used within the
limit, and once retired never used again.

**DhtClient.** One operation per thread: lookup, request, answer. The actions `GetSuccessorAddress`, `SendRequest` and
`Receive` are common to the operations, which differ in the effect on the node and in whether they carry the attribute list
cached for the node (`UserMode`, the macro `DHT_USER_TEST`). `Raise` is any exception on the way; the request may then be lost or
stay on its way (`late`). The nodes (`Serve`, `Refuse`, `ServeLate`) are external. Connections either work or raise; how they come
about is in `ConnectionManager`. **KeyValueStore** is the promise: a store of keys with calls that take effect at most once.

**DhtBinding.** Threads call `init`, operations and `cleanup` on Java objects, in the build with an enclave or in the one
without (`build`, one of `Builds`), which fail in different places; packages are addresses on the heap that can be
given out again after a `delete`. `InOrder` says whether callers keep to the order the code needs: no second init, no cleanup
while in use, no use after it. The packages are counted through their stages, and `inits` counts the calls of `InitOpCountMax`
on the manager of each package: with an enclave it is a static object of an enclave that the application creates for itself,
without one a member of the application, so that it is one manager per package in both builds.

**ConnectionPool** composes the pools with `DhtBinding`, whose operations take their connections from the pool of the package they
work on. One action per step of a request: take an idle connection or make a new one (`GetAnyDhtNode`, `GetDhtNode`), send the
request's category (`SendCategory`, `SendFails`), receive the result inside (`ReceiveNull`), destroy the pair (`Release`), which
gives the connection back or closes it. The known nodes are the addresses from the first one up to the port in the
configuration file; drawing from an empty list reads beyond it, which crashes or yields any address. The base class with the
idle connections is external, and so is the enclave's builder that refuses a null pointer. What is undefined in the code and
ends the process sets `crashed`, after which nothing happens.

**AccessPolicy.** Policies are records, buffers are sequences of bytes, and every constructor, `Serialize`, `GetSerializedSize`,
parser and `Examine` is an operator. The state is the stack of expressions that a program builds with the operators `&`, `|`
and `~`, which take their operands over. An expression is one of at most `MaxDepth` (`Policies`), and the virtual methods are
functions of expressions, defined by what each class makes of the results of its operands (`ByClass`); `Parse` is a function of
buffers. A length is written in `SizeWidth` bytes, and the lists are those whose length such a number can hold. A hash has more
than one byte (`SizeAssumption`): with one, the list without its last byte would be a list. A parser has one of three outcomes: it
returns a value and the rest, it raises (`ParseError`), or it reads memory beyond its buffer (`Overrun`). The last one comes of
`EntityBasedControl`'s `ParsePolicy`, which does not compare the length that it reads with what is left (`ItemsOfLength`). The policies that the enclaves and the test data set up (`TestEnclavePolicy`,
`TestClientPolicy`) are among them.

**AttributeLists** has the two list classes over it: a `std::set` is the sequence of its items in the order `Less`, built and
searched the way the standard library does, and a program holds several lists and applies the methods of the classes to them,
also to a list and itself. **Collections** says what it is for the elements of a set to be in order, as a `std::set` keeps them and as
`list.sort` arranges them, and what the sum of a list is; the result modules use it, too.

**YcsbTester.** One server and several clients with FIFO channels. The server's actions are those of `RunOneTestCase` and
`GetClientsStartEndRound`, one per message it reads or sends in its loops over the clients; the clients' are those of
`RunOneTypeNodeSetup` and `RunTest`. An answer that is not the one a client waits for raises (`WrongAnswer`). What goes wrong are
`ServerRaises` and `ClientRaises`, where a socket finds the other side gone, `BenchmarkFails`, what the client does on its own
machine (its paths, after it has connected, the configuration it changes before a test case, YCSB and its files), `RecordFails`, a
record that is received and cannot be written, `SpawnFails` and `NodeCrashes`. The first test of a connection is that of
`SocketRecvall`, which raises when a receive returns nothing. Both sides go through the entries of their configurations
(`ServerTests`, `ClientTests`), each over new connections to a port of its own: `BindNext` and `NextEntry` close what waited at
the last listening socket and leave what was accepted (`old`) open until the new clients replace it (`dropped`);
`ConnectTooSoon` is a client that is quicker than the server and is queued at the last entry's socket.

**ParserPool.** Threads that take a permit, parse, give it back, set their finish flag and die; the collector polls the flags in
a `for` loop and removes from the list it iterates over, index by index as Python does.

**ResultPairs** and **YcsbResults** are algorithms over files that a small state machine writes in every possible way: the
functions of the code are operators, and the invariants compare them with a definition over what was written. A file's ID is
represented by its form with wildcards and by what they stand for. A name may have another number of components (`BadForms`), and what
a wildcard stands for need not be a number (`NoNumbers`), at which `int()` raises; '-1' stands for no limit and is replaced by
999999999999 before components are added up (`Replaced`). A line is a header, a record with its time and latency,
or neither. The row's columns are the counts, the time, the mean and the percentile of the latencies, and the averages of the
server's samples; its identifiers are those of the pair of files. A mean is kept as a sum and a count.
The rank of the percentile is computed with floats, and where it should be a whole number it may come out a little
above one, which picks the next higher value: `RoundedUp` is the set of the numbers of records with which that happens, any set
for the proofs.

## 3. The runs

| Run | Instance | Shows |
|---|---|---|
| `threads` | 2 threads, a configured and a foreign address, 3 sessions, limit off or 2 | `TypeOK`, `SessionAtHome`, `CachedWhenFresh` under every interleaving |
| `budget` | 1 thread, 2 configured addresses that share one counter, a cache of 3, limit off or 3 | `TicketBudget`: no session serves more than `maxOpPerTicket` handshakes; the manager implements `SessionTickets` |
| `perSession` | the build with a counter per node: 1 thread, 2 configured addresses and a foreign one, a cache of 2 | that build implements `SessionTickets`, too |
| `overrun` | 2 threads, 1 address, limit 2 | a violation of `TicketBudget`, see below |
| `dht` | 2 threads, 2 keys on 2 nodes, the build for users, a cache of 1 list, 1 late request, `k_dos` | `TypeOK`, `ListAtHome`, `KeepsStorePromise`: the client implements `KeyValueStore` |
| `inOrder` | 2 threads, 2 objects, 2 addresses for packages, 2 nodes, 3 connections, both builds, 3 configured ports of which one is below the first | `PoolTypeOK`, `UsedIsReady`, `ReadyIsHeld`, `RightPlace`, `OnePlace` |
| `afterCleanup` | 1 thread, 1 object, any order of calls | a violation of `NeedsClient`, see below |
| `policies` | all policies of up to 5 nodes over hashes made of flag bytes; 2 lists of attributes and 2 of enclaves | `SizeIsExact`, `PolicySurvives`, `CutShortIsAnError`, `RelatedSuffice`, `SearchFinds`, `ListSurvives`, `ListsAreSets` |
| `tests` | 3 clients in the eight setups below, most with 2 entries | `TypeOK`, `SameRound`, `NodesServeTheTest`, `RecordCoversTheRound`, `NodesKilled`, `EverybodyStops`, `EveryTestIsRun` |
| `unequal` | 2 clients with different numbers of rounds | a violation of `EverybodyStops`, see below |
| `collect` | 4 threads, 2 permits, each may fail | `TypeOK`, `PermitsAddUp`, `EachCollectedOnce`, `OutcomeIsRight`, `Terminates` |
| `results` | 2 files with 6 lines, 4 times, a failed operation, latencies that depend on both, the median, lifted for 3 records by rounding, 6 samples of the server out of order; 2 directories with 3 files, 2 forms, one of them with '-1', each with a '-1', a number and one that is none, and a name that is no ID | `TablesAsWritten`, `RowIsRight`, `NoRowIsRight`, `MatchedIsRight`, `EachInOnePair`, `OrderIsIrrelevant` |

Bounds, and why they are enough:

* `MaxUses`, `MaxCount` (ConnectionManager): a session's handshakes stop one above the limit, which is where a violation of the
  budget is seen; a counter is not counted on from values above the limit. One more session than the cache holds lets one be
  pushed out while two are in the hands of threads.
* `MaxLate` (DhtClient): one request that nobody waits for can meet two calls under way, of its own key or of the other. The
  build for users does what the other build does and more: it sends and caches attribute lists, and it has one more operation.
  A cache of one list is always full when the second node's list arrives.
* `Packages` (DhtBinding) are two, so that a deleted address is given to another object's package while the first is in use.
* `Conns`, `Addrs`, `LastAddrs` (ConnectionPool): each of two operations can have a connection while a third is idle under either
  address, in its own pool or the other one. The configured port leaves two known nodes, one or none.
* `MaxNodes` (AccessPolicy): three expressions, one of them with two operands or a nested negation, make a full policy.
  `MaxParsed` (AttributeLists): three parsed items can repeat one and be in no order. The two modules share no state and are
  explored side by side.
* `Setups` (YcsbTester; the values are in `MCYcsbTester`). The variable `setup`, chosen at the start and never changed, is how
  the clients are configured: *smooth*, two entries, the first with two test cases, with one or no measured round and different
  numbers of nodes, where nothing fails; *faulty*, the same where every benchmark, spawning and node may fail; *same port*, whose
  entries share one; *greedy*, where the master asks for more nodes than the server allows; *clashing*, where two clients claim
  one index, over two entries or over three, so that a connection the server has dropped is there for longer than one entry;
  *disagreeing*, where one client has another idea of how many clients there are; *longer*, where one client has a
  round more and the others a test case more. A client that is a round or a test ahead is told from one that is not.
* `MaxLines`, `MaxFiles` (YcsbResults, ResultPairs): two tables with two records each, in one file or in two, lie around a
  trimmed range of each length down to nothing; three files suffice for one to be missing in the middle. `MCResults` explores
  the two modules side by side, not their product, since they share no state.

Deadlock is checked except in `unequal` (the processes that wait for each other are what it shows), in `inOrder` and
`afterCleanup` (every object has been cleaned up, the library was refused, or the process has crashed), and in `results` (the files are complete). In
`YcsbTester` and `ParserPool` a step that changes nothing is allowed when everybody has ended, in `YcsbTester` also when the server
waits to accept a client that has failed (`WaitsForFailed`), and only then.

Symmetry is used for threads, sessions, values, objects, packages and connections, and in `dht` for the two keys together with
their nodes, in runs without liveness properties.

### Fairness

`ParserPool`: weak fairness of each thread and of the collector. Threads of an operating system are scheduled, what a thread
parses is a finite file, and `Process` polls without waiting for anything else. A thread that waits for a permit is served when
one is free, because the others have finished by then at the latest. `YcsbTester`: weak fairness of the server and of each
client; a benchmark is a process that ends, and a blocked receive is not enabled and need not take place. Failures are never
fair. A client that has not connected may wait for ever (`GetServerConnection` retries without end), and so
may everybody for a client that has failed before it connected (the server accepts without a timeout): `EverybodyStops` excepts
both, and nothing else. The DHT client has no
timeouts, and nothing in the code obliges a node to answer: its module states safety only.

### What the violations show

* `overrun`: `GetNew` reads the session, shakes hands and counts in separate steps, and the lock around the count is
  commented out. Two threads lose a count, or one resumes a session that the other has thrown away; the session then serves
  more handshakes than the benchmark's `maxOpPerTicket`.
* `unequal`: the comment above the server's check of a Start says that any other reply will terminate the test. When a client
  whose configuration has fewer rounds says Done, the server goes back to wait for the master, which waits for the server.
* `afterCleanup`: `cleanup` deletes the package and leaves its address in `cPtr`, so that the check that throws "Please
  Initialize first!" lets the next operation through to the deleted package.

Observations that the properties state as exceptions:

* a node's `k_dos` returns to the caller as success (`KeepsStorePromise` with `AnswersDos`);
* two files of one test in a directory are paired by the order in which they are listed (`OrderIsIrrelevant` excludes them);
* two consecutive entries of `ServerTests` at one port end the server, since the listening socket of the first is closed only when
  the variable that holds it is set again, after the second has been bound (`EveryTestIsRun` excludes them, by `Smooth`);
* a client that fails before it has connected leaves the server and the others waiting (`WaitsForFailed`);
* in the build without an enclave a node that cannot be reached, and in both builds a configured port below the first one, ends
  the process. The model has that outcome (`crashed`) and no property is stated of it;
* an entity policy's length that reaches beyond the buffer is not refused: memory beyond the buffer is read (`CutShortIsAnError` says
  exactly where a policy that was cut short leads to that, and that everywhere else it is an error);
* a server that fails while it starts the nodes leaves those it has started behind (`NodesKilled` excepts it by the
  outcome `spawn`), and a binding whose `Init` throws leaves its package behind (`ReadyIsHeld` excepts it).

## 4. The proofs

The theorems hold for every value of the constants that satisfies the named assumptions of the module; they say nothing of a
bound being large enough, since the bounds are constants too. They are checked with `tlapm`.

### ConnectionManagerProofs

For any number of threads, addresses, sessions and any size of the cache (`AddrAssumption`, `SessionAssumption`,
`OpCountMaxAssumption`):

* `TypeCorrect`, `AtHome` and `NothingReturns`. `SessionAtHome` is not inductive: `PutSession` puts what its thread holds, so
  that one must know what a thread holds at each point of a call (`InCall`), and that a session about to be cached was
  negotiated by this very thread, has served one handshake, and is in nobody else's hands (`FreshIsOwned`). With these the
  invariant `IInv` is inductive, and `CachedWhenFresh` is a consequence of the step.

For one thread (`Threads = {t}`):

* `Budget`: `TicketBudget`. The invariant `BudgetInv` relates the counter that covers a session to the handshakes the session
  has served, separately for the points of a call between handshake, load, store, compare, drop and reset
  (`CounterCoversUse`). Random initial values of the counter only make it run out earlier. That one thread is necessary is what
  `overrun` shows.
* `Promise`: with every node counted (`CountPerSession \/ ForeignAddr = {}`), each step of the manager is one of `SessionTickets`
  or changes nothing of it.

### ParserPoolProofs

For any number of files and permits (`PoolAssumption`): `TypeCorrect`, `Permits`, `Collecting` and `Outcome`. The three
invariants prop each other up: that nobody is collected twice needs that the list holds each thread once, that `Process` ends
with every row needs that the list is empty then (`EndsEmpty`), and that it raises exactly when one thread has failed needs
that a thread that is joined has set its flag, and with it its failure (`JoinsFinished`, `FailureIsKept`). Removing an item from the list
that is iterated is the lemma `WithoutIs`.

### DhtClientProofs

For any number of threads, keys, values and nodes, either build, and any size of the cache but zero (`SuccessorAssumption`,
`NullAssumption`, `DhtBoundAssumption`):

* `TypeCorrect`, which includes the limit of the cache, and `AtHome` (`ListAtHome`). The invariant adds what each call has of its variables
  (`InCall`: a call is bound for the node of its key), that an answer carries the list of the node that was asked
  (`AnswerAtHome`), that a late request is bound for the node of its key (`LateAtHome`), and that the sets whose sizes are
  limited are finite.
* `Refinement`: every step is one of `KeyValueStore` or changes nothing of it. The mapping reads each key from the node it
  belongs to and forgets the attribute lists; `LateAtHome` is what makes a late effect one on the key, and makes a late request
  the only one with its operation.

### ConnectionPoolProofs

The binding, for any number of threads, objects, packages and both builds, as long as callers keep to the order (`InOrder`): `TypeCorrect`,
`Used` (`UsedIsReady`) and `Held` (`ReadyIsHeld`). The invariant `IInv` says of each stage of a call what the package it has in
hand is: one that is being built is in no object's field and in no other thread's hands, and one that is ready is in the field of
exactly one object. That order is necessary is what `afterCleanup` shows.

The pools, for any number of nodes and connections besides: `PoolTypeCorrect`, `Places` (`RightPlace`) and `NothingLeaks`
(`OnePlace`). `PoolRefinement` shows that the composition takes only steps of the binding, so that the invariant of
the binding holds in it and says that the package of an operation lives; `PoolInv` adds where the connections are. The step that
makes `OnePlace` inductive is that whoever holds a connection has taken it out of the only pool it was in.

### YcsbTesterProofs

For any clients, any configurations and whatever fails:

* `TypeCorrect`, which includes that no client is at two indices and that the server never has more nodes than processors
  (`LoopsInRange` is what that needs of the loop that spawns).
* `NodesAreKilled` (`NodesKilled`), by `NodesHeld`: whose the running nodes are at each place of the server.

The barrier of a round, as long as no two entries of `ServerTests` share a port (`PortsDiffer`;
where they do, a client of the one may connect to the other, which is then benchmarked with the wrong test case): `RoundsAgree`
(`SameRound`) and `RecordsCover` (`RecordCoversTheRound`). No timing or counting holds the clients together, only what they
wait for, so that the invariant `RoundInv` has to follow each message:

* `ClientInv` says of one client where it is in its plan (`Position`), what may be on its way to it (`InFlight`), and which
  connection it is on (`Connected`); `View` is the stage of the round at which the server, by where it is in its loops, takes the
  client of an index to be, and `InStage` what that means for the client and the messages both ways. A client that has failed
  passes through the stages, its last messages still being read.
* `Agreement` holds clients together that count their rounds differently: the test cases and records a client has been told of
  (`TestsTold`, `RoundsTold`), those on their way to it included, are the same for all but the clients a loop of the server has
  already passed. A client that is told of a test case while it counts on for a round leaves with an error.
* `Roster` says that the loops go over all accepted clients, each at its own index (`AllAccepted` counts them).

The steps of clients are proved to keep every stage (`Good`), whatever it is, and those of the server to move the one client
whose turn it is to the next (`TurnStep`), so that no step of one is considered together with a step of another.

The nodes: `NodesServe` (`NodesServeTheTest`), if besides `PortsDiffer` the configurations give a test case the same number of nodes
(`SameNodes`). Only the master says how many nodes there are, and it may be gone when the others run their benchmarks. `NodesInv`
therefore follows the number from the master's test case through its message (`AsksRightly`) to the server, and ties it there to
the test case every client has been told of or is about to be (`TestServed`), which `Agreement` says is the master's. The proof
takes the rest from `RoundInv`.

### AccessCtrlProofs

The operators here are functions defined by recursion over expressions, over the bytes that are left, and over the places in
two lists. The induction theorems of the prover's library take a predicate as an operator, which the provers cannot
instantiate. **Foundations** therefore states them of a set (`Induction`, `StrongInduction`: a set of numbers with every number
whose predecessors it has is all of them), and definition by recursion of a function `step`: if the value of a step depends on
the values of earlier stages only (`IsRecursion`), there is a function that agrees with it everywhere (`Recursion`), as there is
for values made one after the other (`Iteration`). It also holds what is needed of sequences, of sets in order
(`SortedByOrder`, `SortedUnique`, `SortedPlacesAre`), of products, and of sums, which are the same in any order (`TotalPermuted`)
and by rows as by columns (`TotalOfTotals`), of counts carried over by one-to-one maps (`CountedAlike`), and of sequences put
together from others (`FlattenRuns`). It models no code.

For any hashes of at least two bytes, any labels, lists and depth (`SizeAssumption`, `HashAssumption`, `DepthAssumption`,
`ControlsAssumption`), on the specification of `AccessPolicy`:

* `PoliciesBuilt`: the stack holds expressions, and the owner and the enclave policy are such that their lengths can be
  written (`Built`). The three operands of a policy are then expressions, and the rest is proved of all of them.
* `SizesAreExact` (`SizeIsExact`) and `PoliciesSurvive` (`PolicySurvives`). `PolicyRecursion` gives each method its defining
  equation; `Parse` looks at shorter buffers only, because a constructor that takes a byte leaves less than it was given, which
  has to be known of the result of the first operand before the second is parsed (`ParseStep`). Then an expression followed by
  any bytes is parsed to itself and those bytes, by induction over its depth. An entity list is read back because its items, in the
  order of `Less`, all have one length, and because its own length fits into the number before it (`ValuesDef`).
* `CutShortIsRefused` (`CutShortIsAnError`), of expressions by induction over the depth: where the cut is in the second operand, the first one is
  parsed whole by the theorem before. A whole policy is cut in its owner, in one of the lists of the enclaves or in one of the three
  expressions, what is before the cut being parsed whole. Within a list the outcome is that of `ItemsOfLength`, whose length is the
  written one and more than what is left: an over-read, and nowhere else.
* `RelatedAreEnough` (`RelatedSuffice`), for every class and every kind of access.

For any lists and items (`ListsAssumption`: a name is that of a list of one class, and items have the length of that class), on the
specification `ListsSpec` of `AttributeLists`:

* `ListsAreKept`: after any operations every list is in strict order (`ListsKept`). `SetUnionIs` and `SetDifferenceIs` show by
  induction over what is left of both lists that the one pass of the standard library over two lists in order writes a list in order with the
  items of the union or the difference; `InsertionIs` that an item is put where it belongs. What makes both work is that
  `ItemBase::operator<` is a strict order in which two different items of one length can be compared (`LessIsOrder`).
* `ListsFind` (`SearchFinds`), `ListsParse` (`ListSurvives`) and `ListsWorkAsSets` (`ListsAreSets`) follow from it: a list in order is
  determined by what is in it (`KeptUnique`), so that a buffer with the items of two lists is parsed to their union.

### ResultsProofs

For any number of directories, but one at least, any names, IDs or not, numbers or not, and any number of files (`DirsAssumption`, `FormsAssumption`), on the
specification of `ResultPairs`: `PairsMatch` (`MatchedIsRight`), `PairsHoldEach` (`EachInOnePair`) and `ListingOrderIsIrrelevant`
(`OrderIsIrrelevant`). The invariant is that a directory holds a file name once (`DirsOK`). The code compares lists position by
position, the properties count files: the heart is `SortedAgree`, that two lists in order have the same forms at every position
exactly if they have as many files of each. Where they differ first, the list whose form comes earlier has more of that form
(`Ahead`). The sums follow since sorting a list leaves its sum alone, and rows and columns of the pairs add up to the same.

For any number of files and of lines in them, any operations, times, latencies, samples of the server, percentile and rounding of its rank
(`TimeAssumption`, `FilesAssumption`, `LatencyAssumption`, `SvrStatAssumption`, `OpsAssumption`), on the specification of
`YcsbResults`, with the invariant `FilesOK` that a record follows a line of its operation and that only the first line of a file
is of no table:

* `TablesParsed` (`TablesAsWritten`), line by line (`StateOK`, `FileParsed`): if the parser saved its current table now, it would have
  the records by operation so far, and it has failed exactly if a label was repeated or a failure it forbids was read.
* `RowsAreRight` (`RowIsRight`) and `NoRowOnlyWhenWrong` (`NoRowIsRight`). Lines that are equal cannot be told apart once they are in a
  table, so the proof follows them by their places in the files (`Places`): a list has the lines of a set of places, each once
  (`Lists`). Merging (`MergeStep`, `AllMerged`), concatenating (`FlattenListed`) and sorting (`SortListed`, `CombineIs`, `PreProcedIs`)
  each keep that. Trimming a table in order leaves exactly the lines within the span (`TrimIs`), and counts are carried
  over from places to tables by one-to-one maps (`ListsCount`, `TrimCount`, `SortCount`, `MeasuredCount`). `SpanIs`, `QuantileIs` and
  `ServerIs` are then the columns of the row: first and last times, the percentile of the latencies, and the samples of the server.

### Model-checked only

Liveness (`Terminates`, `EverybodyStops`, `EveryTestIsRun`), which the prover does not reach.

## 5. What is not modelled

* The user's certificate and the keys of the enclaves; the Decent server.
* Conversions of Java strings; unloading of the library, which the Java virtual machine does when nobody can call it.
* The samples of the status recorder while it runs, and the affinities it sets: their number and content are data.
* The checks of paths before the results are processed, and the table the rows are written to.
* The base class of the pool and of its connections, TLS, the nodes: other projects, modelled as `external` by how they are used.
* Drawing, spreadsheets, reading of configuration and build scripts: no state that a property could be about.

## 6. The plan

1. `DhtClient` composed with `ConnectionPool` and `ConnectionManager`, so that the session a connection resumes is the one cached
   for the node the pool says it leads to; `RightPlace` and `SessionAtHome` are its two halves.
