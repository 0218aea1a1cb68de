----------------------------- MODULE YcsbTester -----------------------------
(***************************************************************************)
(* The benchmark protocol: one tester server                               *)
(* (TesterSuit/YcsbTester_Server.py) and its clients                       *)
(* (TesterSuit/YcsbTester_Client.py), of which the one with index 0 is the *)
(* master.                                                                 *)
(*                                                                         *)
(* For each test case the master tells the server how many DHT nodes to    *)
(* spawn.  The server spawns them and signals every client.  In each round *)
(* (one load, then the measured ones) the server collects a Start from     *)
(* every client, records the system's status, lets the clients proceed,    *)
(* collects their Ends and answers with the record.                        *)
(*                                                                         *)
(* Both sides go through the entries of their configurations, "ServerTests"*)
(* and "ClientTests": each is a benchmark of its own over new connections. *)
(*                                                                         *)
(* Connections are FIFO byte streams.  A client that raises closes its     *)
(* connection; a server that raises kills the nodes it knows of and exits. *)
(***************************************************************************)
EXTENDS Integers, Sequences, FiniteSets, Functions

CONSTANTS
  Clients,
  MaxNumOfNode,  \* the length of the server's "TargetAffinity"
  Setups         \* the configurations, and what may go wrong: "TesterSvrPort" of
                 \* each entry; for each client "ClientIdx", "TotalNumOfClient" and
                 \* the test cases of each entry with their nodes and measured
                 \* rounds; the clients that may fail on their own; whether the
                 \* server may, and nodes may fail to start or crash

ASSUME SetupAssumption ==
  \A s \in Setups :
    /\ s.idx \in [Clients -> Nat] /\ s.total \in [Clients -> Nat]
    /\ s.ports \in Seq(Nat)
    /\ s.plan \in [Clients -> Seq(Seq([nodes : Nat, rounds : Nat])) \ {<<>>}]
    /\ s.mayFail \subseteq Clients /\ s.serverMayFail \in BOOLEAN
ASSUME MaxNumOfNodeAssumption == MaxNumOfNode \in Nat

VARIABLES
  setup,               \* the setup of this benchmark
  sPc, outcome,        \* where the server is, and how it ended
  entry, cEntry,       \* the entry of its configuration the server, a client is at
  connArr, total,      \* the accepted clients by index, and how many there will be
  i,                   \* the index of the server's current loop
  numOfNode, procObjs, \* the nodes asked for, and those RunTestProgram returned
  running,             \* the node processes that are alive
  recording,           \* SysStatusRecorderThread is running
  conn,                \* each client's connection: of this entry it is open, closed or
                       \* reset; of the last one it is old until the server drops it
  toServer, toClient,  \* the messages in flight
  cPc, test, round     \* where each client is; round 0 loads the database

serverVars == <<sPc, outcome, entry, connArr, total, i, numOfNode, procObjs, recording>>
clientVars == <<cPc, cEntry, test, round>>
netVars == <<conn, toServer, toClient>>
vars == <<setup, serverVars, running, netVars, clientVars>>

ClientIdx(c) == setup.idx[c]
TotalClient(c) == setup.total[c]
Plan(c) == setup.plan[c][cEntry[c]]
IsMaster(c) == ClientIdx(c) = 0
NodeIds(n) == 0 .. n - 1
Say(kind) == [kind |-> kind, val |-> 0]
Num(n) == [kind |-> "num", val |-> n]

----------------------------------------------------------------------------
Init ==
  /\ setup \in Setups
  /\ sPc = "bind" /\ outcome = "none"
  /\ entry = 0 /\ cEntry = [c \in Clients |-> 1]
  /\ connArr = <<>> /\ total = 0
  /\ i = 0 /\ numOfNode = 0
  /\ procObjs = {} /\ running = {}
  /\ recording = FALSE
  /\ conn = [c \in Clients |-> "none"]
  /\ toServer = [c \in Clients |-> <<>>]
  /\ toClient = [c \in Clients |-> <<>>]
  /\ cPc = [c \in Clients |-> "connect"]
  /\ test = [c \in Clients |-> 1]
  /\ round = [c \in Clients |-> 0]

----------------------------------------------------------------------------
(* SocketTools.py, as the server uses it *)

\* There is a message of client c to read; the next one; it is read.
CanRecv(c) == conn[c] # "reset" /\ toServer[c] # <<>>
Received(c) == Head(toServer[c])
Recv(c) == CanRecv(c) /\ toServer' = [toServer EXCEPT ![c] = Tail(@)]

\* SocketRecvall raises: the client has closed and all it sent was read, or its
\* closing discarded that.
CannotRecv(c) == conn[c] = "reset" \/ (conn[c] = "closed" /\ toServer[c] = <<>>)

\* A message to a closed connection is lost; later ones may find out.
Send(c, msg) ==
  \/ /\ conn[c] = "open"
     /\ toClient' = [toClient EXCEPT ![c] = Append(@, msg)]
     /\ UNCHANGED conn
  \/ /\ conn[c] = "closed"
     /\ \E state \in {"closed", "reset"} : conn' = [conn EXCEPT ![c] = state]
     /\ UNCHANGED toClient

CannotSend(c) == conn[c] = "reset"

\* A slip of ServerExit: the nodes are killed where a test case ends well, and
\* not in "finally".
ExitWithoutKill(how) ==
  /\ sPc' = "exited" /\ UNCHANGED <<setup, entry>>
  /\ outcome' = how
  /\ UNCHANGED running
  /\ procObjs' = {}
  /\ recording' = FALSE
  /\ UNCHANGED <<connArr, total, i, numOfNode>>

\* The server ends; "finally" kills the nodes if RunTestProgram had returned.
ServerExit(how) ==
  /\ sPc' = "exited" /\ UNCHANGED <<setup, entry>>
  /\ outcome' = how
  /\ running' = running \ procObjs
  /\ procObjs' = {}
  /\ recording' = FALSE
  /\ UNCHANGED <<connArr, total, i, numOfNode>>

ServerGoto(pc, index) == sPc' = pc /\ i' = index /\ UNCHANGED <<setup, entry>>

\* The server is at this label, in the turn of the client with index i.
Turn(pc, c) == sPc = pc /\ c = connArr[i]

Last == i = total - 1

----------------------------------------------------------------------------
(* The server *)

\* The listening socket of the last entry is closed only when the variable is set
\* again, after this one's has been bound.
PortInUse == entry > 0 /\ setup.ports[entry + 1] = setup.ports[entry]

\* SetupTestServer, for the next entry.  A connection that waited in the queue of the
\* socket is gone; those accepted are open until others replace them.
NextEntry ==
  /\ entry' = entry + 1
  /\ sPc' = "accept" /\ i' = 0
  /\ total' = 0 /\ connArr' = <<>>
  /\ conn' = [c \in Clients |->
                CASE conn[c] = "open" -> IF c \in Range(connArr) THEN "old" ELSE "dropped"
                  [] conn[c] \in {"closed", "reset"} -> "none"
                  [] OTHER -> conn[c]]
  /\ UNCHANGED <<setup, outcome, numOfNode, procObjs, running, recording>>

\* StartTestsByConfig.  The working directory may be invalid.
BindNext ==
  /\ sPc = "bind"
  /\ \/ entry < Len(setup.ports) /\ ~PortInUse /\ NextEntry
     \/ /\ entry < Len(setup.ports) /\ (PortInUse \/ setup.serverMayFail)
        /\ ServerExit("error") /\ UNCHANGED conn
     \/ entry = Len(setup.ports) /\ ServerExit("ok") /\ UNCHANGED conn
  /\ UNCHANGED <<toServer, toClient, clientVars>>

Waiting(c) ==
  conn[c] \in {"open", "closed", "reset"} /\ \A k \in DOMAIN connArr : connArr[k] # c

IndexAccepted(c) ==
  /\ ClientIdx(c) < TotalClient(c)
  /\ IF total = 0 THEN TotalClient(c) > 0
                  ELSE TotalClient(c) = total /\ ClientIdx(c) \notin DOMAIN connArr

\* AcceptTestClients: a client says how many there are and which it is.
AcceptClient(c) ==
  /\ sPc = "accept" /\ Waiting(c)
  /\ \/ /\ IndexAccepted(c)
        /\ total' = TotalClient(c)
        /\ connArr' = [k \in DOMAIN connArr \cup {ClientIdx(c)} |->
                         IF k = ClientIdx(c) THEN c ELSE connArr[k]]
        /\ IF Cardinality(DOMAIN connArr') < total'
             THEN ServerGoto("accept", 0) /\ UNCHANGED conn
             ELSE /\ ServerGoto("listen", 0)
                  /\ conn' = [d \in Clients |-> IF conn[d] = "old" THEN "dropped" ELSE conn[d]]
        /\ UNCHANGED <<outcome, numOfNode, procObjs, running, recording>>
     \/ /\ ~IndexAccepted(c)
        /\ ServerExit("error") /\ UNCHANGED conn
  /\ UNCHANGED <<toServer, toClient, clientVars>>

\* ListenToClients: "Test" starts a test case, anything else ends the entry.
Listen(c) ==
  /\ sPc = "listen" /\ c = connArr[0]
  /\ Recv(c)
  /\ \/ /\ Received(c).kind = "Test"
        /\ ServerGoto("numOfNode", 0)
     \/ Received(c).kind # "Test" /\ ServerGoto("bind", 0)
  /\ UNCHANGED <<outcome, connArr, total, numOfNode, procObjs, running, recording>>
  /\ UNCHANGED <<conn, toClient, clientVars>>

\* A slip of RecvNumOfNode: the number is not compared with the processors.
RecvAnyNumOfNode(c) ==
  /\ sPc = "numOfNode" /\ c = connArr[0]
  /\ Recv(c)
  /\ Send(c, "OK")
  /\ numOfNode' = Received(c).val
  /\ ServerGoto("spawn", 0)
  /\ UNCHANGED <<outcome, connArr, total, procObjs, running, recording, clientVars>>

\* RecvNumOfNode
RecvNumOfNode(c) ==
  /\ sPc = "numOfNode" /\ c = connArr[0]
  /\ Recv(c)
  /\ \/ /\ Received(c).val \in 1 .. MaxNumOfNode
        /\ Send(c, "OK")
        /\ numOfNode' = Received(c).val
        /\ ServerGoto("spawn", 0)
        /\ UNCHANGED <<outcome, connArr, total, procObjs, running, recording>>
     \/ /\ Received(c).val \notin 1 .. MaxNumOfNode
        /\ Send(c, "Err")
        /\ ServerExit("error")
  /\ UNCHANGED clientVars

\* RunTestProgram, one node: the process is started and polled.  The list it
\* builds is the caller's only when the function returns.
SpawnNode ==
  /\ sPc = "spawn"
  /\ running' = running \cup {i}
  /\ IF i < numOfNode - 1
       THEN ServerGoto("spawn", i + 1) /\ UNCHANGED procObjs
       ELSE ServerGoto("ready", 0) /\ procObjs' = NodeIds(numOfNode)
  /\ UNCHANGED <<outcome, connArr, total, numOfNode, recording, netVars, clientVars>>

\* Popen raises, or the new process is dead at the poll and the script exits:
\* either way the processes started so far are in no list the caller has.
SpawnFails ==
  /\ setup.serverMayFail
  /\ sPc = "spawn"
  /\ ServerExit("spawn")
  /\ UNCHANGED <<netVars, clientVars>>

\* Every client is told that the nodes are ready.
SignalReady(c) ==
  /\ Turn("ready", c)
  /\ Send(c, "R")
  /\ IF Last THEN ServerGoto("start", 0) ELSE ServerGoto("ready", i + 1)
  /\ UNCHANGED <<outcome, connArr, total, numOfNode, procObjs, running, recording,
                 toServer, clientVars>>

\* ConfigureProc raises when a node is already gone.
ConfigureFails ==
  /\ sPc = "ready" /\ i = 0
  /\ running # procObjs
  /\ ServerExit("error")
  /\ UNCHANGED <<netVars, clientVars>>

\* A Start is the last one or not, and starts the recorder or not.
StartCollected(last, record) ==
  /\ IF last THEN ServerGoto("proceed", 0) ELSE ServerGoto("start", i + 1)
  /\ recording' = record
  /\ UNCHANGED <<outcome, connArr, total, numOfNode, running, procObjs>>

\* "finally": the nodes of the test case are killed.
EndTestCase ==
  /\ ServerGoto("listen", 0)
  /\ running' = running \ procObjs
  /\ procObjs' = {}
  /\ UNCHANGED <<outcome, connArr, total, numOfNode, recording>>

\* Three slips of CollectStart: only the master's Start is awaited, the recorder
\* starts with the first Start, and the end of a test case is taken for an error.
CollectMasterStart(c) ==
  /\ Turn("start", c) /\ Recv(c)
  /\ IF Received(c).kind = "Start" THEN StartCollected(TRUE, TRUE) ELSE EndTestCase
  /\ UNCHANGED <<conn, toClient, clientVars>>

RecordFromFirstStart(c) ==
  /\ Turn("start", c) /\ Recv(c)
  /\ IF Received(c).kind = "Start" THEN StartCollected(Last, TRUE) ELSE EndTestCase
  /\ UNCHANGED <<conn, toClient, clientVars>>

OnlyStartAccepted(c) ==
  /\ Turn("start", c) /\ Recv(c)
  /\ IF Received(c).kind = "Start" THEN StartCollected(Last, Last) ELSE ServerExit("error")
  /\ UNCHANGED <<conn, toClient, clientVars>>

\* GetClientsStartEndRound: a Start from every client starts the recorder, any
\* other message ends the test case.
CollectStart(c) ==
  /\ Turn("start", c) /\ Recv(c)
  /\ IF Received(c).kind = "Start" THEN StartCollected(Last, Last) ELSE EndTestCase
  /\ UNCHANGED <<conn, toClient, clientVars>>

LetProceed(c) ==
  /\ Turn("proceed", c)
  /\ Send(c, "Proceed")
  /\ IF Last THEN ServerGoto("end", 0) ELSE ServerGoto("proceed", i + 1)
  /\ UNCHANGED <<outcome, connArr, total, numOfNode, procObjs, running, recording,
                 toServer, clientVars>>

\* The master's End, read first, stops the recorder; it raises what it raised
\* when a node was gone.
CollectEnd(c) ==
  /\ Turn("end", c)
  /\ Recv(c)
  /\ \/ /\ IF Last THEN ServerGoto("reply", 0) ELSE ServerGoto("end", i + 1)
        /\ recording' = FALSE
        /\ UNCHANGED <<outcome, connArr, total, numOfNode, procObjs, running>>
     \/ /\ i = 0 /\ running # procObjs
        /\ ServerExit("error")
  /\ UNCHANGED <<conn, toClient, clientVars>>

\* A slip of SendRecord: the nodes are killed after every round.
SendRecordAndKill(c) ==
  /\ Turn("reply", c)
  /\ Send(c, "Record")
  /\ IF Last THEN ServerGoto("start", 0) /\ running' = running \ procObjs /\ procObjs' = {}
             ELSE ServerGoto("reply", i + 1) /\ UNCHANGED <<running, procObjs>>
  /\ UNCHANGED <<outcome, connArr, total, numOfNode, recording, toServer, clientVars>>

\* The record goes to the master, an empty answer to the others.
SendRecord(c) ==
  /\ Turn("reply", c)
  /\ Send(c, "Record")
  /\ IF Last THEN ServerGoto("start", 0) ELSE ServerGoto("reply", i + 1)
  /\ UNCHANGED <<outcome, connArr, total, numOfNode, procObjs, running, recording,
                 toServer, clientVars>>

\* A receive or a send raises, at whatever point.
ServerRaises(c) ==
  /\ \/ (sPc \in {"listen", "numOfNode"} /\ c = connArr[0]) /\ CannotRecv(c)
     \/ (Turn("start", c) \/ Turn("end", c)) /\ CannotRecv(c)
     \/ (Turn("ready", c) \/ Turn("proceed", c) \/ Turn("reply", c)) /\ CannotSend(c)
  /\ ServerExit("error")
  /\ UNCHANGED <<netVars, clientVars>>

----------------------------------------------------------------------------
(* A client *)

ClientGoto(c, pc) == cPc' = [cPc EXCEPT ![c] = pc] /\ UNCHANGED <<setup, cEntry>>

ClientSend(c, msgs) == toServer' = [toServer EXCEPT ![c] = @ \o msgs]

ClientRecv(c) ==
  /\ toClient[c] # <<>>
  /\ toClient' = [toClient EXCEPT ![c] = Tail(@)]

CurrentTest(c) == Plan(c)[test[c]]

\* "finally": the connection is closed, if there is one.  What this step leaves unread
\* in it turns the closing into a reset.
CloseConn(c) ==
  conn' = [conn EXCEPT ![c] = CASE @ = "open" /\ toClient'[c] = <<>> -> "closed"
                                [] @ = "open" /\ toClient'[c] # <<>> -> "reset"
                                [] @ \in {"old", "dropped"} -> "none"
                                [] OTHER -> @]

\* The server's side of the connection is gone, though not all it has sent.
Gone(c) == sPc = "exited" \/ conn[c] = "dropped"

ClientExit(c, how) ==
  /\ ClientGoto(c, how)
  /\ CloseConn(c)
  /\ UNCHANGED <<test, round, running, serverVars>>

\* GetServerConnection: refused while nobody listens at the port, and tried again.
Reachable(c) ==
  cPc[c] = "connect" /\ sPc # "exited" /\ entry > 0
    /\ setup.ports[cEntry[c]] = setup.ports[entry]

Connect(c) ==
  /\ Reachable(c) /\ cEntry[c] <= entry
  /\ conn' = [conn EXCEPT ![c] = "open"]
  /\ toServer' = [toServer EXCEPT ![c] = <<>>]
  /\ toClient' = [toClient EXCEPT ![c] = <<>>]
  /\ ClientGoto(c, "test")
  /\ UNCHANGED <<serverVars, running, test, round>>

\* The socket of the last entry still listens: it will never be accepted from again.
ConnectTooSoon(c) ==
  /\ Reachable(c) /\ cEntry[c] > entry
  /\ ClientGoto(c, "queued")
  /\ UNCHANGED <<serverVars, running, netVars, test, round>>

\* RunOneTypeNodeSetup: the master asks for nodes, the others wait for them.
BeginTest(c) ==
  /\ cPc[c] = "test"
  /\ test[c] <= Len(Plan(c))
  /\ IF IsMaster(c)
       THEN /\ ClientSend(c, <<Say("Test"), Num(CurrentTest(c).nodes)>>)
            /\ ClientGoto(c, "ok")
       ELSE ClientGoto(c, "ready") /\ UNCHANGED toServer
  /\ UNCHANGED <<serverVars, running, conn, toClient, test, round>>

\* What the client waits for, and what it does then.
Expected == [ok |-> "OK", ready |-> "R", proceed |-> "Proceed"]
Following == [ok |-> "ready", ready |-> "start", proceed |-> "ycsb"]

\* The answer the client waits for takes it on, any other raises.
RecvAnswer(c) ==
  /\ cPc[c] \in DOMAIN Expected
  /\ ClientRecv(c)
  /\ Head(toClient[c]) = Expected[cPc[c]]
  /\ ClientGoto(c, Following[cPc[c]])
  /\ UNCHANGED <<serverVars, running, conn, toServer, test, round>>

WrongAnswer(c) ==
  /\ cPc[c] \in DOMAIN Expected
  /\ ClientRecv(c)
  /\ Head(toClient[c]) # Expected[cPc[c]]
  /\ ClientExit(c, "failed")
  /\ UNCHANGED toServer

SendStart(c) ==
  /\ cPc[c] = "start"
  /\ ClientSend(c, <<Say("Start")>>)
  /\ ClientGoto(c, "proceed")
  /\ UNCHANGED <<serverVars, running, conn, toClient, test, round>>

\* The benchmark has run (in the load round only the master's does).
SendEnd(c) ==
  /\ cPc[c] = "ycsb"
  /\ ClientSend(c, <<Say("End")>>)
  /\ ClientGoto(c, "record")
  /\ UNCHANGED <<serverVars, running, conn, toClient, test, round>>

\* The record ends the round; after the last one the master says so.
RecvRecord(c) ==
  /\ cPc[c] = "record"
  /\ ClientRecv(c)
  /\ IF round[c] < CurrentTest(c).rounds
       THEN /\ round' = [round EXCEPT ![c] = @ + 1]
            /\ ClientGoto(c, "start")
            /\ UNCHANGED <<test, toServer>>
       ELSE /\ round' = [round EXCEPT ![c] = 0]
            /\ test' = [test EXCEPT ![c] = @ + 1]
            /\ ClientGoto(c, "test")
            /\ IF IsMaster(c) THEN ClientSend(c, <<Say("Finished")>>)
                              ELSE UNCHANGED toServer
  /\ UNCHANGED <<serverVars, running, conn>>

\* The next entry begins where the first one did.
NextClientEntry(c) ==
  /\ cPc' = [cPc EXCEPT ![c] = "connect"]
  /\ cEntry' = [cEntry EXCEPT ![c] = @ + 1]
  /\ test' = [test EXCEPT ![c] = 1]
  /\ CloseConn(c)
  /\ UNCHANGED <<setup, round, running, serverVars>>

\* StartOneTestsByConfig ends.  When the server is gone the shutdown may raise.
SendDone(c) ==
  /\ cPc[c] = "test"
  /\ test[c] > Len(Plan(c))
  /\ ClientSend(c, <<Say("Done")>>) /\ UNCHANGED toClient
  /\ \/ cEntry[c] < Len(setup.plan[c]) /\ NextClientEntry(c)
     \/ cEntry[c] = Len(setup.plan[c]) /\ ClientExit(c, "done")
     \/ Gone(c) /\ ClientExit(c, "failed")

\* A slip of ClientRaises: SocketRecvall goes on when recv returns nothing.
ClientSpins(c) ==
  /\ sPc = "exited"
  /\ cPc[c] \in {"ok", "ready", "start", "proceed", "ycsb", "record"}
  /\ toClient[c] = <<>>
  /\ UNCHANGED vars

\* The server is gone: a receive finds nothing more, or a send fails.
ClientRaises(c) ==
  /\ Gone(c)
  /\ \/ /\ cPc[c] \in {"ok", "ready", "proceed", "record"}
        /\ toClient[c] = <<>> \/ toServer[c] # <<>>
     \/ cPc[c] \in {"start", "ycsb", "queued"} \/ (cPc[c] = "test" /\ IsMaster(c))
  /\ UNCHANGED <<toServer, toClient>>
  /\ ClientExit(c, "failed")

----------------------------------------------------------------------------
(* What goes wrong outside the protocol *)

\* In the load round only the master runs the benchmark.
RunsYcsb(c) == IsMaster(c) \/ round[c] > 0

\* A path in the configuration is invalid; after connecting, the directory for the
\* output cannot be made or a process of the system not be configured; before a test case,
\* UpdateClientConfig fails; or an output file exists already, or YCSB returns an error.
BenchmarkFails(c) ==
  /\ c \in setup.mayFail
  /\ \/ cPc[c] \in {"connect", "queued"}
     \/ cPc[c] = "test" /\ (test[c] = 1 \/ test[c] <= Len(Plan(c)))
     \/ cPc[c] \in {"start", "ycsb"} /\ RunsYcsb(c)
  /\ UNCHANGED <<toServer, toClient>>
  /\ ClientExit(c, "failed")

\* The record has been received, and WriteStrToFile raises.
RecordFails(c) ==
  /\ c \in setup.mayFail
  /\ cPc[c] = "record" /\ RunsYcsb(c)
  /\ ClientRecv(c)
  /\ ClientExit(c, "failed")
  /\ UNCHANGED toServer

NodeCrashes ==
  /\ setup.serverMayFail
  /\ \E n \in running : running' = running \ {n}
  /\ UNCHANGED <<setup, serverVars, clientVars, netVars>>

----------------------------------------------------------------------------
Stopped ==
  /\ sPc = "exited"
  /\ \A c \in Clients : cPc[c] \in {"connect", "done", "failed"}

\* The server accepts without a timeout, and a client has failed before it connected.
WaitsForFailed ==
  sPc = "accept" /\ \E c \in Clients : cPc[c] = "failed" /\ conn[c] = "none"

ServerNext ==
  \/ BindNext \/ SpawnNode \/ ConfigureFails
  \/ \E c \in Clients :
       \/ AcceptClient(c) \/ Listen(c) \/ RecvNumOfNode(c) \/ SignalReady(c)
       \/ CollectStart(c) \/ LetProceed(c) \/ CollectEnd(c) \/ SendRecord(c)
       \/ ServerRaises(c)

ClientNext(c) ==
  \/ Connect(c) \/ ConnectTooSoon(c) \/ BeginTest(c) \/ RecvAnswer(c) \/ WrongAnswer(c)
  \/ SendStart(c) \/ SendEnd(c) \/ RecvRecord(c) \/ SendDone(c)
  \/ ClientRaises(c)

Faults == SpawnFails \/ NodeCrashes \/ \E c \in Clients : BenchmarkFails(c) \/ RecordFails(c)

Next ==
  \/ ServerNext
  \/ \E c \in Clients : ClientNext(c)
  \/ Faults
  \/ (Stopped \/ WaitsForFailed) /\ UNCHANGED vars

\* Each process takes its next step when it can; a benchmark comes to an end.
Fairness == WF_vars(ServerNext) /\ \A c \in Clients : WF_vars(ClientNext(c))

Spec == Init /\ [][Next]_vars /\ Fairness

----------------------------------------------------------------------------
Messages == [kind : {"Test", "num", "Start", "End", "Finished", "Done"}, val : Nat]
Answers == {"OK", "Err", "R", "Proceed", "Record"}
Connections == {"none", "open", "closed", "reset", "old", "dropped"}

ServerTypeOK ==
  /\ setup \in Setups
  /\ entry \in 0 .. Len(setup.ports)
  /\ sPc \in {"bind", "accept", "listen", "numOfNode", "spawn", "ready", "start", "proceed",
              "end", "reply", "exited"}
  /\ outcome \in {"none", "ok", "error", "spawn"}
  /\ IsInjective(connArr) /\ DOMAIN connArr \subseteq Nat /\ Range(connArr) \subseteq Clients
  /\ total \in Nat /\ i \in Nat /\ numOfNode \in 0 .. MaxNumOfNode
  /\ running \subseteq NodeIds(MaxNumOfNode) /\ procObjs \subseteq NodeIds(MaxNumOfNode)
  /\ recording \in BOOLEAN

NetTypeOK ==
  /\ conn \in [Clients -> Connections]
  /\ toServer \in [Clients -> Seq(Messages)]
  /\ toClient \in [Clients -> Seq(Answers)]

ClientTypeOK ==
  /\ cPc \in [Clients -> {"connect", "queued", "test", "ok", "ready", "start", "proceed", "ycsb",
                          "record", "done", "failed"}]
  /\ cEntry \in [Clients -> Nat \ {0}]
  /\ \A c \in Clients : cEntry[c] <= Len(setup.plan[c])
  /\ test \in [Clients -> Nat \ {0}] /\ round \in [Clients -> Nat]

TypeOK == ServerTypeOK /\ NetTypeOK /\ ClientTypeOK

\* The barrier of a round: two clients that run their benchmark are in the same round
\* of the same test case of the same entry, wherever the server and the others are.
SameRound ==
  \A c, d \in Clients : cPc[c] = "ycsb" /\ cPc[d] = "ycsb" =>
    cEntry[c] = cEntry[d] /\ test[c] = test[d] /\ round[c] = round[d]

\* While a client runs its benchmark, the server holds the nodes of that
\* client's test case: it neither kills them nor spawns the next ones early.
NodesServeTheTest ==
  \A c \in Clients : cPc[c] = "ycsb" /\ sPc # "exited" =>
    procObjs = NodeIds(CurrentTest(c).nodes)

\* The record covers the master's benchmark, from before it starts until it has
\* sent End, and nothing but the round: no accepted client is yet before its Start.
RecordCoversTheRound ==
  /\ \A c \in Clients : IsMaster(c) /\ cPc[c] = "ycsb" /\ sPc # "exited" => recording
  /\ recording => \A c \in Range(connArr) : cPc[c] \in {"proceed", "ycsb", "record", "failed"}

\* No DHT node outlives its test case, nor the server, however it ends, unless
\* RunTestProgram itself did not return.
NodesKilled ==
  sPc \in {"bind", "accept", "listen", "exited"} /\ outcome # "spawn" => running = {}

\* Whatever fails, nobody waits for ever, unless for one that has failed before it
\* connected: the server ends, and every client that gets to connect ends too.
EverybodyStops == <>[](Stopped \/ WaitsForFailed)

\* The configurations agree, the server has the processors, and nothing fails.
Smooth ==
  /\ IsInjective(setup.idx) /\ Range(setup.idx) = 0 .. Cardinality(Clients) - 1
  /\ Range(setup.total) = {Cardinality(Clients)}
  /\ \A n \in 2 .. Len(setup.ports) : setup.ports[n] # setup.ports[n - 1]
  /\ \A c, d \in Clients : setup.plan[c] = setup.plan[d] /\ Len(setup.plan[c]) = Len(setup.ports)
  /\ \A c \in Clients : \A n \in DOMAIN setup.plan[c] : \A k \in DOMAIN setup.plan[c][n] :
       setup.plan[c][n][k].nodes \in 1 .. MaxNumOfNode
  /\ setup.mayFail = {} /\ ~setup.serverMayFail

\* When nothing is wrong every client gets through its whole plan.
EveryTestIsRun ==
  Smooth => <>[](outcome = "ok" /\ \A c \in Clients :
                   cEntry[c] = Len(setup.plan[c]) /\ test[c] > Len(Plan(c)))
=============================================================================
