-------------------------- MODULE YcsbTesterProofs --------------------------
(***************************************************************************)
(* Proofs about YcsbTester, for every number of clients, whatever their    *)
(* configurations say and whatever fails: the types, the barrier of a      *)
(* round, and the nodes of a test case.                                    *)
(***************************************************************************)

EXTENDS YcsbTester, FiniteSetTheorems, SequenceTheorems, TLAPS

\* While nodes are spawned the one that comes next is asked for, and whoever has been
\* accepted has said how many there are.
LoopsInRange ==
  /\ sPc = "spawn" => i < numOfNode
  /\ total = 0 => DOMAIN connArr = {}

TypeInv == TypeOK /\ LoopsInRange

\* What a step on the network does to the types of its variables.
LEMMA SendType ==
  ASSUME NetTypeOK, NEW c \in Clients, NEW msg \in Answers, Send(c, msg)
  PROVE  /\ toClient' \in [Clients -> Seq(Answers)]
         /\ conn' \in [Clients -> Connections]
<1>1. CASE conn[c] = "open"
  <2>1. Append(toClient[c], msg) \in Seq(Answers)
    BY DEF NetTypeOK
  <2> QED BY <1>1, <2>1 DEF NetTypeOK, Send
<1>2. CASE conn[c] = "closed"
  BY <1>2 DEF NetTypeOK, Send, Connections
<1> QED BY <1>1, <1>2 DEF Send

\* What the server reads is a message, and messages are left in the queues.
LEMMA RecvType ==
  ASSUME NetTypeOK, NEW c \in Clients, Recv(c)
  PROVE  toServer' \in [Clients -> Seq(Messages)] /\ Received(c) \in Messages
BY DEF NetTypeOK, Recv, CanRecv, Received

\* What a client sends are messages.
LEMMA ClientSendType ==
  ASSUME NetTypeOK, NEW c \in Clients, NEW msgs \in Seq(Messages), ClientSend(c, msgs)
  PROVE  toServer' \in [Clients -> Seq(Messages)]
BY DEF NetTypeOK, ClientSend

\* What a client reads is an answer, and answers are left in the queues.
LEMMA ClientRecvType ==
  ASSUME NetTypeOK, NEW c \in Clients, ClientRecv(c)
  PROVE  toClient' \in [Clients -> Seq(Answers)] /\ Head(toClient[c]) \in Answers
BY DEF NetTypeOK, ClientRecv

\* Closing a connection leaves it in one of the states of a connection.
LEMMA CloseType ==
  ASSUME NetTypeOK, NEW c \in Clients, CloseConn(c)
  PROVE  conn' \in [Clients -> Connections]
BY DEF NetTypeOK, CloseConn, Connections

\* The configurations of a benchmark that runs.
LEMMA SetupType ==
  ASSUME setup \in Setups
  PROVE  /\ setup.idx \in [Clients -> Nat] /\ setup.total \in [Clients -> Nat]
         /\ setup.ports \in Seq(Nat)
         /\ \A c \in Clients : /\ Len(setup.plan[c]) \in Nat \ {0}
                               /\ \A n \in 1 .. Len(setup.plan[c]) :
                                    setup.plan[c][n] \in Seq([nodes : Nat, rounds : Nat])
BY SetupAssumption

\* A benchmark starts with the types it keeps.
LEMMA InitTypeInv == Init => TypeInv
<1> SUFFICES ASSUME Init PROVE TypeInv
  OBVIOUS
<1>1. setup \in Setups
  BY DEF Init
<1>2. ServerTypeOK
  <2>1. entry \in 0 .. Len(setup.ports)
    BY <1>1, SetupType DEF Init
  <2>2. IsInjective(connArr) /\ DOMAIN connArr \subseteq Nat /\ Range(connArr) \subseteq Clients
    <3>1. DOMAIN connArr = {}
      BY DEF Init
    <3> QED BY <3>1 DEF IsInjective, Range
  <2>3. /\ sPc = "bind" /\ outcome = "none" /\ total \in Nat /\ i \in Nat
        /\ numOfNode \in 0 .. MaxNumOfNode /\ recording \in BOOLEAN
        /\ running \subseteq NodeIds(MaxNumOfNode) /\ procObjs \subseteq NodeIds(MaxNumOfNode)
    <3>1. running = {} /\ procObjs = {} /\ recording = FALSE
      BY DEF Init
    <3>2. total = 0 /\ i = 0 /\ numOfNode = 0 /\ sPc = "bind" /\ outcome = "none"
      BY DEF Init
    <3>3. 0 \in 0 .. MaxNumOfNode
      BY MaxNumOfNodeAssumption DEF MaxNumOfNodeAssumption
    <3> QED BY <3>1, <3>2, <3>3
  <2> QED BY <1>1, <2>1, <2>2, <2>3 DEF ServerTypeOK
<1>3. NetTypeOK
  BY DEF Init, NetTypeOK, Connections
<1>4. ClientTypeOK
  BY <1>1, SetupType DEF Init, ClientTypeOK
<1> QED BY <1>2, <1>3, <1>4 DEF Init, TypeInv, TypeOK, LoopsInRange

\* The server ends wherever it is, with nothing but its nodes changed.
LEMMA ServerExitType ==
  ASSUME ServerTypeOK, LoopsInRange, NEW how \in {"ok", "error", "spawn"}, ServerExit(how)
  PROVE  ServerTypeOK' /\ LoopsInRange'
BY DEF ServerTypeOK, LoopsInRange, ServerExit

\* It goes on in another place.
LEMMA GotoType ==
  ASSUME ServerTypeOK, LoopsInRange,
         NEW pc \in {"accept", "listen", "numOfNode", "ready", "start", "proceed", "end",
                     "reply", "bind"},
         NEW n \in Nat, ServerGoto(pc, n), UNCHANGED <<outcome, connArr, total, numOfNode>>,
         running' \subseteq running, procObjs' \subseteq procObjs, recording' \in BOOLEAN
  PROVE  ServerTypeOK' /\ LoopsInRange'
BY DEF ServerTypeOK, LoopsInRange, ServerGoto

\* Each side leaves the other's variables alone.
LEMMA ClientFrame ==
  ASSUME ClientTypeOK, UNCHANGED <<setup, clientVars>>
  PROVE  ClientTypeOK'
BY DEF ClientTypeOK, clientVars

\* The server's types are kept where only nodes are ended.
LEMMA ServerFrame ==
  ASSUME ServerTypeOK, LoopsInRange, UNCHANGED <<setup, serverVars>>, running' \subseteq running
  PROVE  ServerTypeOK' /\ LoopsInRange'
BY DEF ServerTypeOK, LoopsInRange, serverVars

\* The network's types are kept where nothing is sent.
LEMMA NetFrame == ASSUME NetTypeOK, UNCHANGED netVars PROVE NetTypeOK'
BY DEF NetTypeOK, netVars

----------------------------------------------------------------------------
(* The server's steps *)

\* Going on to the next entry keeps the types.
LEMMA BindNextType == TypeInv /\ BindNext => TypeInv'
<1> SUFFICES ASSUME TypeInv, BindNext PROVE TypeInv'
  OBVIOUS
<1> USE DEF TypeInv, TypeOK
<1>1. ClientTypeOK'
  <2>1. UNCHANGED setup
    BY DEF BindNext, NextEntry, ServerExit
  <2> QED BY <2>1, ClientFrame DEF BindNext
<1>2. CASE entry < Len(setup.ports) /\ NextEntry
  <2>1. entry' \in 0 .. Len(setup.ports)
    BY <1>2, SetupType DEF NextEntry, ServerTypeOK
  <2>2. IsInjective(connArr') /\ DOMAIN connArr' = {} /\ Range(connArr') = {}
    BY <1>2 DEF NextEntry, IsInjective, Range
  <2>3. ServerTypeOK' /\ LoopsInRange'
    BY <1>2, <2>1, <2>2 DEF NextEntry, ServerTypeOK, LoopsInRange
  <2>4. conn' \in [Clients -> Connections]
    BY <1>2 DEF NextEntry, Connections, NetTypeOK
  <2> QED BY <1>1, <2>3, <2>4 DEF NetTypeOK, BindNext
<1>3. ASSUME NEW how \in {"ok", "error"}, ServerExit(how), UNCHANGED conn PROVE TypeInv'
  BY <1>1, <1>3, ServerExitType DEF NetTypeOK, BindNext
<1> QED BY <1>2, <1>3 DEF BindNext

\* Accepting a client keeps the types.
LEMMA AcceptClientType == ASSUME TypeInv, NEW c \in Clients, AcceptClient(c) PROVE TypeInv'
<1> USE DEF TypeInv, TypeOK
<1>1. ClientTypeOK'
  <2>1. UNCHANGED setup
    BY DEF AcceptClient, ServerGoto, ServerExit
  <2> QED BY <2>1, ClientFrame DEF AcceptClient
<1>2. CASE ServerExit("error") /\ UNCHANGED conn
  BY <1>1, <1>2, ServerExitType DEF NetTypeOK, AcceptClient
<1>3. CASE /\ Waiting(c) /\ IndexAccepted(c)
           /\ total' = TotalClient(c)
           /\ connArr' = [k \in DOMAIN connArr \cup {ClientIdx(c)} |->
                            IF k = ClientIdx(c) THEN c ELSE connArr[k]]
           /\ (IF Cardinality(DOMAIN connArr') < total'
                 THEN ServerGoto("accept", 0) /\ UNCHANGED conn
                 ELSE /\ ServerGoto("listen", 0)
                      /\ conn' = [d \in Clients |-> IF conn[d] = "old" THEN "dropped" ELSE conn[d]])
           /\ UNCHANGED <<outcome, numOfNode, procObjs, running, recording>>
  <2>1. ClientIdx(c) \in Nat /\ TotalClient(c) \in Nat \ {0}
    BY <1>3, SetupType DEF IndexAccepted, ClientIdx, TotalClient, ServerTypeOK
  <2>2. ClientIdx(c) \notin DOMAIN connArr
    BY <1>3 DEF IndexAccepted, LoopsInRange
  <2>3. IsInjective(connArr')
    BY <1>3, <2>2 DEF Waiting, ServerTypeOK, IsInjective
  <2>4. DOMAIN connArr' \subseteq Nat /\ Range(connArr') \subseteq Clients
    BY <1>3, <2>1 DEF ServerTypeOK, Range
  <2>5. sPc' \in {"accept", "listen"} /\ i' = 0 /\ UNCHANGED <<setup, entry>>
    BY <1>3 DEF ServerGoto
  <2>6. ServerTypeOK' /\ LoopsInRange'
    BY <1>3, <2>1, <2>3, <2>4, <2>5 DEF ServerTypeOK, LoopsInRange
  <2>7. conn' \in [Clients -> Connections]
    BY <1>3 DEF NetTypeOK, Connections
  <2> QED BY <1>1, <2>6, <2>7 DEF NetTypeOK, AcceptClient
<1> QED BY <1>2, <1>3 DEF AcceptClient

\* Waiting for a test case keeps the types.
LEMMA ListenType == ASSUME TypeInv, NEW c \in Clients, Listen(c) PROVE TypeInv'
<1> USE DEF TypeInv, TypeOK
<1>1. PICK pc \in {"numOfNode", "bind"} : ServerGoto(pc, 0)
  BY DEF Listen
<1>2. ServerTypeOK' /\ LoopsInRange'
  BY <1>1, GotoType DEF Listen, ServerTypeOK
<1>3. NetTypeOK' /\ ClientTypeOK'
  BY <1>1, RecvType, ClientFrame DEF Listen, NetTypeOK, ServerGoto
<1> QED BY <1>2, <1>3

\* Reading the number of nodes keeps the types.
LEMMA RecvNumOfNodeType == ASSUME TypeInv, NEW c \in Clients, RecvNumOfNode(c) PROVE TypeInv'
<1> USE DEF TypeInv, TypeOK
<1>1. toServer' \in [Clients -> Seq(Messages)]
  BY RecvType DEF RecvNumOfNode
<1>2. CASE /\ Received(c).val \in 1 .. MaxNumOfNode
           /\ Send(c, "OK")
           /\ numOfNode' = Received(c).val
           /\ ServerGoto("spawn", 0)
           /\ UNCHANGED <<outcome, connArr, total, procObjs, running, recording>>
  <2>1. NetTypeOK'
    BY <1>1, <1>2, SendType DEF NetTypeOK, Answers
  <2>2. numOfNode' \in 0 .. MaxNumOfNode /\ 0 < numOfNode'
    BY <1>2, MaxNumOfNodeAssumption
  <2>3. ServerTypeOK' /\ LoopsInRange'
    BY <1>2, <2>2 DEF ServerTypeOK, LoopsInRange, ServerGoto
  <2> QED BY <1>2, <2>1, <2>3, ClientFrame DEF RecvNumOfNode, ServerGoto
<1>3. CASE Send(c, "Err") /\ ServerExit("error")
  <2>1. NetTypeOK'
    BY <1>1, <1>3, SendType DEF NetTypeOK, Answers
  <2>2. UNCHANGED <<setup, clientVars>>
    BY <1>3 DEF ServerExit, RecvNumOfNode
  <2> QED BY <1>3, <2>1, <2>2, ServerExitType, ClientFrame
<1> QED BY <1>2, <1>3 DEF RecvNumOfNode

\* Spawning a node keeps the types.
LEMMA SpawnNodeType == TypeInv /\ SpawnNode => TypeInv'
<1> SUFFICES ASSUME TypeInv, SpawnNode PROVE TypeInv'
  OBVIOUS
<1> USE DEF TypeInv, TypeOK
<1>1. i \in NodeIds(numOfNode) /\ numOfNode \in 1 .. MaxNumOfNode
  BY MaxNumOfNodeAssumption DEF SpawnNode, LoopsInRange, ServerTypeOK, NodeIds
<1>2. NodeIds(numOfNode) \subseteq NodeIds(MaxNumOfNode)
  BY <1>1, MaxNumOfNodeAssumption DEF NodeIds
<1>3. running' \subseteq NodeIds(MaxNumOfNode)
  BY <1>1, <1>2 DEF SpawnNode, ServerTypeOK
<1>4. ServerTypeOK' /\ LoopsInRange'
  <2>1. CASE i < numOfNode - 1
    BY <1>3, <2>1 DEF SpawnNode, ServerGoto, ServerTypeOK, LoopsInRange
  <2>2. CASE ~(i < numOfNode - 1)
    BY <1>2, <1>3, <2>2 DEF SpawnNode, ServerGoto, ServerTypeOK, LoopsInRange
  <2> QED BY <2>1, <2>2
<1>5. UNCHANGED <<setup, netVars, clientVars>>
  BY DEF SpawnNode, ServerGoto
<1> QED BY <1>4, <1>5, NetFrame, ClientFrame

\* The steps that read from one client, and those that write to one.
LEMMA CollectType ==
  ASSUME TypeInv, NEW c \in Clients, CollectStart(c) \/ CollectEnd(c) PROVE TypeInv'
<1> USE DEF TypeInv, TypeOK
<1>1. toServer' \in [Clients -> Seq(Messages)] /\ NetTypeOK'
  BY RecvType DEF CollectStart, CollectEnd, NetTypeOK
<1>2. UNCHANGED <<setup, clientVars>>
  BY DEF CollectStart, CollectEnd, StartCollected, EndTestCase, ServerGoto, ServerExit
<1>3. CASE ServerExit("error")
  BY <1>1, <1>2, <1>3, ServerExitType, ClientFrame
<1>4. CASE EndTestCase
  <2>1. ServerTypeOK' /\ LoopsInRange'
    BY <1>4, GotoType DEF EndTestCase, ServerTypeOK
  <2> QED BY <1>1, <1>2, <2>1, ClientFrame
<1>5. ASSUME NEW pc \in {"proceed", "start", "reply", "end"}, NEW n \in {0, i + 1},
             ServerGoto(pc, n), recording' \in BOOLEAN,
             UNCHANGED <<outcome, connArr, total, numOfNode, running, procObjs>>
      PROVE  TypeInv'
  <2>1. n \in Nat
    BY DEF ServerTypeOK
  <2>2. ServerTypeOK' /\ LoopsInRange'
    BY <1>5, <2>1, GotoType
  <2> QED BY <1>1, <1>2, <2>2, ClientFrame
<1>6. ASSUME CollectStart(c) PROVE TypeInv'
  <2>1. CASE Received(c).kind = "Start"
    <3>1. StartCollected(Last, Last)
      BY <1>6, <2>1 DEF CollectStart
    <3>2. recording' \in BOOLEAN
      BY <3>1 DEF StartCollected, Last
    <3>3. CASE Last
      BY <3>1, <3>2, <3>3, <1>5 DEF StartCollected
    <3>4. CASE ~Last
      BY <3>1, <3>2, <3>4, <1>5 DEF StartCollected
    <3> QED BY <3>3, <3>4
  <2> QED BY <1>4, <1>6, <2>1 DEF CollectStart
<1>7. ASSUME CollectEnd(c) PROVE TypeInv'
  <2>1. CASE /\ (IF Last THEN ServerGoto("reply", 0) ELSE ServerGoto("end", i + 1))
             /\ recording' = FALSE
             /\ UNCHANGED <<outcome, connArr, total, numOfNode, procObjs, running>>
    <3>1. CASE Last
      BY <2>1, <3>1, <1>5
    <3>2. CASE ~Last
      BY <2>1, <3>2, <1>5
    <3> QED BY <3>1, <3>2
  <2> QED BY <1>3, <1>7, <2>1 DEF CollectEnd
<1> QED BY <1>6, <1>7

\* The server's three answers in a round keep the types.
LEMMA AnswerType ==
  ASSUME TypeInv, NEW c \in Clients, SignalReady(c) \/ LetProceed(c) \/ SendRecord(c)
  PROVE  TypeInv'
<1> USE DEF TypeInv, TypeOK
<1>1. NetTypeOK'
  BY SendType DEF SignalReady, LetProceed, SendRecord, NetTypeOK, Answers
<1>2. UNCHANGED <<setup, clientVars>>
  BY DEF SignalReady, LetProceed, SendRecord, ServerGoto
<1>3. PICK pc \in {"start", "ready", "end", "proceed", "reply"}, n \in {0, i + 1} : ServerGoto(pc, n)
  BY DEF SignalReady, LetProceed, SendRecord
<1>4. n \in Nat
  BY DEF ServerTypeOK
<1>5. ServerTypeOK' /\ LoopsInRange'
  BY <1>3, <1>4, GotoType DEF SignalReady, LetProceed, SendRecord, ServerTypeOK
<1> QED BY <1>1, <1>2, <1>5, ClientFrame

\* The server's failures and those of its nodes keep the types.
LEMMA ServerFailsType ==
  ASSUME TypeInv, \/ SpawnFails \/ ConfigureFails \/ NodeCrashes
                  \/ \E c \in Clients : ServerRaises(c)
  PROVE  TypeInv'
<1> USE DEF TypeInv, TypeOK
<1>1. UNCHANGED <<setup, netVars, clientVars>>
  BY DEF SpawnFails, ConfigureFails, NodeCrashes, ServerRaises, ServerExit
<1>2. ServerTypeOK' /\ LoopsInRange'
  <2>1. CASE NodeCrashes
    BY <2>1, ServerFrame DEF NodeCrashes
  <2>2. CASE ~NodeCrashes
    BY <2>2, ServerExitType DEF SpawnFails, ConfigureFails, ServerRaises
  <2> QED BY <2>1, <2>2
<1> QED BY <1>1, <1>2, NetFrame, ClientFrame

----------------------------------------------------------------------------
(* The clients' steps *)

\* Where a client stands in its plan.
LEMMA CurrentTestType ==
  ASSUME TypeInv, NEW c \in Clients, test[c] <= Len(Plan(c))
  PROVE  CurrentTest(c) \in [nodes : Nat, rounds : Nat]
<1>1. cEntry[c] \in 1 .. Len(setup.plan[c]) /\ setup \in Setups
  BY SetupType DEF TypeInv, TypeOK, ServerTypeOK, ClientTypeOK
<1>2. Plan(c) \in Seq([nodes : Nat, rounds : Nat])
  BY <1>1, SetupType DEF Plan
<1>3. test[c] \in 1 .. Len(Plan(c))
  BY <1>2 DEF TypeInv, TypeOK, ClientTypeOK
<1> HIDE DEF Plan
<1>4. \A T : \A s \in Seq(T) : \A n \in 1 .. Len(s) : s[n] \in T
  OBVIOUS
<1> QED BY <1>2, <1>3, <1>4 DEF CurrentTest

\* The steps of a client keep the types.
LEMMA ClientType ==
  ASSUME TypeInv, NEW c \in Clients, ClientNext(c) \/ BenchmarkFails(c) \/ RecordFails(c) PROVE TypeInv'
<1> USE DEF TypeInv, TypeOK
<1>1. UNCHANGED <<setup, serverVars, running>>
  BY DEF ClientNext, Connect, ConnectTooSoon, BeginTest, RecvAnswer, WrongAnswer, SendStart,
         SendEnd, RecvRecord, SendDone, NextClientEntry, ClientRaises, BenchmarkFails, RecordFails,
         ClientExit, ClientGoto
<1>2. ServerTypeOK' /\ LoopsInRange'
  BY <1>1, ServerFrame
<1>3. ASSUME NEW how \in {"done", "failed"}, ClientExit(c, how),
             toServer' \in [Clients -> Seq(Messages)], toClient' \in [Clients -> Seq(Answers)]
      PROVE  TypeInv'
  <2>1. ClientTypeOK'
    BY <1>3 DEF ClientExit, ClientGoto, ClientTypeOK
  <2>2. NetTypeOK'
    BY <1>3, CloseType DEF ClientExit, NetTypeOK
  <2> QED BY <1>2, <2>1, <2>2
<1>4. ASSUME NEW pc \in {"test", "queued", "ok", "ready", "start", "proceed", "ycsb", "record"},
             ClientGoto(c, pc), test' \in [Clients -> Nat \ {0}], round' \in [Clients -> Nat]
      PROVE  ClientTypeOK'
  BY <1>4 DEF ClientGoto, ClientTypeOK
<1>5. ASSUME Connect(c) PROVE TypeInv'
  <2>1. NetTypeOK'
    BY <1>5 DEF Connect, NetTypeOK, Connections
  <2>2. ClientTypeOK'
    BY <1>5, <1>4 DEF Connect, ClientTypeOK
  <2> QED BY <1>2, <2>1, <2>2
<1>6. ASSUME ConnectTooSoon(c) PROVE TypeInv'
  BY <1>2, <1>4, <1>6, NetFrame DEF ConnectTooSoon, ClientTypeOK
<1>7. ASSUME BeginTest(c) PROVE TypeInv'
  <2>1. CurrentTest(c).nodes \in Nat
    BY <1>7, CurrentTestType DEF BeginTest
  <2>2. <<Say("Test"), Num(CurrentTest(c).nodes)>> \in Seq(Messages)
    BY <2>1 DEF Say, Num, Messages
  <2>3. NetTypeOK'
    BY <1>7, <2>2, ClientSendType DEF BeginTest, NetTypeOK
  <2>4. ClientTypeOK'
    BY <1>7, <1>4 DEF BeginTest, ClientTypeOK
  <2> QED BY <1>2, <2>3, <2>4
<1>8. ASSUME RecvAnswer(c) PROVE TypeInv'
  <2>1. Following[cPc[c]] \in {"ready", "start", "ycsb"}
    BY <1>8 DEF RecvAnswer, Expected, Following
  <2>2. ClientTypeOK'
    BY <1>8, <2>1, <1>4 DEF RecvAnswer, ClientTypeOK
  <2>3. NetTypeOK'
    BY <1>8, ClientRecvType DEF RecvAnswer, NetTypeOK
  <2> QED BY <1>2, <2>2, <2>3
<1>9. ASSUME SendStart(c) \/ SendEnd(c) PROVE TypeInv'
  <2>1. <<Say("Start")>> \in Seq(Messages) /\ <<Say("End")>> \in Seq(Messages)
    BY DEF Say, Messages
  <2>2. NetTypeOK'
    BY <1>9, <2>1, ClientSendType DEF SendStart, SendEnd, NetTypeOK
  <2>3. ClientTypeOK'
    BY <1>9, <1>4 DEF SendStart, SendEnd, ClientTypeOK
  <2> QED BY <1>2, <2>2, <2>3
<1>10. ASSUME RecvRecord(c) PROVE TypeInv'
  <2>1. <<Say("Finished")>> \in Seq(Messages)
    BY DEF Say, Messages
  <2>2. NetTypeOK'
    BY <1>10, <2>1, ClientSendType, ClientRecvType DEF RecvRecord, NetTypeOK
  <2>3. test' \in [Clients -> Nat \ {0}] /\ round' \in [Clients -> Nat]
    <3>1. CASE round[c] < CurrentTest(c).rounds
      <4>1. round' = [round EXCEPT ![c] = @ + 1] /\ test' = test
        BY <1>10, <3>1 DEF RecvRecord
      <4>2. round[c] + 1 \in Nat
        BY DEF ClientTypeOK
      <4> QED BY <4>1, <4>2 DEF ClientTypeOK
    <3>2. CASE ~(round[c] < CurrentTest(c).rounds)
      <4>1. round' = [round EXCEPT ![c] = 0] /\ test' = [test EXCEPT ![c] = @ + 1]
        BY <1>10, <3>2 DEF RecvRecord
      <4>2. test[c] + 1 \in Nat \ {0}
        BY DEF ClientTypeOK
      <4> QED BY <4>1, <4>2 DEF ClientTypeOK
    <3> QED BY <3>1, <3>2
  <2>4. ClientTypeOK'
    BY <1>10, <2>3, <1>4 DEF RecvRecord
  <2> QED BY <1>2, <2>2, <2>4
<1>11. ASSUME SendDone(c) PROVE TypeInv'
  <2>1. <<Say("Done")>> \in Seq(Messages)
    BY DEF Say, Messages
  <2>2. toServer' \in [Clients -> Seq(Messages)]
    BY <1>11, <2>1, ClientSendType DEF SendDone
  <2>3. CASE cEntry[c] < Len(setup.plan[c]) /\ NextClientEntry(c)
    <3>1. cEntry[c] + 1 \in Nat \ {0} /\ cEntry[c] + 1 <= Len(setup.plan[c])
      BY <2>3, SetupType DEF ClientTypeOK, ServerTypeOK
    <3>2. ClientTypeOK'
      BY <2>3, <3>1 DEF NextClientEntry, ClientTypeOK
    <3>3. NetTypeOK'
      BY <1>11, <2>2, <2>3, CloseType DEF SendDone, NextClientEntry, NetTypeOK
    <3> QED BY <1>2, <3>2, <3>3
  <2> QED BY <1>3, <1>11, <2>2, <2>3 DEF SendDone, NetTypeOK
<1>12. ASSUME ClientRaises(c) \/ BenchmarkFails(c) PROVE TypeInv'
  BY <1>3, <1>12 DEF ClientRaises, BenchmarkFails, NetTypeOK
<1>13. ASSUME WrongAnswer(c) \/ RecordFails(c) PROVE TypeInv'
  <2>1. toClient' \in [Clients -> Seq(Answers)]
    BY <1>13, ClientRecvType DEF WrongAnswer, RecordFails, NetTypeOK
  <2> QED BY <1>3, <1>13, <2>1 DEF WrongAnswer, RecordFails, NetTypeOK
<1> QED BY <1>5, <1>6, <1>7, <1>8, <1>9, <1>10, <1>11, <1>12, <1>13 DEF ClientNext

\* Every step keeps the types.
LEMMA NextTypeInv == TypeInv /\ [Next]_vars => TypeInv'
<1> SUFFICES ASSUME TypeInv, [Next]_vars PROVE TypeInv'
  OBVIOUS
<1>1. CASE UNCHANGED vars
  BY <1>1 DEF vars, serverVars, netVars, clientVars, TypeInv, TypeOK, ServerTypeOK, NetTypeOK,
              ClientTypeOK, LoopsInRange
<1>2. CASE ServerNext
  BY <1>2, BindNextType, AcceptClientType, ListenType, RecvNumOfNodeType, SpawnNodeType,
     CollectType, AnswerType, ServerFailsType DEF ServerNext
<1>3. CASE Faults \/ \E c \in Clients : ClientNext(c)
  BY <1>3, ServerFailsType, ClientType DEF Faults
<1> QED BY <1>1, <1>2, <1>3 DEF Next

\* The types of all variables, for every number of clients and every configuration: the
\* server never holds more nodes than it has processors, one client has one index, and
\* nobody leaves the lists of its configuration.
THEOREM TypeCorrect == Spec => []TypeOK
<1>1. TypeInv => TypeOK
  BY DEF TypeInv
<1> QED BY <1>1, InitTypeInv, NextTypeInv, PTL DEF Spec

----------------------------------------------------------------------------
(* The nodes *)

\* Whose the nodes are, wherever the server is: nobody's while RunTestProgram starts
\* them, in the list that is killed afterwards, and there are none in between.
NodesHeld ==
  /\ sPc \in {"bind", "accept", "listen", "numOfNode"} => running = {} /\ procObjs = {}
  /\ sPc = "spawn" => running \subseteq NodeIds(i) /\ procObjs = {}
  /\ sPc \in {"ready", "start", "proceed", "end", "reply"} => running \subseteq procObjs
  /\ sPc = "exited" /\ outcome # "spawn" => running = {}

\* Every step keeps the nodes held.
LEMMA NodesNext == TypeInv /\ NodesHeld /\ [Next]_vars => NodesHeld'
<1> SUFFICES ASSUME TypeInv, NodesHeld, [Next]_vars PROVE NodesHeld'
  OBVIOUS
<1>1. ASSUME UNCHANGED <<sPc, i, outcome, procObjs>>, running' \subseteq running PROVE NodesHeld'
  BY <1>1 DEF NodesHeld
<1>2. ASSUME NEW how \in {"ok", "error"}, ServerExit(how), sPc # "spawn", sPc # "exited"
      PROVE  NodesHeld'
  <2>1. running \subseteq procObjs
    BY <1>2 DEF NodesHeld, TypeInv, TypeOK, ServerTypeOK
  <2> QED BY <1>2, <2>1 DEF ServerExit, NodesHeld
<1>3. CASE BindNext
  BY <1>2, <1>3 DEF BindNext, NextEntry, NodesHeld
<1>4. ASSUME NEW c \in Clients, AcceptClient(c) PROVE NodesHeld'
  <2>1. CASE ServerExit("error")
    BY <1>2, <1>4, <2>1 DEF AcceptClient
  <2>2. CASE ~ServerExit("error")
    BY <1>4, <2>2 DEF AcceptClient, ServerGoto, NodesHeld
  <2> QED BY <2>1, <2>2
<1>5. ASSUME NEW c \in Clients, Listen(c) PROVE NodesHeld'
  BY <1>5 DEF Listen, ServerGoto, NodesHeld
<1>6. ASSUME NEW c \in Clients, RecvNumOfNode(c) PROVE NodesHeld'
  <2>1. CASE ServerExit("error")
    BY <1>2, <1>6, <2>1 DEF RecvNumOfNode
  <2>2. CASE ~ServerExit("error")
    BY <1>6, <2>2 DEF RecvNumOfNode, ServerGoto, NodesHeld
  <2> QED BY <2>1, <2>2
<1>7. CASE SpawnNode
  <2>1. i \in Nat /\ numOfNode \in Nat /\ i < numOfNode
    BY <1>7, MaxNumOfNodeAssumption
       DEF SpawnNode, TypeInv, TypeOK, ServerTypeOK, LoopsInRange
  <2>2. running' \subseteq NodeIds(i + 1)
    BY <1>7, <2>1 DEF SpawnNode, NodesHeld, NodeIds
  <2>3. CASE i < numOfNode - 1
    BY <1>7, <2>2, <2>3 DEF SpawnNode, ServerGoto, NodesHeld
  <2>4. CASE ~(i < numOfNode - 1)
    <3>1. numOfNode = i + 1
      BY <2>1, <2>4
    <3> QED BY <1>7, <2>2, <2>4, <3>1 DEF SpawnNode, ServerGoto, NodesHeld
  <2> QED BY <2>3, <2>4
<1>8. ASSUME NEW c \in Clients, SignalReady(c) \/ LetProceed(c) \/ SendRecord(c) PROVE NodesHeld'
  BY <1>8 DEF SignalReady, LetProceed, SendRecord, Turn, ServerGoto, NodesHeld
<1>9. ASSUME NEW c \in Clients, CollectStart(c) PROVE NodesHeld'
  <2>1. CASE EndTestCase
    BY <1>9, <2>1 DEF CollectStart, Turn, EndTestCase, ServerGoto, NodesHeld
  <2>2. CASE ~EndTestCase
    BY <1>9, <2>2 DEF CollectStart, Turn, StartCollected, ServerGoto, NodesHeld
  <2> QED BY <2>1, <2>2
<1>10. ASSUME NEW c \in Clients, CollectEnd(c) PROVE NodesHeld'
  <2>1. CASE ServerExit("error")
    BY <1>2, <1>10, <2>1 DEF CollectEnd, Turn
  <2>2. CASE ~ServerExit("error")
    BY <1>10, <2>2 DEF CollectEnd, Turn, ServerGoto, NodesHeld
  <2> QED BY <2>1, <2>2
<1>11. CASE SpawnFails
  BY <1>11 DEF SpawnFails, ServerExit, NodesHeld
<1>12. CASE ConfigureFails \/ \E c \in Clients : ServerRaises(c)
  BY <1>2, <1>12 DEF ConfigureFails, ServerRaises, Turn
<1>13. CASE NodeCrashes
  BY <1>1, <1>13 DEF NodeCrashes, serverVars
<1>14. ASSUME NEW c \in Clients, ClientNext(c) \/ BenchmarkFails(c) \/ RecordFails(c) PROVE NodesHeld'
  BY <1>1, <1>14
     DEF ClientNext, Connect, ConnectTooSoon, BeginTest, RecvAnswer, WrongAnswer, SendStart,
         SendEnd, RecvRecord, SendDone, NextClientEntry, ClientRaises, BenchmarkFails, RecordFails,
         ClientExit, serverVars
<1>15. CASE UNCHANGED vars
  BY <1>1, <1>15 DEF vars, serverVars
<1> QED
  BY <1>3, <1>4, <1>5, <1>6, <1>7, <1>8, <1>9, <1>10, <1>11, <1>12, <1>13, <1>14, <1>15
     DEF Next, ServerNext, Faults

\* For every configuration and whatever fails, no DHT node outlives its test case or the
\* server, unless RunTestProgram itself did not return.
THEOREM NodesAreKilled == Spec => []NodesKilled
<1>1. Init => NodesHeld
  BY DEF Init, NodesHeld
<1>2. NodesHeld => NodesKilled
  BY DEF NodesHeld, NodesKilled
<1> QED BY <1>1, <1>2, InitTypeInv, NextTypeInv, NodesNext, PTL DEF Spec

----------------------------------------------------------------------------
(***************************************************************************)
(* The barrier of a round.                                                 *)
(*                                                                         *)
(* Server and client are in step message by message: where the server is   *)
(* in its loops tells at which stage of the round each accepted client is, *)
(* what is in flight included (View, InStage).  Clients that count their   *)
(* rounds differently are held together by what they have been told        *)
(* (Told), and leave when they are told of a test case too soon.           *)
(***************************************************************************)

InRound == {"start", "proceed", "ycsb", "record"}
Active == {"test", "ok", "ready"} \cup InRound
Away(c) == cPc[c] \notin Active
Accepted(c) == c \in Range(connArr)

ToldReady(c) == toClient[c] \in {<<"R">>, <<"OK", "R">>, <<"R", "Proceed">>, <<"Record", "R">>}
ToldRecord(c) == toClient[c] \in {<<"Record">>, <<"Record", "R">>}

----------------------------------------------------------------------------
(* A client by itself *)

\* Where it is in its plan.
Position(c) ==
  /\ cPc[c] \in {"connect", "queued"} => test[c] = 1 /\ round[c] = 0
  /\ cPc[c] = "test" => test[c] <= Len(Plan(c)) + 1 /\ round[c] = 0
  /\ cPc[c] \in {"ok", "ready"} => test[c] <= Len(Plan(c)) /\ round[c] = 0
  /\ cPc[c] \in InRound => test[c] <= Len(Plan(c)) /\ round[c] <= CurrentTest(c).rounds

\* What it may have been sent and not read.  A client that counts more rounds than the
\* others is told of the next test case too soon; the master is not.
InFlight(c) ==
  /\ cPc[c] \in {"test", "ready", "start"} => toClient[c] \in {<<>>, <<"R">>}
  /\ cPc[c] = "ok" => IsMaster(c) /\ toClient[c] \in {<<>>, <<"OK">>, <<"OK", "R">>, <<"Err">>}
  /\ cPc[c] = "proceed" => toClient[c] \in {<<>>, <<"R">>, <<"Proceed">>, <<"R", "Proceed">>}
  /\ cPc[c] = "ycsb" => toClient[c] = <<>>
  /\ cPc[c] = "record" => toClient[c] \in {<<>>, <<"Record">>, <<"Record", "R">>}
  /\ IsMaster(c) /\ cPc[c] \in InRound \cup {"test"} => ~ToldReady(c)

\* Its connection is one of the server's current entry, or the server has left it.
Connected(c) ==
  /\ conn[c] = "open" => cPc[c] \in Active /\ cEntry[c] = entry
  /\ cPc[c] \in Active => conn[c] \in {"open", "old", "dropped"}
  /\ Accepted(c) => conn[c] \in {"open", "closed", "reset"}
  /\ conn[c] \in {"open", "closed", "reset"} =>
       cEntry[c] >= entry /\ (cEntry[c] = entry => cPc[c] \notin {"connect", "queued"})

----------------------------------------------------------------------------
(* The stages of a client, as far as the server has come *)

Fresh(c) ==
  /\ cPc[c] \in {"test", "ok", "ready"} /\ test[c] = 1 /\ toClient[c] = <<>>
  /\ cPc[c] \in {"test", "ready"} => toServer[c] = <<>>
  /\ cPc[c] = "ok" => \E n \in Nat : toServer[c] = <<Say("Test"), Num(n)>>

\* Between the record of a round and the next Start.
Idle(c) ==
  \/ cPc[c] = "test" /\ (toServer[c] = <<>> \/ (IsMaster(c) /\ toServer[c] = <<Say("Finished")>>))
  \/ cPc[c] = "ok" /\ toServer[c] = <<>>
  \/ /\ cPc[c] = "ok" /\ toClient[c] = <<>>
     /\ \E n \in Nat : toServer[c] \in {<<Num(n)>>, <<Say("Test"), Num(n)>>,
                                         <<Say("Finished"), Say("Test"), Num(n)>>}
  \/ cPc[c] \in {"ready", "start"} /\ toServer[c] = <<>>
  \/ /\ cPc[c] = "proceed" /\ toServer[c] = <<Say("Start")>>
     /\ toClient[c] \in {<<>>, <<"R">>}
  \/ cPc[c] = "record" /\ toServer[c] = <<>> /\ toClient[c] # <<>>

Started(c) == cPc[c] = "proceed" /\ toServer[c] = <<>> /\ toClient[c] \in {<<>>, <<"R">>}

Running(c) ==
  \/ /\ cPc[c] = "proceed" /\ toServer[c] = <<>>
     /\ toClient[c] \in {<<"Proceed">>, <<"R", "Proceed">>}
  \/ cPc[c] = "ycsb" /\ toServer[c] = <<>>
  \/ cPc[c] = "record" /\ toServer[c] = <<Say("End")>> /\ toClient[c] = <<>>

Ended(c) == cPc[c] = "record" /\ toServer[c] = <<>> /\ toClient[c] = <<>>

\* The master while the server deals with its Test.
Asks(c) == cPc[c] = "ok" /\ toClient[c] = <<>> /\ \E n \in Nat : toServer[c] = <<Num(n)>>
Answered(c) ==
  /\ toServer[c] = <<>>
  /\ (cPc[c] = "ok" /\ toClient[c] = <<"OK">>) \/ (cPc[c] = "ready" /\ toClient[c] = <<>>)

\* One that has failed may have been waited for or not.
InStage(c, stage) ==
  \/ stage = "fresh" /\ (Away(c) \/ Fresh(c))
  \/ stage = "over" /\ (Away(c) \/ Idle(c) \/ Started(c))
  \/ stage = "asks" /\ Asks(c)
  \/ stage = "answered" /\ Answered(c)
  \/ stage = "settled" /\ (Away(c) \/ (Idle(c) /\ ~ToldReady(c)))
  \/ stage = "idle" /\ (Away(c) \/ Idle(c))
  \/ stage = "started" /\ (Started(c) \/ (cPc[c] = "failed" /\ toServer[c] = <<>>))
  \/ stage = "running" /\ (Running(c) \/ cPc[c] = "failed")
  \/ stage = "ended" /\ (Away(c) \/ Ended(c))

\* A test case was ended by another client after this one's Start.
Waits(c) ==
  toServer[c] = <<>> /\ (cPc[c] = "failed" \/ (cPc[c] = "proceed" /\ toClient[c] = <<>>))

\* The stage of the client with index k.
View(k) ==
  CASE sPc = "accept" -> "fresh"
    [] sPc = "bind" -> "over"
    [] sPc = "listen" -> IF Waits(connArr[0]) THEN "over" ELSE "idle"
    [] sPc = "numOfNode" -> IF k = 0 THEN "asks" ELSE "settled"
    [] sPc = "spawn" -> IF k = 0 THEN "answered" ELSE "settled"
    [] sPc = "ready" -> IF k < i THEN "idle" ELSE IF k = 0 THEN "answered" ELSE "settled"
    [] sPc = "start" -> IF k < i THEN "started" ELSE "idle"
    [] sPc = "proceed" -> IF k < i THEN "running" ELSE "started"
    [] sPc = "end" -> IF k < i THEN "ended" ELSE "running"
    [] sPc = "reply" -> IF k < i THEN "idle" ELSE "ended"

\* What a client that has closed has left unread, its Start only if it has failed.
Left(c) ==
  /\ toServer[c] \in {<<>>, <<Say("Start")>>, <<Say("Finished")>>, <<Say("Done")>>,
                      <<Say("Finished"), Say("Done")>>}
  /\ toServer[c] = <<Say("Start")>> => cPc[c] = "failed"

ClientInv(c) ==
  /\ Position(c) /\ InFlight(c) /\ Connected(c)
  /\ conn[c] = "open" /\ ~Accepted(c) => Fresh(c)
  /\ sPc # "exited" =>
       /\ conn[c] \in {"closed", "reset"} => Left(c)
       /\ Accepted(c) => InStage(c, View(ClientIdx(c)))

----------------------------------------------------------------------------
(* What holds clients together *)

\* Each is where it says it is, and the loops go over all of them.
Roster ==
  /\ \A k \in DOMAIN connArr : ClientIdx(connArr[k]) = k
  /\ DOMAIN connArr \subseteq 0 .. total - 1
  /\ sPc \notin {"bind", "accept", "exited"} =>
       DOMAIN connArr = 0 .. total - 1 /\ 0 < total /\ (sPc # "spawn" => i < total)

\* The test cases a client has been told of, and the records it was sent in the last.
TestsSeen(c) == IF cPc[c] \in InRound THEN test[c] ELSE test[c] - 1
RoundsSeen(c) ==
  CASE cPc[c] \in InRound -> round[c]
    [] cPc[c] \notin InRound /\ test[c] = 1 -> 0
    [] cPc[c] \notin InRound /\ test[c] # 1 -> Plan(c)[test[c] - 1].rounds + 1
TestsTold(c) == IF ToldReady(c) THEN TestsSeen(c) + 1 ELSE TestsSeen(c)
RoundsTold(c) ==
  IF ToldReady(c) THEN 0 ELSE IF ToldRecord(c) THEN RoundsSeen(c) + 1 ELSE RoundsSeen(c)

\* All have been told the same, but for those the loop has already told more.
Told(c, t, r) ==
  CASE sPc = "ready" /\ ClientIdx(c) < i -> TestsTold(c) = t + 1 /\ RoundsTold(c) = 0
    [] sPc = "reply" /\ ClientIdx(c) < i -> TestsTold(c) = t /\ RoundsTold(c) = r + 1
    [] OTHER -> TestsTold(c) = t /\ RoundsTold(c) = r

Agreement ==
  sPc # "exited" =>
    \E t, r \in Nat : \A c \in Range(connArr) : ~Away(c) => Told(c, t, r)

\* It runs its benchmark, or will with the next message it reads.
CanYcsb(c) == cPc[c] = "ycsb" \/ (cPc[c] = "proceed" /\ toClient[c] = <<"Proceed">>)
SamePlace(c, d) == cEntry[c] = cEntry[d] /\ test[c] = test[d] /\ round[c] = round[d]

RoundInv ==
  /\ Roster /\ Agreement
  /\ \A c \in Clients : ClientInv(c)
  /\ \A c \in Clients : sPc # "exited" /\ CanYcsb(c) => Accepted(c)
  /\ \A c, d \in Clients : CanYcsb(c) /\ CanYcsb(d) => SamePlace(c, d)

\* Nobody connects to an entry that is not its own.
PortsDiffer == \A s \in Setups : IsInjective(s.ports)

----------------------------------------------------------------------------
(* The roster *)

\* When all have been accepted their indices are all that there can be.
LEMMA AllAccepted ==
  ASSUME NEW n \in Nat, NEW S \in SUBSET (0 .. n - 1), ~(Cardinality(S) < n) PROVE S = 0 .. n - 1
<1>1. IsFiniteSet(0 .. n - 1) /\ Cardinality(0 .. n - 1) = n
  <2>1. 0 \in Int /\ n - 1 \in Int /\ (0 > n - 1 => n = 0) /\ (n - 1) - 0 + 1 = n
    OBVIOUS
  <2> DEFINE m == n - 1
  <2>2. 0 \in Int /\ m \in Int /\ (0 > m => n = 0) /\ m - 0 + 1 = n
    BY <2>1
  <2> HIDE DEF m
  <2>3. IsFiniteSet(0 .. m) /\ Cardinality(0 .. m) = IF 0 > m THEN 0 ELSE m - 0 + 1
    BY <2>2, FS_Interval, Zenon
  <2>4. Cardinality(0 .. m) = n
    BY <2>2, <2>3
  <2> QED BY <2>3, <2>4 DEF m
<1>2. Cardinality(S) <= n /\ IsFiniteSet(S)
  BY <1>1, FS_Subset
<1>3. Cardinality(S) \in Nat
  BY <1>2, FS_CardinalityType
<1>4. Cardinality(0 .. n - 1) = Cardinality(S)
  BY <1>1, <1>2, <1>3
<1> QED BY <1>1, <1>4, FS_Subset

\* Accepting a client leaves every client at its index.
LEMMA AcceptRoster == ASSUME TypeInv, Roster, NEW c \in Clients, AcceptClient(c) PROVE Roster'
<1>1. CASE ServerExit("error")
  BY <1>1 DEF ServerExit, Roster, ClientIdx
<1>2. CASE /\ IndexAccepted(c)
           /\ total' = TotalClient(c)
           /\ connArr' = [k \in DOMAIN connArr \cup {ClientIdx(c)} |->
                            IF k = ClientIdx(c) THEN c ELSE connArr[k]]
           /\ (IF Cardinality(DOMAIN connArr') < total'
                 THEN ServerGoto("accept", 0)
                 ELSE ServerGoto("listen", 0))
  <2>1. ClientIdx(c) \in Nat /\ TotalClient(c) \in Nat \ {0} /\ ClientIdx(c) < TotalClient(c)
    BY <1>2, SetupType DEF IndexAccepted, ClientIdx, TotalClient, TypeInv, TypeOK, ServerTypeOK
  <2>2. DOMAIN connArr' \subseteq 0 .. total' - 1
    BY <1>2, <2>1 DEF IndexAccepted, Roster, TypeInv, LoopsInRange
  <2>3. UNCHANGED setup
    BY <1>2 DEF ServerGoto
  <2>4. (\A k \in DOMAIN connArr : ClientIdx(connArr[k]) = k)'
    BY <1>2, <2>3 DEF Roster, ClientIdx
  <2>5. total' \in Nat \ {0}
    BY <1>2, <2>1
  <2>6. CASE Cardinality(DOMAIN connArr') < total'
    BY <1>2, <2>2, <2>4, <2>6 DEF Roster, ServerGoto
  <2>7. CASE ~(Cardinality(DOMAIN connArr') < total')
    <3>1. DOMAIN connArr' = 0 .. total' - 1
      BY <2>2, <2>5, <2>7, AllAccepted
    <3>2. sPc' = "listen" /\ i' = 0
      BY <1>2, <2>7 DEF ServerGoto
    <3> QED BY <2>4, <2>5, <3>1, <3>2 DEF Roster
  <2> QED BY <2>6, <2>7
<1> QED BY <1>1, <1>2 DEF AcceptClient

\* The loops of the server keep in range.
LEMMA NextRoster == TypeInv /\ Roster /\ [Next]_vars => Roster'
<1> SUFFICES ASSUME TypeInv, Roster, [Next]_vars PROVE Roster'
  OBVIOUS
<1>1. i \in Nat /\ total \in Nat
  BY DEF TypeInv, TypeOK, ServerTypeOK
<1>2. ASSUME UNCHANGED <<setup, connArr, total>>, sPc' \in {"exited", "bind"} PROVE Roster'
  BY <1>2 DEF Roster, ClientIdx
<1>3. ASSUME NEW pc, ServerGoto(pc, 0) \/ (ServerGoto(pc, i + 1) /\ ~Last),
             sPc \notin {"bind", "accept", "exited"}, pc \notin {"bind", "accept"}, sPc # "spawn",
             UNCHANGED <<connArr, total>>
      PROVE  Roster'
  BY <1>1, <1>3 DEF Roster, ClientIdx, ServerGoto, Last
<1>4. CASE BindNext
  <2>1. CASE NextEntry
    <3>1. DOMAIN connArr' = {}
      BY <2>1 DEF NextEntry
    <3> QED BY <2>1, <3>1 DEF NextEntry, Roster
  <2> QED BY <1>2, <1>4, <2>1 DEF BindNext, ServerExit
<1>5. ASSUME NEW c \in Clients, AcceptClient(c) PROVE Roster'
  BY <1>5, AcceptRoster
<1>6. ASSUME NEW c \in Clients, Listen(c) PROVE Roster'
  BY <1>2, <1>3, <1>6 DEF Listen, ServerGoto
<1>7. ASSUME NEW c \in Clients, RecvNumOfNode(c) PROVE Roster'
  BY <1>2, <1>3, <1>7 DEF RecvNumOfNode, ServerExit
<1>8. CASE SpawnNode
  BY <1>8 DEF SpawnNode, ServerGoto, Roster, ClientIdx
<1>9. ASSUME NEW c \in Clients, SignalReady(c) \/ LetProceed(c) \/ SendRecord(c) PROVE Roster'
  <2>1. PICK pc \in {"ready", "start", "proceed", "end", "reply"} :
          ServerGoto(pc, 0) \/ (ServerGoto(pc, i + 1) /\ ~Last)
    BY <1>9 DEF SignalReady, LetProceed, SendRecord
  <2> QED BY <1>3, <1>9, <2>1 DEF SignalReady, LetProceed, SendRecord, Turn
<1>10. ASSUME NEW c \in Clients, CollectStart(c) PROVE Roster'
  <2>1. PICK pc \in {"listen", "start", "proceed"} :
          ServerGoto(pc, 0) \/ (ServerGoto(pc, i + 1) /\ ~Last)
    BY <1>10 DEF CollectStart, StartCollected, EndTestCase
  <2>2. UNCHANGED <<connArr, total>>
    BY <1>10 DEF CollectStart, StartCollected, EndTestCase
  <2> QED BY <1>3, <1>10, <2>1, <2>2 DEF CollectStart, Turn
<1>11. ASSUME NEW c \in Clients, CollectEnd(c) PROVE Roster'
  <2>1. CASE ServerExit("error")
    BY <1>2, <2>1 DEF ServerExit
  <2>2. CASE ~ServerExit("error")
    <3>1. PICK pc \in {"end", "reply"} : ServerGoto(pc, 0) \/ (ServerGoto(pc, i + 1) /\ ~Last)
      BY <1>11, <2>2 DEF CollectEnd
    <3> QED BY <1>3, <1>11, <2>2, <3>1 DEF CollectEnd, Turn
  <2> QED BY <2>1, <2>2
<1>12. CASE SpawnFails \/ ConfigureFails \/ \E c \in Clients : ServerRaises(c)
  BY <1>2, <1>12 DEF SpawnFails, ConfigureFails, ServerRaises, ServerExit
<1>13. ASSUME UNCHANGED <<setup, serverVars>> PROVE Roster'
  BY <1>13 DEF serverVars, Roster, ClientIdx
<1>14. CASE NodeCrashes \/ UNCHANGED vars
  BY <1>13, <1>14 DEF NodeCrashes, vars
<1>15. ASSUME NEW c \in Clients, ClientNext(c) \/ BenchmarkFails(c) \/ RecordFails(c) PROVE Roster'
  BY <1>13, <1>15
     DEF ClientNext, Connect, ConnectTooSoon, BeginTest, RecvAnswer, WrongAnswer, SendStart,
         SendEnd, RecvRecord, SendDone, NextClientEntry, ClientRaises, BenchmarkFails, RecordFails,
         ClientExit, ClientGoto
<1> QED
  BY <1>4, <1>5, <1>6, <1>7, <1>8, <1>9, <1>10, <1>11, <1>12, <1>14, <1>15
     DEF Next, ServerNext, Faults

----------------------------------------------------------------------------
(* The steps of a client *)

\* Messages, as they are read and written.
LEMMA TwoInOne == ASSUME NEW a, NEW b PROVE <<a>> \o <<b>> = <<a, b>>
<1> DEFINE S == {a, b}
<1>1. <<a>> \in Seq(S) /\ <<b>> \in Seq(S) /\ <<a, b>> \in Seq(S)
  OBVIOUS
<1>2. <<a>> \o <<b>> \in Seq(S) /\ Len(<<a>> \o <<b>>) = 2 /\ Len(<<a, b>>) = 2
  BY <1>1
<1>3. (<<a>> \o <<b>>)[1] = a /\ (<<a>> \o <<b>>)[2] = b
  BY <1>1
<1>4. \A n \in 1 .. 2 : (<<a>> \o <<b>>)[n] = <<a, b>>[n]
  BY <1>3
<1> HIDE DEF S
<1> QED BY <1>1, <1>2, <1>4, SeqEqual, Zenon

\* Three messages, put together.
LEMMA ThreeInOne == ASSUME NEW a, NEW b, NEW d PROVE <<a>> \o <<b, d>> = <<a, b, d>>
<1> DEFINE S == {a, b, d}
<1>1. <<a>> \in Seq(S) /\ <<b, d>> \in Seq(S) /\ <<a, b, d>> \in Seq(S)
  OBVIOUS
<1>2. <<a>> \o <<b, d>> \in Seq(S) /\ Len(<<a>> \o <<b, d>>) = 3 /\ Len(<<a, b, d>>) = 3
  BY <1>1
<1>3. (<<a>> \o <<b, d>>)[1] = a /\ (<<a>> \o <<b, d>>)[2] = b /\ (<<a>> \o <<b, d>>)[3] = d
  BY <1>1
<1>4. \A n \in 1 .. 3 : (<<a>> \o <<b, d>>)[n] = <<a, b, d>>[n]
  BY <1>3
<1> HIDE DEF S
<1> QED BY <1>1, <1>2, <1>4, SeqEqual, Zenon

\* A message put behind none or one.
LEMMA AppendIs == ASSUME NEW a, NEW b PROVE Append(<<>>, b) = <<b>> /\ Append(<<a>>, b) = <<a, b>>
<1>1. <<a>> \in Seq({a, b}) /\ b \in {a, b}
  OBVIOUS
<1>2. Append(<<a>>, b) = <<a>> \o <<b>>
  BY <1>1, AppendIsConcat
<1>3. Append(<<>>, b) = <<b>>
  OBVIOUS
<1> QED BY <1>2, <1>3, TwoInOne

\* Messages put into an empty queue.
LEMMA FirstIn ==
  ASSUME NEW a, NEW b, NEW d
  PROVE  /\ <<>> \o <<a>> = <<a>> /\ <<>> \o <<a, b>> = <<a, b>>
         /\ <<>> # <<a>> /\ <<>> # <<a, b>> /\ <<>> # <<a, b, d>>
OBVIOUS

\* The first message, and what is behind it.
LEMMA FirstOut ==
  ASSUME NEW a, NEW b, NEW d
  PROVE  /\ Head(<<a>>) = a /\ Head(<<a, b>>) = a /\ Head(<<a, b, d>>) = a
         /\ Tail(<<a>>) = <<>> /\ Tail(<<a, b>>) = <<b>> /\ Tail(<<a, b, d>>) = <<b, d>>
OBVIOUS

\* The answers a client may find in its stream are told apart.
LEMMA AnswersDiffer ==
  /\ <<"R">> \notin {<<>>, <<"OK">>, <<"OK", "R">>, <<"Err">>, <<"Proceed">>, <<"R", "Proceed">>,
                     <<"Record">>, <<"Record", "R">>}
  /\ <<"Proceed">> \notin {<<>>, <<"OK">>, <<"OK", "R">>, <<"R", "Proceed">>, <<"Record">>,
                           <<"Record", "R">>}
  /\ <<"Record">> \notin {<<>>, <<"OK">>, <<"OK", "R">>, <<"Err">>, <<"R", "Proceed">>,
                          <<"Record", "R">>}
  /\ <<"OK">> \notin {<<>>, <<"OK", "R">>, <<"Err">>, <<"R", "Proceed">>, <<"Record", "R">>}
  /\ <<"Err">> \notin {<<>>, <<"OK", "R">>, <<"R", "Proceed">>, <<"Record", "R">>}
  /\ <<"OK", "R">> \notin {<<>>, <<"R", "Proceed">>, <<"Record", "R">>}
  /\ <<"R", "Proceed">> \notin {<<>>, <<"Record", "R">>}
  /\ <<"Record", "R">> # <<>>
OBVIOUS

\* They are read one by one.
LEMMA AnswersRead ==
  /\ Head(<<"OK">>) = "OK" /\ Tail(<<"OK">>) = <<>>
  /\ Head(<<"OK", "R">>) = "OK" /\ Tail(<<"OK", "R">>) = <<"R">>
  /\ Head(<<"Err">>) = "Err"
  /\ Head(<<"R">>) = "R" /\ Tail(<<"R">>) = <<>>
  /\ Head(<<"R", "Proceed">>) = "R"
  /\ Head(<<"Proceed">>) = "Proceed" /\ Tail(<<"Proceed">>) = <<>>
  /\ Tail(<<"Record">>) = <<>> /\ Tail(<<"Record", "R">>) = <<"R">>
OBVIOUS

\* Nothing that is about this client changes.
Still(c) ==
  /\ cPc'[c] = cPc[c] /\ cEntry'[c] = cEntry[c] /\ test'[c] = test[c] /\ round'[c] = round[c]
  /\ conn'[c] = conn[c] /\ toServer'[c] = toServer[c] /\ toClient'[c] = toClient[c]

\* What a step of a client does to what is known of it.
Good(c) ==
  /\ Position(c)' /\ InFlight(c)' /\ Connected(c)'
  /\ conn'[c] = "open" /\ ~Accepted(c) => Fresh(c)'
  /\ sPc # "exited" /\ conn'[c] \in {"closed", "reset"} => Left(c)'
  /\ sPc # "exited" /\ Accepted(c) =>
       /\ \A stage : InStage(c, stage) => InStage(c, stage)'
       /\ Waits(c) => Waits(c)'
       /\ ~Away(c)' => ~Away(c) /\ TestsTold(c)' = TestsTold(c) /\ RoundsTold(c)' = RoundsTold(c)
  /\ CanYcsb(c)' =>
       CanYcsb(c) /\ cEntry'[c] = cEntry[c] /\ test'[c] = test[c] /\ round'[c] = round[c]

\* Nothing that is said of a client changes while it and its messages stand still.
LEMMA StillIs ==
  ASSUME NEW c \in Clients, Still(c), UNCHANGED setup
  PROVE  /\ Position(c)' = Position(c) /\ InFlight(c)' = InFlight(c) /\ Fresh(c)' = Fresh(c)
         /\ Left(c)' = Left(c) /\ Waits(c)' = Waits(c)
         /\ \A stage : InStage(c, stage)' = InStage(c, stage)
         /\ Away(c)' = Away(c) /\ TestsTold(c)' = TestsTold(c) /\ RoundsTold(c)' = RoundsTold(c)
         /\ CanYcsb(c)' = CanYcsb(c)
<1> USE DEF Still
<1>1. ToldReady(c)' = ToldReady(c) /\ ToldRecord(c)' = ToldRecord(c) /\ IsMaster(c)' = IsMaster(c)
  BY DEF ToldReady, ToldRecord, IsMaster, ClientIdx
<1>2. Plan(c)' = Plan(c) /\ CurrentTest(c)' = CurrentTest(c)
  BY DEF Plan, CurrentTest
<1>3. Position(c)' = Position(c)
  BY <1>2 DEF Position
<1>4. InFlight(c)' = InFlight(c)
  BY <1>1 DEF InFlight
<1>5. Fresh(c)' = Fresh(c) /\ Left(c)' = Left(c) /\ Waits(c)' = Waits(c) /\ CanYcsb(c)' = CanYcsb(c)
  BY DEF Fresh, Left, Waits, CanYcsb
<1>6. Idle(c)' = Idle(c) /\ Started(c)' = Started(c) /\ Running(c)' = Running(c)
  BY <1>1 DEF Idle, Started, Running
<1>7. Ended(c)' = Ended(c) /\ Asks(c)' = Asks(c) /\ Answered(c)' = Answered(c) /\ Away(c)' = Away(c)
  BY DEF Ended, Asks, Answered, Away
<1>8. \A stage : InStage(c, stage)' = InStage(c, stage)
  BY <1>1, <1>5, <1>6, <1>7 DEF InStage
<1>9. TestsTold(c)' = TestsTold(c) /\ RoundsTold(c)' = RoundsTold(c)
  BY <1>1, <1>2 DEF TestsTold, RoundsTold, TestsSeen, RoundsSeen
<1> QED BY <1>3, <1>4, <1>5, <1>7, <1>8, <1>9

\* A client that goes on takes each stage to itself.
LEMMA ActiveStep ==
  ASSUME NEW c \in Clients, ClientInv(c), UNCHANGED <<setup, serverVars>>,
         ~Away(c), ~Away(c)', conn'[c] = conn[c], cEntry'[c] = cEntry[c],
         Position(c)', InFlight(c)',
         Fresh(c) => Fresh(c)', Idle(c) => Idle(c)', ToldReady(c)' => ToldReady(c),
         Started(c) => Started(c)', Running(c) => Running(c)', Ended(c) => Ended(c)',
         Asks(c) => Asks(c)', Answered(c) => Answered(c)', Waits(c) => Waits(c)',
         TestsTold(c)' = TestsTold(c), RoundsTold(c)' = RoundsTold(c),
         CanYcsb(c)' => CanYcsb(c) /\ test'[c] = test[c] /\ round'[c] = round[c]
  PROVE  Good(c)
<1>1. Connected(c)'
  BY DEF ClientInv, Connected, Away, Accepted, serverVars, Active, InRound
<1>2. conn[c] \notin {"closed", "reset"}
  BY DEF ClientInv, Connected, Away
<1>3. conn'[c] = "open" /\ ~Accepted(c) => Fresh(c)'
  BY DEF ClientInv
<1>4. ASSUME NEW stage, InStage(c, stage) PROVE InStage(c, stage)'
  <2>1. cPc[c] # "failed"
    BY DEF Away, Active, InRound
  <2> QED BY <1>4, <2>1 DEF InStage
<1> QED BY <1>1, <1>2, <1>3, <1>4 DEF Good

\* Signalling the start keeps the client's stage.
LEMMA SendStartGood ==
  ASSUME TypeInv, NEW c \in Clients, ClientInv(c), SendStart(c) PROVE Good(c)
<1>1. /\ cPc[c] = "start" /\ cPc'[c] = "proceed" /\ toServer'[c] = toServer[c] \o <<Say("Start")>>
      /\ UNCHANGED <<setup, serverVars, conn, cEntry, toClient, test, round>>
  BY DEF SendStart, ClientGoto, ClientSend, TypeInv, TypeOK, NetTypeOK, ClientTypeOK
<1> USE <1>1
<1>2. Position(c)'
  BY DEF ClientInv, Position, InRound, Plan, CurrentTest
<1>3. toClient[c] \in {<<>>, <<"R">>}
  BY DEF ClientInv, InFlight
<1>4. InFlight(c)'
  BY <1>3 DEF ClientInv, InFlight, ToldReady, IsMaster, ClientIdx, InRound
<1>5. Idle(c) => Idle(c)'
  BY <1>3, FirstIn DEF Idle
<1>6. ~Fresh(c) /\ ~Started(c) /\ ~Running(c) /\ ~Ended(c) /\ ~Asks(c) /\ ~Answered(c) /\ ~Waits(c)
  BY DEF Fresh, Started, Running, Ended, Asks, Answered, Waits
<1>7. TestsTold(c)' = TestsTold(c) /\ RoundsTold(c)' = RoundsTold(c) /\ ToldReady(c)' = ToldReady(c)
  BY DEF TestsTold, RoundsTold, TestsSeen, RoundsSeen, ToldReady, ToldRecord, InRound
<1>8. ~CanYcsb(c)'
  BY <1>3, AnswersDiffer DEF CanYcsb
<1> QED BY <1>2, <1>4, <1>5, <1>6, <1>7, <1>8, ActiveStep DEF Away, Active, InRound

\* Signalling the end keeps the client's stage.
LEMMA SendEndGood ==
  ASSUME TypeInv, NEW c \in Clients, ClientInv(c), SendEnd(c) PROVE Good(c)
<1>1. /\ cPc[c] = "ycsb" /\ cPc'[c] = "record" /\ toServer'[c] = toServer[c] \o <<Say("End")>>
      /\ UNCHANGED <<setup, serverVars, conn, cEntry, toClient, test, round>>
  BY DEF SendEnd, ClientGoto, ClientSend, TypeInv, TypeOK, NetTypeOK, ClientTypeOK
<1> USE <1>1
<1>2. Position(c)'
  BY DEF ClientInv, Position, InRound, Plan, CurrentTest
<1>3. toClient[c] = <<>>
  BY DEF ClientInv, InFlight
<1>4. InFlight(c)'
  BY <1>3 DEF InFlight, ToldReady
<1>5. Running(c) => Running(c)'
  BY <1>3, FirstIn DEF Running
<1>6. ~Fresh(c) /\ ~Idle(c) /\ ~Started(c) /\ ~Ended(c) /\ ~Asks(c) /\ ~Answered(c) /\ ~Waits(c)
  BY DEF Fresh, Idle, Started, Ended, Asks, Answered, Waits
<1>7. TestsTold(c)' = TestsTold(c) /\ RoundsTold(c)' = RoundsTold(c) /\ ToldReady(c)' = ToldReady(c)
  BY DEF TestsTold, RoundsTold, TestsSeen, RoundsSeen, ToldReady, ToldRecord, InRound
<1>8. ~CanYcsb(c)'
  BY DEF CanYcsb
<1> QED BY <1>2, <1>4, <1>5, <1>6, <1>7, <1>8, ActiveStep DEF Away, Active, InRound

\* Telling the server of a test case keeps the client's stage.
LEMMA BeginTestGood ==
  ASSUME TypeInv, NEW c \in Clients, ClientInv(c), BeginTest(c) PROVE Good(c)
<1>1. /\ cPc[c] = "test" /\ test[c] <= Len(Plan(c))
      /\ UNCHANGED <<setup, serverVars, conn, cEntry, toClient, test, round>>
  BY DEF BeginTest, ClientGoto
<1>2. CurrentTest(c).nodes \in Nat
  BY <1>1, CurrentTestType
<1> DEFINE n == CurrentTest(c).nodes
<1>3. \/ IsMaster(c) /\ cPc'[c] = "ok" /\ toServer'[c] = toServer[c] \o <<Say("Test"), Num(n)>>
      \/ ~IsMaster(c) /\ cPc'[c] = "ready" /\ toServer'[c] = toServer[c]
  BY DEF BeginTest, ClientGoto, ClientSend, TypeInv, TypeOK, NetTypeOK, ClientTypeOK
<1> HIDE DEF n
<1>4. n \in Nat
  BY <1>2 DEF n
<1> USE <1>1
<1>5. Position(c)'
  BY <1>3 DEF ClientInv, Position, InRound, Plan
<1>6. toClient[c] \in {<<>>, <<"R">>} /\ (IsMaster(c) => toClient[c] = <<>>)
  BY DEF ClientInv, InFlight, ToldReady
<1>7. InFlight(c)'
  BY <1>3, <1>6 DEF InFlight, IsMaster, ClientIdx, InRound
<1>8. Idle(c) => Idle(c)'
  <2>1. CASE ~IsMaster(c)
    BY <1>3, <2>1 DEF Idle
  <2>2. CASE IsMaster(c) /\ toServer[c] = <<>>
    <3>1. toServer'[c] = <<Say("Test"), Num(n)>>
      BY <1>3, <2>2, FirstIn
    <3> QED BY <1>3, <1>4, <1>6, <2>2, <3>1 DEF Idle
  <2>3. CASE IsMaster(c) /\ toServer[c] = <<Say("Finished")>>
    <3>1. toServer'[c] = <<Say("Finished"), Say("Test"), Num(n)>>
      BY <1>3, <2>3, ThreeInOne
    <3> QED BY <1>3, <1>4, <1>6, <2>3, <3>1 DEF Idle
  <2> QED BY <2>1, <2>2, <2>3 DEF Idle
<1>9. Fresh(c) => Fresh(c)'
  BY <1>3, <1>4, FirstIn DEF Fresh
<1>10. ~Started(c) /\ ~Running(c) /\ ~Ended(c) /\ ~Asks(c) /\ ~Answered(c) /\ ~Waits(c)
  BY DEF Started, Running, Ended, Asks, Answered, Waits
<1>11. TestsTold(c)' = TestsTold(c) /\ RoundsTold(c)' = RoundsTold(c) /\ ToldReady(c)' = ToldReady(c)
  BY <1>3 DEF TestsTold, RoundsTold, TestsSeen, RoundsSeen, ToldReady, ToldRecord, InRound, Plan
<1>12. ~CanYcsb(c)'
  BY <1>3 DEF CanYcsb
<1> QED
  BY <1>3, <1>5, <1>7, <1>8, <1>9, <1>10, <1>11, <1>12, ActiveStep DEF Away, Active, InRound

\* Reading the expected answer keeps the client's stage.
LEMMA RecvAnswerGood ==
  ASSUME TypeInv, NEW c \in Clients, ClientInv(c), RecvAnswer(c) PROVE Good(c)
<1>1. /\ toClient[c] # <<>> /\ toClient'[c] = Tail(toClient[c])
      /\ UNCHANGED <<setup, serverVars, conn, cEntry, toServer, test, round>>
  BY DEF RecvAnswer, ClientRecv, ClientGoto, TypeInv, TypeOK, NetTypeOK
<1>2. \/ cPc[c] = "ok" /\ cPc'[c] = "ready" /\ Head(toClient[c]) = "OK"
      \/ cPc[c] = "ready" /\ cPc'[c] = "start" /\ Head(toClient[c]) = "R"
      \/ cPc[c] = "proceed" /\ cPc'[c] = "ycsb" /\ Head(toClient[c]) = "Proceed"
  BY DEF RecvAnswer, Expected, Following, ClientGoto, TypeInv, TypeOK, ClientTypeOK
<1> USE <1>1
<1>3. CASE cPc[c] = "ok" /\ cPc'[c] = "ready" /\ Head(toClient[c]) = "OK"
  <2> USE <1>3
  <2>1. \/ toClient[c] = <<"OK">> /\ toClient'[c] = <<>>
        \/ toClient[c] = <<"OK", "R">> /\ toClient'[c] = <<"R">>
    <3>1. toClient[c] \in {<<>>, <<"OK">>, <<"OK", "R">>, <<"Err">>}
      BY DEF ClientInv, InFlight
    <3> QED BY <3>1, AnswersRead
  <2>2. Position(c)' /\ InFlight(c)'
    BY <2>1 DEF ClientInv, Position, InFlight, InRound, Plan
  <2>3. Idle(c) => Idle(c)'
    BY DEF Idle
  <2>4. Answered(c) => Answered(c)'
    BY <2>1, AnswersDiffer DEF Answered
  <2>5. ~Fresh(c) /\ ~Started(c) /\ ~Running(c) /\ ~Ended(c) /\ ~Asks(c) /\ ~Waits(c)
    BY DEF Fresh, Started, Running, Ended, Asks, Waits
  <2>6. ToldReady(c)' = ToldReady(c) /\ ~ToldRecord(c) /\ ~ToldRecord(c)'
    <3>1. CASE toClient[c] = <<"OK">> /\ toClient'[c] = <<>>
      BY <3>1, AnswersDiffer DEF ToldReady, ToldRecord
    <3>2. CASE toClient[c] = <<"OK", "R">> /\ toClient'[c] = <<"R">>
      BY <3>2, AnswersDiffer DEF ToldReady, ToldRecord
    <3> QED BY <2>1, <3>1, <3>2
  <2>7. TestsTold(c)' = TestsTold(c) /\ RoundsTold(c)' = RoundsTold(c)
    BY <2>6 DEF TestsTold, RoundsTold, TestsSeen, RoundsSeen, InRound, Plan
  <2>8. ~CanYcsb(c)'
    BY DEF CanYcsb
  <2> QED
    BY <2>2, <2>3, <2>4, <2>5, <2>6, <2>7, <2>8, ActiveStep DEF Away, Active, InRound
<1>4. CASE cPc[c] = "ready" /\ cPc'[c] = "start" /\ Head(toClient[c]) = "R"
  <2> USE <1>4
  <2>1. toClient[c] = <<"R">> /\ toClient'[c] = <<>>
    <3>1. toClient[c] \in {<<>>, <<"R">>}
      BY DEF ClientInv, InFlight
    <3> QED BY <3>1, AnswersRead
  <2>2. test[c] <= Len(Plan(c)) /\ round[c] = 0
    BY DEF ClientInv, Position
  <2>3. CurrentTest(c).rounds \in Nat
    BY <2>2, CurrentTestType
  <2>4. Position(c)'
    BY <2>2, <2>3 DEF Position, InRound, Plan, CurrentTest
  <2>5. InFlight(c)'
    BY <2>1, AnswersDiffer DEF InFlight, ToldReady
  <2>6. Idle(c) => Idle(c)'
    BY DEF Idle
  <2>7. /\ ~Fresh(c) /\ ~Started(c) /\ ~Running(c) /\ ~Ended(c) /\ ~Asks(c) /\ ~Answered(c)
        /\ ~Waits(c)
    BY <2>1, AnswersDiffer DEF Fresh, Started, Running, Ended, Asks, Answered, Waits
  <2>8. ToldReady(c) /\ ~ToldReady(c)' /\ ~ToldRecord(c)'
    BY <2>1, AnswersDiffer DEF ToldReady, ToldRecord
  <2>9. test[c] \in Nat /\ round[c] = 0
    BY <2>2 DEF TypeInv, TypeOK, ClientTypeOK
  <2>10. TestsTold(c)' = TestsTold(c) /\ RoundsTold(c)' = RoundsTold(c)
    BY <2>8, <2>9 DEF TestsTold, RoundsTold, TestsSeen, RoundsSeen, InRound
  <2>11. ~CanYcsb(c)'
    BY DEF CanYcsb
  <2> QED
    BY <2>4, <2>5, <2>6, <2>7, <2>8, <2>10, <2>11, ActiveStep DEF Away, Active, InRound
<1>5. CASE cPc[c] = "proceed" /\ cPc'[c] = "ycsb" /\ Head(toClient[c]) = "Proceed"
  <2> USE <1>5
  <2>1. toClient[c] = <<"Proceed">> /\ toClient'[c] = <<>>
    <3>1. toClient[c] \in {<<>>, <<"R">>, <<"Proceed">>, <<"R", "Proceed">>}
      BY DEF ClientInv, InFlight
    <3> QED BY <3>1, AnswersRead
  <2>2. Position(c)' /\ InFlight(c)'
    BY <2>1, AnswersDiffer DEF ClientInv, Position, InFlight, InRound, Plan, CurrentTest, ToldReady
  <2>3. Running(c) => Running(c)'
    BY DEF Running
  <2>4. /\ ~Fresh(c) /\ ~Idle(c) /\ ~Started(c) /\ ~Ended(c) /\ ~Asks(c) /\ ~Answered(c)
        /\ ~Waits(c)
    BY <2>1, AnswersDiffer DEF Fresh, Idle, Started, Ended, Asks, Answered, Waits
  <2>5. ~ToldReady(c) /\ ~ToldReady(c)' /\ ~ToldRecord(c) /\ ~ToldRecord(c)'
    BY <2>1, AnswersDiffer DEF ToldReady, ToldRecord
  <2>6. TestsTold(c)' = TestsTold(c) /\ RoundsTold(c)' = RoundsTold(c)
    BY <2>5 DEF TestsTold, RoundsTold, TestsSeen, RoundsSeen, InRound
  <2>7. CanYcsb(c)
    BY <2>1 DEF CanYcsb
  <2> QED BY <2>2, <2>3, <2>4, <2>5, <2>6, <2>7, ActiveStep DEF Away, Active, InRound
<1> QED BY <1>2, <1>3, <1>4, <1>5

\* Reading that the round is recorded keeps the client's stage.
LEMMA RecvRecordGood ==
  ASSUME TypeInv, NEW c \in Clients, ClientInv(c), RecvRecord(c) PROVE Good(c)
<1>1. /\ cPc[c] = "record" /\ toClient[c] # <<>> /\ toClient'[c] = Tail(toClient[c])
      /\ UNCHANGED <<setup, serverVars, conn, cEntry>>
  BY DEF RecvRecord, ClientRecv, ClientGoto, TypeInv, TypeOK, NetTypeOK
<1> USE <1>1
<1>2. \/ toClient[c] = <<"Record">> /\ toClient'[c] = <<>>
      \/ toClient[c] = <<"Record", "R">> /\ toClient'[c] = <<"R">> /\ ~IsMaster(c)
  <2>1. toClient[c] \in {<<>>, <<"Record">>, <<"Record", "R">>}
    BY DEF ClientInv, InFlight
  <2>2. IsMaster(c) => toClient[c] # <<"Record", "R">>
    BY DEF ClientInv, InFlight, ToldReady, InRound
  <2> QED BY <2>1, <2>2, AnswersRead
<1>3. /\ test[c] <= Len(Plan(c)) /\ round[c] <= CurrentTest(c).rounds
      /\ test[c] \in Nat \ {0} /\ round[c] \in Nat
  BY DEF ClientInv, Position, InRound, TypeInv, TypeOK, ClientTypeOK
<1>4. CurrentTest(c).rounds \in Nat
  BY <1>3, CurrentTestType
<1>5. ToldRecord(c) /\ ~ToldRecord(c)' /\ ToldReady(c)' = ToldReady(c)
  <2>1. CASE toClient[c] = <<"Record">> /\ toClient'[c] = <<>>
    BY <2>1, AnswersDiffer DEF ToldReady, ToldRecord
  <2>2. CASE toClient[c] = <<"Record", "R">> /\ toClient'[c] = <<"R">>
    BY <2>2, AnswersDiffer DEF ToldReady, ToldRecord
  <2> QED BY <1>2, <2>1, <2>2
<1>6. CASE round[c] < CurrentTest(c).rounds
  <2>1. /\ cPc'[c] = "start" /\ round'[c] = round[c] + 1 /\ test'[c] = test[c]
        /\ toServer'[c] = toServer[c]
    BY <1>6 DEF RecvRecord, ClientGoto, TypeInv, TypeOK, ClientTypeOK
  <2> USE <2>1
  <2>2. Position(c)'
    BY SMTT(30), <1>3, <1>4, <1>6 DEF Position, InRound, Plan, CurrentTest
  <2>3. InFlight(c)'
    BY <1>2, <1>5, AnswersDiffer DEF InFlight, ToldReady, IsMaster, ClientIdx
  <2>4. Idle(c) => Idle(c)'
    BY DEF Idle
  <2>5. /\ ~Fresh(c) /\ ~Started(c) /\ ~Running(c) /\ ~Ended(c) /\ ~Asks(c) /\ ~Answered(c)
        /\ ~Waits(c)
    BY DEF Fresh, Started, Running, Ended, Asks, Answered, Waits
  <2>6. TestsTold(c)' = TestsTold(c) /\ RoundsTold(c)' = RoundsTold(c)
    BY <1>5 DEF TestsTold, RoundsTold, TestsSeen, RoundsSeen, InRound
  <2>7. ~CanYcsb(c)'
    BY DEF CanYcsb
  <2> QED
    BY <1>5, <2>2, <2>3, <2>4, <2>5, <2>6, <2>7, ActiveStep DEF Away, Active, InRound
<1>7. CASE ~(round[c] < CurrentTest(c).rounds)
  <2>1. /\ cPc'[c] = "test" /\ round'[c] = 0 /\ test'[c] = test[c] + 1
        /\ \/ IsMaster(c) /\ toServer'[c] = toServer[c] \o <<Say("Finished")>>
           \/ toServer'[c] = toServer[c]
    BY <1>7 DEF RecvRecord, ClientGoto, ClientSend, TypeInv, TypeOK, ClientTypeOK, NetTypeOK
  <2> USE <2>1
  <2>2. Plan(c)' = Plan(c) /\ Len(Plan(c)) \in Nat
    <3>1. cEntry[c] \in 1 .. Len(setup.plan[c]) /\ setup \in Setups
      BY SetupType DEF TypeInv, TypeOK, ServerTypeOK, ClientTypeOK
    <3> QED BY <3>1, SetupType DEF Plan
  <2>3. Position(c)'
    BY <1>3, <2>2 DEF Position, InRound
  <2>4. InFlight(c)'
    BY <1>2, <1>5, AnswersDiffer DEF InFlight, ToldReady, IsMaster, ClientIdx
  <2>5. Idle(c) => Idle(c)'
    BY FirstIn DEF Idle, IsMaster, ClientIdx
  <2>6. /\ ~Fresh(c) /\ ~Started(c) /\ ~Running(c) /\ ~Ended(c) /\ ~Asks(c) /\ ~Answered(c)
        /\ ~Waits(c)
    BY DEF Fresh, Started, Running, Ended, Asks, Answered, Waits
  <2>7. TestsTold(c)' = TestsTold(c)
    BY <1>3, <1>5 DEF TestsTold, TestsSeen, InRound
  <2>8. round[c] = Plan(c)[test[c]].rounds
    BY <1>3, <1>4, <1>7 DEF CurrentTest
  <2>9. test'[c] # 1 /\ test'[c] - 1 = test[c]
    BY <1>3
  <2>10. RoundsSeen(c)' = round[c] + 1 /\ RoundsSeen(c) = round[c]
    BY <2>2, <2>8, <2>9 DEF RoundsSeen, InRound
  <2>11. RoundsTold(c)' = RoundsTold(c)
    BY <1>5, <2>10 DEF RoundsTold
  <2>12. ~CanYcsb(c)'
    BY DEF CanYcsb
  <2> QED
    BY <1>5, <2>3, <2>4, <2>5, <2>6, <2>7, <2>11, <2>12, ActiveStep DEF Away, Active, InRound
<1> QED BY <1>6, <1>7

\* One that ends, or goes on to its next entry, leaves its connection behind.
LEMMA LeaveStep ==
  ASSUME TypeInv, NEW c \in Clients, ClientInv(c), UNCHANGED <<setup, serverVars>>,
         Active \cap {cPc[c]} # {}, cPc'[c] \in {"done", "failed", "connect"}, CloseConn(c),
         cPc'[c] = "connect" => test'[c] = 1 /\ round'[c] = 0 /\ cEntry'[c] = cEntry[c] + 1,
         cPc'[c] # "connect" => cEntry'[c] = cEntry[c],
         sPc # "exited" /\ conn[c] = "open" =>
           /\ Left(c)'
           /\ Accepted(c) => /\ ~Asks(c) /\ ~Answered(c) /\ ~Waits(c)
                             /\ Started(c) => cPc'[c] = "failed" /\ toServer'[c] = <<>>
                             /\ Running(c) => cPc'[c] = "failed"
  PROVE  Good(c)
<1>1. /\ conn[c] \in {"open", "old", "dropped"}
      /\ conn'[c] = IF conn[c] = "open" THEN IF toClient'[c] = <<>> THEN "closed" ELSE "reset"
                                       ELSE "none"
  BY DEF ClientInv, Connected, CloseConn, TypeInv, TypeOK, NetTypeOK
<1>2. Position(c)' /\ InFlight(c)' /\ Away(c)' /\ ~CanYcsb(c)'
  BY DEF Position, InFlight, Away, Active, InRound, CanYcsb
<1>3. Connected(c)'
  <2>1. cEntry[c] \in Nat /\ entry \in Nat
    BY SetupType DEF TypeInv, TypeOK, ServerTypeOK, ClientTypeOK
  <2>2. conn[c] = "open" => cEntry[c] = entry
    BY DEF ClientInv, Connected
  <2> QED
    BY <1>1, <1>2, <2>1, <2>2 DEF ClientInv, Connected, Accepted, Away, serverVars
<1>4. Accepted(c) => conn[c] = "open"
  BY <1>1 DEF ClientInv, Connected
<1>5. ASSUME sPc # "exited", Accepted(c), NEW stage, InStage(c, stage) PROVE InStage(c, stage)'
  <2>1. cPc[c] # "failed"
    BY DEF Active, InRound
  <2> QED BY <1>2, <1>4, <1>5, <2>1 DEF InStage
<1> QED BY <1>1, <1>2, <1>3, <1>4, <1>5 DEF Good

\* What a client that is in the middle of something has not yet been read of.
LEMMA Unread ==
  ASSUME NEW c \in Clients, ClientInv(c), sPc # "exited", conn[c] = "open",
         \/ cPc[c] \in {"ok", "ready", "proceed"} /\ toClient[c] # <<>>
         \/ cPc[c] \in {"start", "ycsb"}
  PROVE  Accepted(c) /\ (toServer[c] = <<>> \/ (cPc[c] = "proceed" /\ toServer[c] = <<Say("Start")>>))
<1>1. Accepted(c)
  BY DEF ClientInv, Fresh
<1>2. PICK stage : InStage(c, stage)
  BY <1>1 DEF ClientInv
<1>3. ~Away(c) /\ cPc[c] # "failed"
  BY DEF Away, Active, InRound
<1>4. Idle(c) \/ Started(c) \/ Running(c) \/ Ended(c) \/ Answered(c)
  BY <1>2, <1>3 DEF InStage, Fresh, Asks
<1>5. ~Ended(c)
  BY DEF Ended
<1> QED BY <1>1, <1>4, <1>5 DEF Idle, Started, Running, Answered

\* Failing at an unexpected answer keeps the client's stage.
LEMMA WrongAnswerGood ==
  ASSUME TypeInv, NEW c \in Clients, ClientInv(c), WrongAnswer(c) PROVE Good(c)
<1>1. /\ cPc[c] \in {"ok", "ready", "proceed"} /\ cPc'[c] = "failed"
      /\ toClient[c] # <<>> /\ Head(toClient[c]) # Expected[cPc[c]] /\ CloseConn(c)
      /\ UNCHANGED <<setup, serverVars, toServer, cEntry>>
  BY DEF WrongAnswer, ClientRecv, ClientExit, ClientGoto, Expected, TypeInv, TypeOK, ClientTypeOK
<1> USE <1>1
<1>2. ASSUME sPc # "exited", conn[c] = "open" PROVE Left(c)'
  BY <1>2, Unread DEF Left
<1>3. ~Asks(c) /\ ~Waits(c)
  BY DEF Asks, Waits
<1>4. ~Answered(c)
  BY AnswersRead DEF Answered, Expected
<1>5. Started(c) => toServer[c] = <<>>
  BY DEF Started
<1> QED BY <1>2, <1>3, <1>4, <1>5, LeaveStep DEF Active, InRound

\* Failing when the record has been received keeps the client's stage.
LEMMA RecordFailsGood ==
  ASSUME TypeInv, NEW c \in Clients, ClientInv(c), RecordFails(c) PROVE Good(c)
<1>1. /\ cPc[c] = "record" /\ cPc'[c] = "failed" /\ toClient[c] # <<>> /\ CloseConn(c)
      /\ UNCHANGED <<setup, serverVars, toServer, cEntry>>
  BY DEF RecordFails, ClientRecv, ClientExit, ClientGoto, TypeInv, TypeOK, ClientTypeOK
<1> USE <1>1
<1>2. ASSUME sPc # "exited", conn[c] = "open" PROVE Left(c)'
  <2>1. Accepted(c)
    BY <1>2 DEF ClientInv, Fresh
  <2>2. PICK stage : InStage(c, stage)
    BY <1>2, <2>1 DEF ClientInv
  <2>3. Idle(c)
    BY <2>2 DEF InStage, Away, Active, InRound, Fresh, Started, Running, Ended, Asks, Answered
  <2> QED BY <2>3 DEF Idle, Left
<1>3. ~Asks(c) /\ ~Answered(c) /\ ~Waits(c) /\ ~Started(c) /\ ~Running(c)
  BY DEF Asks, Answered, Waits, Started, Running
<1> QED BY <1>2, <1>3, LeaveStep DEF Active, InRound

\* Being before a test case or behind the last one, a client has at most said that the
\* last is over.
LEMMA BetweenTests ==
  ASSUME NEW c \in Clients, ClientInv(c), sPc # "exited", conn[c] = "open", cPc[c] = "test"
  PROVE  /\ toServer[c] \in {<<>>, <<Say("Finished")>>}
         /\ ~Asks(c) /\ ~Answered(c) /\ ~Waits(c) /\ ~Started(c) /\ ~Running(c)
<1>1. Fresh(c) \/ Idle(c)
  <2>1. CASE ~Accepted(c)
    BY <2>1 DEF ClientInv
  <2>2. CASE Accepted(c)
    <3>1. PICK stage : InStage(c, stage)
      BY <2>2 DEF ClientInv
    <3> QED BY <3>1 DEF InStage, Away, Active, InRound, Started, Running, Ended, Asks, Answered
  <2> QED BY <2>1, <2>2
<1>2. toServer[c] \in {<<>>, <<Say("Finished")>>}
  BY <1>1 DEF Fresh, Idle
<1>3. ~Asks(c) /\ ~Answered(c) /\ ~Waits(c) /\ ~Started(c) /\ ~Running(c)
  BY DEF Asks, Answered, Waits, Started, Running
<1> QED BY <1>2, <1>3

\* Being through with the test cases keeps the client's stage.
LEMMA SendDoneGood ==
  ASSUME TypeInv, NEW c \in Clients, ClientInv(c), SendDone(c) PROVE Good(c)
<1>1. /\ cPc[c] = "test" /\ toServer'[c] = toServer[c] \o <<Say("Done")>> /\ CloseConn(c)
      /\ UNCHANGED <<setup, serverVars, toClient, round>>
  BY DEF SendDone, ClientSend, NextClientEntry, ClientExit, ClientGoto, TypeInv, TypeOK, NetTypeOK
<1>2. \/ cPc'[c] = "connect" /\ test'[c] = 1 /\ cEntry'[c] = cEntry[c] + 1
      \/ cPc'[c] \in {"done", "failed"} /\ cEntry'[c] = cEntry[c]
  BY DEF SendDone, NextClientEntry, ClientExit, ClientGoto, TypeInv, TypeOK, ClientTypeOK
<1> USE <1>1
<1>3. round'[c] = 0
  BY DEF ClientInv, Position
<1>4. ASSUME sPc # "exited", conn[c] = "open" PROVE Left(c)'
  <2>1. toServer[c] \in {<<>>, <<Say("Finished")>>}
    BY <1>4, BetweenTests
  <2>2. toServer'[c] \in {<<Say("Done")>>, <<Say("Finished"), Say("Done")>>}
    BY <2>1, FirstIn, TwoInOne
  <2>3. <<Say("Done")>> # <<Say("Start")>> /\ <<Say("Finished"), Say("Done")>> # <<Say("Start")>>
    BY DEF Say
  <2> QED BY <2>2, <2>3 DEF Left
<1>5. ~Asks(c) /\ ~Answered(c) /\ ~Waits(c) /\ ~Started(c) /\ ~Running(c)
  BY DEF Asks, Answered, Waits, Started, Running
<1> QED BY <1>2, <1>3, <1>4, <1>5, LeaveStep DEF Active, InRound

\* A client that was not connected, or not to this entry, and still is not.
LEMMA AwayStep ==
  ASSUME TypeInv, NEW c \in Clients, ClientInv(c),
         UNCHANGED <<setup, serverVars, toClient, toServer, cEntry, test, round>>,
         cPc[c] \in {"connect", "queued"}, cPc'[c] \in {"queued", "failed"},
         cPc'[c] = "queued" => cEntry[c] > entry,
         conn'[c] = conn[c] \/ CloseConn(c)
  PROVE  Good(c)
<1>1. Away(c) /\ Away(c)'
  BY DEF Away, Active, InRound
<1>2. /\ conn[c] # "open"
      /\ conn'[c] = conn[c] \/ (conn'[c] = "none" /\ conn[c] \in {"old", "dropped"})
  BY <1>1 DEF ClientInv, Connected, Away, CloseConn, TypeInv, TypeOK, NetTypeOK
<1>3. Position(c)' /\ InFlight(c)' /\ ~CanYcsb(c)'
  BY <1>1 DEF ClientInv, Position, InFlight, CanYcsb, Away, Active, InRound
<1>4. Connected(c)'
  <2>1. cEntry[c] \in Nat /\ entry \in Nat
    BY SetupType DEF TypeInv, TypeOK, ServerTypeOK, ClientTypeOK
  <2> QED BY <1>1, <1>2, <2>1 DEF ClientInv, Connected, Accepted, Away, serverVars
<1>5. sPc # "exited" /\ conn'[c] \in {"closed", "reset"} => Left(c)'
  BY <1>2 DEF ClientInv, Left
<1>6. ASSUME NEW stage, InStage(c, stage) PROVE InStage(c, stage)'
  <2>1. cPc[c] # "failed" /\ ~Started(c) /\ ~Running(c) /\ ~Asks(c) /\ ~Answered(c)
    BY DEF Started, Running, Asks, Answered
  <2> QED BY <1>1, <1>6, <2>1 DEF InStage
<1>7. ~Waits(c)
  BY DEF Waits
<1> QED BY <1>1, <1>2, <1>3, <1>4, <1>5, <1>6, <1>7 DEF Good

\* Failing otherwise keeps the client's stage.
LEMMA FailGood ==
  ASSUME TypeInv, NEW c \in Clients, ClientInv(c), ClientRaises(c) \/ BenchmarkFails(c)
  PROVE  Good(c)
<1>1. /\ cPc'[c] = "failed" /\ CloseConn(c)
      /\ UNCHANGED <<setup, serverVars, toClient, toServer, cEntry, test, round>>
  BY DEF ClientRaises, BenchmarkFails, RecordFails, ClientExit, ClientGoto, TypeInv, TypeOK, ClientTypeOK
<1> USE <1>1
<1>2. CASE cPc[c] \in {"connect", "queued"}
  BY <1>2, AwayStep
<1>3. CASE cPc[c] \in Active /\ (sPc = "exited" \/ conn[c] # "open")
  BY <1>3, LeaveStep
<1>4. CASE cPc[c] \in {"start", "ycsb"} /\ sPc # "exited" /\ conn[c] = "open"
  <2>1. toServer[c] = <<>>
    BY <1>4, Unread
  <2>2. ~Asks(c) /\ ~Answered(c) /\ ~Waits(c) /\ ~Started(c)
    BY <1>4 DEF Asks, Answered, Waits, Started
  <2>3. Left(c)'
    BY <2>1 DEF Left
  <2> QED BY <1>4, <2>2, <2>3, LeaveStep DEF Active, InRound
<1>5. CASE cPc[c] = "test" /\ sPc # "exited" /\ conn[c] = "open"
  <2>1. Left(c)'
    BY <1>5, BetweenTests DEF Left, Say
  <2> QED BY <1>5, <2>1, BetweenTests, LeaveStep DEF Active, InRound
<1> QED BY <1>2, <1>3, <1>4, <1>5 DEF ClientRaises, BenchmarkFails, Gone, Active, InRound

\* Connecting keeps the client's stage, since the port is that of its entry.
LEMMA ConnectGood ==
  ASSUME PortsDiffer, TypeInv, NEW c \in Clients, ClientInv(c), Connect(c) PROVE Good(c)
<1>1. /\ cPc[c] = "connect" /\ cPc'[c] = "test" /\ conn'[c] = "open"
      /\ toServer'[c] = <<>> /\ toClient'[c] = <<>>
      /\ UNCHANGED <<setup, serverVars, cEntry, test, round>>
  BY DEF Connect, Reachable, ClientGoto, TypeInv, TypeOK, NetTypeOK, ClientTypeOK
<1> USE <1>1
<1>2. cEntry[c] = entry
  <2>1. setup \in Setups /\ setup.ports \in Seq(Nat) /\ entry \in 1 .. Len(setup.ports)
    BY SetupType DEF Connect, Reachable, TypeInv, TypeOK, ServerTypeOK
  <2>2. cEntry[c] \in 1 .. Len(setup.ports)
    BY <2>1 DEF Connect, TypeInv, TypeOK, ClientTypeOK
  <2>3. setup.ports[cEntry[c]] = setup.ports[entry]
    BY DEF Connect, Reachable
  <2> QED BY <2>1, <2>2, <2>3 DEF PortsDiffer, IsInjective
<1>3. ~Accepted(c)
  BY <1>2 DEF ClientInv, Connected
<1>4. test[c] = 1 /\ round[c] = 0
  BY DEF ClientInv, Position
<1>5. Position(c)' /\ Fresh(c)' /\ ~CanYcsb(c)'
  <2>1. Plan(c)' = Plan(c) /\ Len(Plan(c)) \in Nat
    <3>1. cEntry[c] \in 1 .. Len(setup.plan[c]) /\ setup \in Setups
      BY SetupType DEF TypeInv, TypeOK, ServerTypeOK, ClientTypeOK
    <3> QED BY <3>1, SetupType DEF Plan
  <2> QED BY <1>4, <2>1 DEF Position, Fresh, CanYcsb, InRound
<1>6. InFlight(c)'
  BY AnswersDiffer DEF InFlight, ToldReady, InRound
<1>7. Connected(c)'
  <2>1. entry \in Nat
    BY SetupType DEF TypeInv, TypeOK, ServerTypeOK
  <2> QED BY <1>2, <1>3, <2>1 DEF Connected, Accepted, Active, serverVars
<1> QED BY <1>3, <1>5, <1>6, <1>7 DEF Good

\* Connecting to the port of an entry the server has not come to keeps the client's stage.
LEMMA ConnectTooSoonGood ==
  ASSUME TypeInv, NEW c \in Clients, ClientInv(c), ConnectTooSoon(c) PROVE Good(c)
<1>1. /\ cPc[c] = "connect" /\ cPc'[c] = "queued" /\ cEntry[c] > entry
      /\ UNCHANGED <<setup, serverVars, conn, toServer, toClient, cEntry, test, round>>
  BY DEF ConnectTooSoon, Reachable, ClientGoto, netVars, TypeInv, TypeOK, ClientTypeOK
<1> QED BY <1>1, AwayStep

\* A client nothing happens to, seen from where the server is then.
LEMMA KeepClient ==
  ASSUME NEW c \in Clients, ClientInv(c), Still(c), UNCHANGED <<setup, entry, connArr>>,
         sPc' # "exited" => sPc # "exited",
         sPc' # "exited" /\ Accepted(c) => InStage(c, View(ClientIdx(c))')
  PROVE  ClientInv(c)'
<1>1. Position(c)' /\ InFlight(c)' /\ (Fresh(c)' = Fresh(c)) /\ (Left(c)' = Left(c))
  BY StillIs DEF ClientInv
<1>2. Connected(c)' /\ Accepted(c)' = Accepted(c) /\ ClientIdx(c)' = ClientIdx(c)
  BY DEF ClientInv, Connected, Accepted, Still, ClientIdx
<1>3. sPc' # "exited" /\ Accepted(c) => InStage(c, View(ClientIdx(c)))'
  <2>1. /\ Idle(c)' = Idle(c) /\ Started(c)' = Started(c) /\ Running(c)' = Running(c)
        /\ Ended(c)' = Ended(c) /\ Asks(c)' = Asks(c) /\ Answered(c)' = Answered(c)
        /\ Away(c)' = Away(c) /\ ToldReady(c)' = ToldReady(c)
    BY DEF Still, Idle, Started, Running, Ended, Asks, Answered, Away, ToldReady, IsMaster, ClientIdx
  <2> QED BY <1>1, <2>1 DEF InStage, Still
<1> QED BY <1>1, <1>2, <1>3 DEF ClientInv, Still

\* Those the loops go over, the first one being the master.
LEMMA AtIndex ==
  ASSUME TypeInv, Roster, sPc \notin {"bind", "accept", "exited"}, NEW k \in 0 .. total - 1
  PROVE  connArr[k] \in Clients /\ Accepted(connArr[k]) /\ ClientIdx(connArr[k]) = k
<1>1. k \in DOMAIN connArr
  BY DEF Roster
<1> QED BY <1>1 DEF Roster, TypeInv, TypeOK, ServerTypeOK, Accepted, Range

\* Once all are accepted, the first connection is the master's.
LEMMA MasterAccepted ==
  ASSUME TypeInv, Roster, sPc \notin {"bind", "accept", "exited"}
  PROVE  connArr[0] \in Clients /\ Accepted(connArr[0]) /\ ClientIdx(connArr[0]) = 0
<1>1. 0 \in 0 .. total - 1
  BY DEF Roster, TypeInv, TypeOK, ServerTypeOK
<1> QED BY <1>1, AtIndex

\* A step of one client that keeps its stage, while the others stand still, keeps RoundInv.
LEMMA ClientStep ==
  ASSUME TypeInv, RoundInv, NEW c \in Clients, Good(c), UNCHANGED <<setup, serverVars>>,
         \A d \in Clients \ {c} : Still(d)
  PROVE  RoundInv'
<1> USE DEF RoundInv
<1>1. UNCHANGED <<sPc, entry, connArr, total, i>> /\ \A d \in Clients : Accepted(d)' = Accepted(d)
  BY DEF serverVars, Accepted
<1>2. Roster'
  BY <1>1 DEF Roster, ClientIdx
<1>3. ASSUME NEW d \in Clients
      PROVE  \/ View(ClientIdx(d))' = View(ClientIdx(d))
             \/ View(ClientIdx(d)) = "idle" /\ View(ClientIdx(d))' = "over"
  <2>1. CASE sPc # "listen"
    BY <1>1, <2>1 DEF View, ClientIdx
  <2>2. CASE sPc = "listen"
    <3>1. connArr[0] \in Clients /\ Accepted(connArr[0])
      BY <2>2, MasterAccepted
    <3>2. Waits(connArr[0]) => Waits(connArr[0])'
      BY <1>1, <2>2, <3>1, StillIs DEF Good
    <3> QED BY <1>1, <2>2, <3>2 DEF View, ClientIdx
  <2> QED BY <2>1, <2>2
<1>4. ASSUME NEW d \in Clients \ {c} PROVE ClientInv(d)'
  <2>1. sPc' # "exited" /\ Accepted(d) => InStage(d, View(ClientIdx(d))')
    BY <1>1, <1>3 DEF InStage, ClientInv
  <2> QED BY <1>1, <2>1, KeepClient
<1>5. ClientInv(c)'
  <2>1. ClientIdx(c)' = ClientIdx(c)
    BY DEF ClientIdx
  <2>2. sPc' # "exited" /\ Accepted(c) => InStage(c, View(ClientIdx(c)))'
    <3>1. sPc' # "exited" /\ Accepted(c) => InStage(c, View(ClientIdx(c))')
      BY <1>1, <1>3 DEF InStage, ClientInv
    <3>2. sPc' # "exited" /\ Accepted(c) => \A stage : InStage(c, stage) => InStage(c, stage)'
      BY <1>1 DEF Good
    <3> QED BY <2>1, <3>1, <3>2 DEF InStage
  <2> QED BY <1>1, <2>2 DEF ClientInv, Good
<1>6. Agreement'
  <2>1. ASSUME NEW d \in Range(connArr), sPc # "exited", ~Away(d)'
        PROVE  ~Away(d) /\ TestsTold(d)' = TestsTold(d) /\ RoundsTold(d)' = RoundsTold(d)
    BY <2>1, StillIs DEF Good, Accepted, TypeInv, TypeOK, ServerTypeOK
  <2>2. \A d : ClientIdx(d)' = ClientIdx(d)
    BY DEF ClientIdx
  <2> QED BY <1>1, <2>1, <2>2 DEF Agreement, Told
<1>7. ASSUME NEW d \in Clients, CanYcsb(d)'
      PROVE CanYcsb(d) /\ cEntry'[d] = cEntry[d] /\ test'[d] = test[d] /\ round'[d] = round[d]
  BY <1>7, StillIs DEF Good, Still
<1> QED BY <1>1, <1>2, <1>4, <1>5, <1>6, <1>7 DEF SamePlace

\* Every step of a client is one.
LEMMA ClientMoves ==
  ASSUME PortsDiffer, TypeInv, RoundInv, NEW c \in Clients, ClientNext(c) \/ BenchmarkFails(c) \/ RecordFails(c)
  PROVE  UNCHANGED <<setup, serverVars>> /\ Good(c) /\ \A d \in Clients \ {c} : Still(d)
<1>1. UNCHANGED <<setup, serverVars>> /\ \A d \in Clients \ {c} : Still(d)
  BY SMTT(30) DEF ClientNext, Connect, ConnectTooSoon, BeginTest, RecvAnswer, WrongAnswer, SendStart,
         SendEnd, RecvRecord, SendDone, NextClientEntry, ClientRaises, BenchmarkFails, RecordFails, ClientExit,
         ClientGoto, ClientSend, ClientRecv, CloseConn, netVars, Still,
         TypeInv, TypeOK, NetTypeOK, ClientTypeOK
<1>2. Good(c)
  BY ConnectGood, ConnectTooSoonGood, BeginTestGood, RecvAnswerGood, WrongAnswerGood,
     SendStartGood, SendEndGood, RecvRecordGood, SendDoneGood, FailGood,
     RecordFailsGood
     DEF ClientNext, RoundInv
<1> QED BY <1>1, <1>2

\* Every step of a client keeps RoundInv.
LEMMA ClientNextRound ==
  ASSUME PortsDiffer, TypeInv, RoundInv, NEW c \in Clients, ClientNext(c) \/ BenchmarkFails(c) \/ RecordFails(c)
  PROVE  RoundInv'
BY ClientMoves, ClientStep

----------------------------------------------------------------------------
(* The steps of the server *)

\* It deals with one client.
LEMMA ServerStep ==
  ASSUME RoundInv, Roster', Agreement', UNCHANGED <<setup, entry, connArr, clientVars>>,
         sPc' # "exited" => sPc # "exited",
         NEW c \in Clients, ClientInv(c)',
         \A d \in Clients \ {c} :
           Still(d) /\ (sPc' # "exited" /\ Accepted(d) => InStage(d, View(ClientIdx(d))')),
         CanYcsb(c)' =>
           CanYcsb(c) \/ (Accepted(c) /\ \A d \in Clients : CanYcsb(d) => SamePlace(c, d))
  PROVE  RoundInv'
<1> USE DEF RoundInv
<1>1. ASSUME NEW d \in Clients \ {c} PROVE ClientInv(d)' /\ CanYcsb(d)' = CanYcsb(d)
  BY <1>1, KeepClient, StillIs
<1>2. ASSUME NEW d \in Clients PROVE Accepted(d)' = Accepted(d)
  BY DEF Accepted
<1>3. ASSUME NEW d \in Clients, NEW e \in Clients, CanYcsb(d)', CanYcsb(e)' PROVE SamePlace(d, e)'
  <2>1. SamePlace(d, e)
    <3>1. CASE d = c /\ e = c
      BY <3>1 DEF SamePlace
    <3>2. CASE d = c /\ e # c
      BY <1>1, <1>3, <3>2
    <3>3. CASE d # c /\ e = c
      BY <1>1, <1>3, <3>3 DEF SamePlace
    <3>4. CASE d # c /\ e # c
      BY <1>1, <1>3, <3>4
    <3> QED BY <3>1, <3>2, <3>3, <3>4
  <2> QED BY <2>1 DEF SamePlace, clientVars
<1> QED BY <1>1, <1>2, <1>3

\* The loops, in their order, and what each does to its client.
Loops == {"ready", "start", "proceed", "end", "reply"}
NextLoop == [ready |-> "start", start |-> "proceed", proceed |-> "end", end |-> "reply",
             reply |-> "start"]
After == [ready |-> "idle", start |-> "started", proceed |-> "running", end |-> "ended",
          reply |-> "idle"]
Goes(pc) == IF Last THEN ServerGoto(NextLoop[pc], 0) ELSE ServerGoto(pc, i + 1)

\* A turn of a loop moves the client of the index to the next stage, and only it.
LEMMA LoopView ==
  ASSUME TypeInv, Roster, NEW pc \in Loops, sPc = pc, Goes(pc), NEW k \in 0 .. total - 1
  PROVE  View(k)' = IF k = i THEN After[pc] ELSE View(k)
<1>1. i \in Nat /\ total \in Nat /\ i < total
  BY DEF Roster, Loops, TypeInv, TypeOK, ServerTypeOK
<1>2. CASE Last
  <2>1. sPc' = NextLoop[pc] /\ i' = 0 /\ ~(k < i') /\ (k = i \/ k < i)
    BY <1>1, <1>2 DEF Goes, ServerGoto, Last
  <2> QED BY <2>1, <1>1 DEF View, Loops, NextLoop, After
<1>3. CASE ~Last
  <2>1. sPc' = pc /\ i' = i + 1 /\ (k < i' <=> k < i \/ k = i)
    BY <1>1, <1>3 DEF Goes, ServerGoto
  <2> QED BY <2>1, <1>1 DEF View, Loops, After
<1> QED BY <1>2, <1>3

\* Where an accepted client is in the roster.
LEMMA Indexed ==
  ASSUME TypeInv, Roster, sPc \notin {"bind", "accept", "exited"}, NEW d \in Clients, Accepted(d)
  PROVE  ClientIdx(d) \in 0 .. total - 1 /\ connArr[ClientIdx(d)] = d
BY DEF Roster, Accepted, Range

\* A turn of a loop.
LEMMA TurnStep ==
  ASSUME TypeInv, RoundInv, NEW pc \in Loops, NEW c \in Clients, Turn(pc, c), Goes(pc),
         Roster', Agreement', UNCHANGED <<connArr, clientVars>>,
         \A d \in Clients \ {c} : Still(d),
         InFlight(c)', InStage(c, After[pc])',
         conn'[c] = conn[c] \/ (conn[c] = "closed" /\ conn'[c] = "reset"),
         conn[c] \in {"closed", "reset"} => Left(c)',
         CanYcsb(c)' =>
           CanYcsb(c) \/ (Accepted(c) /\ \A d \in Clients : CanYcsb(d) => SamePlace(c, d))
  PROVE  RoundInv'
<1> USE DEF RoundInv
<1>1. /\ sPc = pc /\ pc \notin {"bind", "accept", "exited"} /\ i \in 0 .. total - 1
      /\ c = connArr[i] /\ Accepted(c) /\ ClientIdx(c) = i
  <2>1. sPc = pc /\ pc \notin {"bind", "accept", "exited"} /\ c = connArr[i]
    BY DEF Turn, Loops
  <2>2. i \in 0 .. total - 1
    BY <2>1 DEF Roster, Loops, TypeInv, TypeOK, ServerTypeOK
  <2> QED BY <2>1, <2>2, AtIndex
<1>2. UNCHANGED <<setup, entry>> /\ sPc' # "exited"
  BY DEF Goes, ServerGoto, Loops, NextLoop
<1>3. ASSUME NEW d \in Clients \ {c}, Accepted(d) PROVE InStage(d, View(ClientIdx(d))')
  <2>1. ClientIdx(d) \in 0 .. total - 1 /\ ClientIdx(d) # i
    BY <1>1, <1>3, Indexed
  <2>2. View(ClientIdx(d))' = View(ClientIdx(d))
    <3> DEFINE k == setup.idx[d]
    <3>1. k \in 0 .. total - 1 /\ k # i /\ k' = k
      BY <1>2, <2>1 DEF ClientIdx
    <3> QED BY <1>1, <3>1, LoopView DEF ClientIdx
  <2> QED BY <1>1, <1>3, <2>2 DEF ClientInv
<1>4. ClientInv(c)'
  <2>1. Position(c)' /\ Accepted(c)' /\ ClientIdx(c)' = i
    BY <1>1, <1>2 DEF ClientInv, Position, Plan, CurrentTest, clientVars, Accepted, ClientIdx
  <2>2. Connected(c)'
    BY <1>1, <1>2 DEF ClientInv, Connected, Accepted, clientVars, Active, InRound
  <2>3. View(ClientIdx(c))' = After[pc]
    BY <1>1, <1>2, LoopView DEF ClientIdx
  <2>4. conn'[c] \in {"closed", "reset"} => Left(c)'
    OBVIOUS
  <2> QED BY <2>1, <2>2, <2>3, <2>4 DEF ClientInv, InStage
<1> QED BY <1>1, <1>2, <1>3, <1>4, ServerStep

\* In its turn a client is told of the next test case, of a record, or of nothing new.
Tells(pc, c) ==
  /\ pc = "ready" => TestsTold(c)' = TestsTold(c) + 1 /\ RoundsTold(c)' = 0
  /\ pc = "reply" => TestsTold(c)' = TestsTold(c) /\ RoundsTold(c)' = RoundsTold(c) + 1
  /\ pc \notin {"ready", "reply"} =>
       TestsTold(c)' = TestsTold(c) /\ RoundsTold(c)' = RoundsTold(c)

\* A turn that tells the client what the loop tells everybody keeps Agreement.
LEMMA TurnAgreement ==
  ASSUME TypeInv, RoundInv, NEW pc \in Loops, NEW c \in Clients, Turn(pc, c), Goes(pc),
         UNCHANGED <<connArr, clientVars>>, \A d \in Clients \ {c} : Still(d),
         ~Away(c) => Tells(pc, c)
  PROVE  Agreement'
<1> USE DEF RoundInv
<1>1. /\ sPc = pc /\ pc \notin {"bind", "accept", "exited"} /\ i \in 0 .. total - 1
      /\ c = connArr[i] /\ Accepted(c) /\ ClientIdx(c) = i /\ i \in Nat /\ total \in Nat
  <2>1. sPc = pc /\ pc \notin {"bind", "accept", "exited"} /\ c = connArr[i]
    BY DEF Turn, Loops
  <2>2. i \in 0 .. total - 1 /\ i \in Nat /\ total \in Nat
    BY <2>1 DEF Roster, Loops, TypeInv, TypeOK, ServerTypeOK
  <2> QED BY <2>1, <2>2, AtIndex
<1>2. UNCHANGED setup /\ sPc' # "exited"
  BY DEF Goes, ServerGoto, Loops, NextLoop
<1>3. PICK t \in Nat, r \in Nat : \A d \in Range(connArr) : ~Away(d) => Told(d, t, r)
  BY <1>1 DEF Agreement
<1>4. Away(c)' = Away(c) /\ ClientIdx(c)' = i
  BY <1>1, <1>2 DEF Away, clientVars, ClientIdx
<1>5. ASSUME NEW d \in Range(connArr), d # c
      PROVE  /\ Away(d)' = Away(d) /\ TestsTold(d)' = TestsTold(d) /\ RoundsTold(d)' = RoundsTold(d)
             /\ ClientIdx(d)' = ClientIdx(d) /\ ClientIdx(d) \in 0 .. total - 1 /\ ClientIdx(d) # i
  <2>1. d \in Clients /\ Accepted(d)
    BY <1>5 DEF TypeInv, TypeOK, ServerTypeOK, Accepted
  <2> QED BY <1>1, <1>2, <1>5, <2>1, StillIs, Indexed DEF ClientIdx
<1>6. ~Away(c) => TestsTold(c) = t /\ RoundsTold(c) = r
  BY <1>1, <1>3 DEF Told, Accepted
<1>7. CASE ~Last
  <2>1. sPc' = pc /\ i' = i + 1
    BY <1>7 DEF Goes, ServerGoto
  <2>2. ASSUME NEW d \in Range(connArr), ~Away(d)' PROVE Told(d, t, r)'
    <3>1. CASE d = c
      BY <1>1, <1>4, <1>6, <2>1, <2>2, <3>1 DEF Told, Tells
    <3>2. CASE d # c
      <4>1. ClientIdx(d) < i' <=> ClientIdx(d) < i
        BY <1>1, <1>5, <2>1, <3>2
      <4> QED BY <1>1, <1>3, <1>5, <2>1, <2>2, <3>2, <4>1 DEF Told
    <3> QED BY <3>1, <3>2
  <2> QED BY <2>2 DEF Agreement
<1>8. CASE Last
  <2>1. sPc' = NextLoop[pc] /\ i' = 0 /\ sPc' \in Loops
    BY <1>8 DEF Goes, ServerGoto, NextLoop, Loops
  <2> DEFINE t2 == IF pc = "ready" THEN t + 1 ELSE t
             r2 == IF pc = "ready" THEN 0 ELSE IF pc = "reply" THEN r + 1 ELSE r
  <2>2. ASSUME NEW d \in Range(connArr), ~Away(d)' PROVE TestsTold(d)' = t2 /\ RoundsTold(d)' = r2
    <3>1. CASE d = c
      BY <1>4, <1>6, <2>2, <3>1 DEF Tells
    <3>2. CASE d # c
      <4>1. ClientIdx(d) < i
        BY <1>1, <1>5, <1>8, <3>2 DEF Last
      <4> QED BY <1>1, <1>3, <1>5, <2>2, <3>2, <4>1 DEF Told
    <3> QED BY <3>1, <3>2
  <2>3. t2 \in Nat /\ r2 \in Nat
    OBVIOUS
  <2>4. ASSUME NEW d \in Range(connArr), ~Away(d)' PROVE Told(d, t2, r2)'
    <3>1. ~(ClientIdx(d)' < i')
      BY <1>1, <1>4, <1>5, <2>1
    <3> QED BY <2>2, <2>4, <3>1 DEF Told
  <2> QED BY <2>3, <2>4 DEF Agreement
<1> QED BY <1>7, <1>8

\* What a send and a receive do to the connections.
LEMMA SendIs ==
  ASSUME TypeInv, NEW c \in Clients, NEW msg, Send(c, msg)
  PROVE  /\ \A d \in Clients \ {c} : conn'[d] = conn[d] /\ toClient'[d] = toClient[d]
         /\ \/ conn[c] = "open" /\ conn'[c] = "open" /\ toClient'[c] = Append(toClient[c], msg)
            \/ /\ conn[c] = "closed" /\ conn'[c] \in {"closed", "reset"}
               /\ toClient'[c] = toClient[c]
BY DEF Send, TypeInv, TypeOK, NetTypeOK

\* The server reads the first message of the one client.
LEMMA RecvIs ==
  ASSUME TypeInv, NEW c \in Clients, Recv(c)
  PROVE  /\ \A d \in Clients \ {c} : toServer'[d] = toServer[d]
         /\ conn[c] # "reset" /\ toServer[c] # <<>> /\ toServer'[c] = Tail(toServer[c])
BY DEF Recv, CanRecv, TypeInv, TypeOK, NetTypeOK

\* An accepted client is there, or has left and closed.
LEMMA OpenOrAway ==
  ASSUME NEW c \in Clients, ClientInv(c), Accepted(c)
  PROVE  \/ conn[c] = "open" /\ ~Away(c)
         \/ conn[c] \in {"closed", "reset"} /\ Away(c)
BY DEF ClientInv, Connected, Away

\* Whose turn it is, and at which stage.
LEMMA InTurn ==
  ASSUME TypeInv, RoundInv, NEW pc \in Loops, NEW c \in Clients, Turn(pc, c)
  PROVE  /\ sPc = pc /\ sPc # "exited" /\ ClientInv(c) /\ Accepted(c) /\ ClientIdx(c) = i
         /\ InStage(c, View(i)) /\ (IsMaster(c) <=> i = 0)
<1>1. sPc = pc /\ pc \notin {"bind", "accept", "exited"} /\ c = connArr[i]
  BY DEF Turn, Loops
<1>2. i \in 0 .. total - 1
  BY <1>1 DEF RoundInv, Roster, Loops, TypeInv, TypeOK, ServerTypeOK
<1>3. Accepted(c) /\ ClientIdx(c) = i
  BY <1>1, <1>2, AtIndex DEF RoundInv
<1> QED BY <1>1, <1>3 DEF RoundInv, ClientInv, IsMaster

\* The stage of the one whose turn it is.
LEMMA StageInTurn ==
  ASSUME NEW pc \in Loops, sPc = pc, i \in Nat
  PROVE  View(i) = CASE pc = "ready" -> IF i = 0 THEN "answered" ELSE "settled"
                     [] pc = "start" -> "idle"
                     [] pc = "proceed" -> "started"
                     [] pc = "end" -> "running"
                     [] pc = "reply" -> "ended"
BY DEF View, Loops

\* A client that is told that the nodes are ready.
LEMMA ReadySent ==
  ASSUME TypeInv, NEW c \in Clients, ClientInv(c), ~Away(c), UNCHANGED <<setup, toServer, clientVars>>,
         toClient'[c] = Append(toClient[c], "R"),
         Answered(c) \/ (Idle(c) /\ ~ToldReady(c) /\ ~IsMaster(c))
  PROVE  InFlight(c)' /\ Idle(c)' /\ ~CanYcsb(c)' /\ Tells("ready", c)
<1>1. /\ cPc'[c] = cPc[c] /\ toServer'[c] = toServer[c] /\ IsMaster(c)' = IsMaster(c)
      /\ TestsSeen(c)' = TestsSeen(c)
  BY DEF clientVars, IsMaster, ClientIdx, TestsSeen
<1>2. \/ cPc[c] = "ok" /\ IsMaster(c) /\ toServer[c] = <<>> /\ toClient[c] = <<"OK">>
      \/ cPc[c] = "ready" /\ toServer[c] = <<>> /\ toClient[c] = <<>>
      \/ /\ ~IsMaster(c) /\ Idle(c) /\ toClient[c] = <<>>
         /\ cPc[c] \in {"test", "ready", "start", "proceed"}
      \/ ~IsMaster(c) /\ cPc[c] = "record" /\ toServer[c] = <<>> /\ toClient[c] = <<"Record">>
  <2>1. CASE Answered(c)
    BY <2>1 DEF Answered, ClientInv, InFlight
  <2>2. CASE Idle(c) /\ ~ToldReady(c) /\ ~IsMaster(c)
    BY <2>2 DEF Idle, ToldReady, ClientInv, InFlight
  <2> QED BY <2>1, <2>2
<1>3. ~ToldReady(c)
  BY <1>2, AnswersDiffer DEF ToldReady
<1>4. CASE toClient[c] = <<>>
  <2>1. toClient'[c] = <<"R">>
    BY <1>4, AppendIs
  <2>2. /\ cPc[c] \in {"test", "ready", "start", "proceed"}
        /\ IsMaster(c) => cPc[c] = "ready"
        /\ Idle(c)
    BY <1>2, <1>4, AnswersDiffer DEF Idle
  <2>3. InFlight(c)'
    BY <1>1, <2>1, <2>2 DEF InFlight, InRound
  <2>4. Idle(c)'
    BY <1>1, <2>1, <2>2 DEF Idle
  <2>5. ~CanYcsb(c)'
    BY <1>1, <2>1, <2>2, AnswersDiffer DEF CanYcsb
  <2>6. ToldReady(c)'
    BY <2>1 DEF ToldReady
  <2> QED BY <1>1, <1>3, <2>3, <2>4, <2>5, <2>6 DEF Tells, TestsTold, RoundsTold
<1>5. CASE cPc[c] = "ok" /\ IsMaster(c) /\ toServer[c] = <<>> /\ toClient[c] = <<"OK">>
  <2>1. toClient'[c] = <<"OK", "R">>
    BY <1>5, AppendIs
  <2>2. InFlight(c)' /\ Idle(c)' /\ ~CanYcsb(c)' /\ ToldReady(c)'
    BY <1>1, <1>5, <2>1 DEF InFlight, InRound, Idle, CanYcsb, ToldReady
  <2> QED BY <1>1, <1>3, <2>2 DEF Tells, TestsTold, RoundsTold
<1>6. CASE ~IsMaster(c) /\ cPc[c] = "record" /\ toServer[c] = <<>> /\ toClient[c] = <<"Record">>
  <2>1. toClient'[c] = <<"Record", "R">>
    BY <1>6, AppendIs
  <2>2. InFlight(c)' /\ Idle(c)' /\ ~CanYcsb(c)' /\ ToldReady(c)'
    BY <1>1, <1>6, <2>1, AnswersDiffer DEF InFlight, InRound, Idle, CanYcsb, ToldReady
  <2> QED BY <1>1, <1>3, <2>2 DEF Tells, TestsTold, RoundsTold
<1> QED BY <1>2, <1>4, <1>5, <1>6

\* One that has gone is told nothing.
LEMMA AwaySent ==
  ASSUME TypeInv, NEW c \in Clients, ClientInv(c), Away(c), UNCHANGED <<setup, clientVars>>,
         toClient'[c] = toClient[c]
  PROVE  InFlight(c)' /\ Away(c)' /\ CanYcsb(c)' = CanYcsb(c)
BY DEF ClientInv, InFlight, Away, Active, InRound, CanYcsb, clientVars

\* Telling a client to be ready keeps RoundInv.
LEMMA SignalReadyRound ==
  ASSUME TypeInv, RoundInv, Roster', NEW c \in Clients, SignalReady(c) PROVE RoundInv'
<1>1. /\ Turn("ready", c) /\ Send(c, "R") /\ Goes("ready") /\ "ready" \in Loops
      /\ UNCHANGED <<setup, connArr, toServer, clientVars>>
  BY DEF SignalReady, Goes, NextLoop, Loops, ServerGoto
<1>2. /\ sPc = "ready" /\ sPc # "exited" /\ ClientInv(c) /\ Accepted(c)
      /\ IsMaster(c) <=> i = 0
      /\ InStage(c, IF i = 0 THEN "answered" ELSE "settled")
  BY <1>1, InTurn, StageInTurn DEF TypeInv, TypeOK, ServerTypeOK
<1>3. \A d \in Clients \ {c} : Still(d)
  BY <1>1, SendIs DEF Still, clientVars
<1>4. CASE conn[c] \in {"closed", "reset"}
  <2>1. Away(c) /\ toClient'[c] = toClient[c]
    BY <1>1, <1>2, <1>4, OpenOrAway, SendIs
  <2>2. InFlight(c)' /\ InStage(c, "idle")' /\ (CanYcsb(c)' = CanYcsb(c))
    BY <1>1, <1>2, <2>1, AwaySent DEF InStage
  <2>3. Left(c)'
    BY <1>1, <1>2, <1>4 DEF ClientInv, Left, clientVars
  <2>4. Agreement'
    BY <1>1, <1>3, <2>1, TurnAgreement
  <2> QED BY <1>1, <1>3, <1>4, <2>2, <2>3, <2>4, SendIs, TurnStep DEF After
<1>5. CASE conn[c] = "open"
  <2>1. ~Away(c) /\ conn'[c] = "open" /\ toClient'[c] = Append(toClient[c], "R")
    BY <1>1, <1>2, <1>5, OpenOrAway, SendIs
  <2>2. Answered(c) \/ (Idle(c) /\ ~ToldReady(c) /\ ~IsMaster(c))
    BY <1>2, <2>1 DEF InStage
  <2>3. InFlight(c)' /\ InStage(c, "idle")' /\ ~CanYcsb(c)' /\ Tells("ready", c)
    BY <1>1, <1>2, <2>1, <2>2, ReadySent DEF InStage
  <2>4. Agreement'
    BY <1>1, <1>3, <2>3, TurnAgreement
  <2> QED BY <1>1, <1>3, <1>5, <2>1, <2>3, <2>4, TurnStep DEF After
<1> QED BY <1>1, <1>2, <1>4, <1>5, OpenOrAway

\* Letting a client proceed keeps RoundInv.
LEMMA LetProceedRound ==
  ASSUME TypeInv, RoundInv, Roster', NEW c \in Clients, LetProceed(c) PROVE RoundInv'
<1>1. /\ Turn("proceed", c) /\ Send(c, "Proceed") /\ Goes("proceed") /\ "proceed" \in Loops
      /\ UNCHANGED <<setup, connArr, toServer, clientVars>>
  BY DEF LetProceed, Goes, NextLoop, Loops, ServerGoto
<1>2. /\ sPc = "proceed" /\ sPc # "exited" /\ ClientInv(c) /\ Accepted(c)
      /\ InStage(c, "started")
  BY <1>1, InTurn, StageInTurn DEF TypeInv, TypeOK, ServerTypeOK
<1>3. \A d \in Clients \ {c} : Still(d)
  BY <1>1, SendIs DEF Still, clientVars
<1>4. CASE conn[c] \in {"closed", "reset"}
  <2>1. Away(c) /\ toClient'[c] = toClient[c]
    BY <1>1, <1>2, <1>4, OpenOrAway, SendIs
  <2>2. InFlight(c)' /\ Away(c)' /\ (CanYcsb(c)' = CanYcsb(c))
    BY <1>1, <1>2, <2>1, AwaySent
  <2>3. Left(c)' /\ InStage(c, "running")'
    BY <1>1, <1>2, <1>4, <2>1
       DEF ClientInv, Left, clientVars, InStage, Started, Away, Active, InRound
  <2>4. Agreement'
    BY <1>1, <1>3, <2>1, TurnAgreement
  <2> QED BY <1>1, <1>3, <1>4, <2>2, <2>3, <2>4, SendIs, TurnStep DEF After
<1>5. CASE conn[c] = "open"
  <2>1. ~Away(c) /\ conn'[c] = "open" /\ toClient'[c] = Append(toClient[c], "Proceed")
    BY <1>1, <1>2, <1>5, OpenOrAway, SendIs
  <2>2. Started(c)
    BY <1>2, <2>1 DEF InStage, Away, Active, InRound
  <2>3. /\ cPc[c] = "proceed" /\ cPc'[c] = "proceed" /\ toServer'[c] = <<>> /\ toServer[c] = <<>>
        /\ \/ toClient[c] = <<>> /\ toClient'[c] = <<"Proceed">>
           \/ toClient[c] = <<"R">> /\ toClient'[c] = <<"R", "Proceed">>
    BY <1>1, <2>1, <2>2, AppendIs DEF Started, clientVars
  <2>4. InStage(c, "running")'
    BY <2>3 DEF InStage, Running
  <2>5. ToldReady(c)' = ToldReady(c) /\ ~ToldRecord(c) /\ ~ToldRecord(c)'
    <3>1. CASE toClient[c] = <<>> /\ toClient'[c] = <<"Proceed">>
      BY <3>1, AnswersDiffer DEF ToldReady, ToldRecord
    <3>2. CASE toClient[c] = <<"R">> /\ toClient'[c] = <<"R", "Proceed">>
      BY <3>2, AnswersDiffer DEF ToldReady, ToldRecord
    <3> QED BY <2>3, <3>1, <3>2
  <2>6. InFlight(c)'
    BY <1>1, <1>2, <2>3, <2>5 DEF ClientInv, InFlight, IsMaster, ClientIdx
  <2>7. TestsTold(c)' = TestsTold(c) /\ RoundsTold(c)' = RoundsTold(c)
    BY <1>1, <2>5 DEF clientVars, TestsTold, RoundsTold, TestsSeen, RoundsSeen, Plan
  <2>8. Agreement'
    BY <1>1, <1>3, <2>7, TurnAgreement DEF Tells
  <2>9. ASSUME CanYcsb(c)', NEW d \in Clients, CanYcsb(d) PROVE SamePlace(c, d)
    <3>1. toClient[c] = <<>>
      BY <2>3, <2>9, AnswersDiffer DEF CanYcsb
    <3>2. ClientInv(d) /\ Accepted(d) /\ ~Away(d)
      BY <1>2, <2>9 DEF RoundInv, CanYcsb, Away, Active, InRound
    <3>3. cPc[d] \in InRound /\ ~ToldReady(d) /\ ~ToldRecord(d)
      BY <2>9, <3>2, AnswersDiffer DEF CanYcsb, ClientInv, InFlight, InRound, ToldReady, ToldRecord
    <3>4. ~ToldReady(c) /\ cPc[c] \in InRound
      BY <2>3, <3>1, AnswersDiffer DEF ToldReady, InRound
    <3>5. PICK t \in Nat, r \in Nat : \A e \in Range(connArr) : ~Away(e) => Told(e, t, r)
      BY <1>2 DEF RoundInv, Agreement
    <3>6. Told(c, t, r) /\ Told(d, t, r)
      BY <1>2, <2>1, <3>2, <3>5 DEF Accepted
    <3>7. test[c] = test[d] /\ round[c] = round[d]
      BY <1>2, <2>5, <3>3, <3>4, <3>6 DEF Told, TestsTold, RoundsTold, TestsSeen, RoundsSeen
    <3>8. cEntry[c] = cEntry[d]
      BY <1>2, <1>5, <3>2, OpenOrAway DEF ClientInv, Connected
    <3> QED BY <3>7, <3>8 DEF SamePlace
  <2> QED BY <1>1, <1>2, <1>3, <1>5, <2>1, <2>4, <2>6, <2>8, <2>9, TurnStep DEF After
<1> QED BY <1>1, <1>2, <1>4, <1>5, OpenOrAway

\* Telling a client that the round is recorded keeps RoundInv.
LEMMA SendRecordRound ==
  ASSUME TypeInv, RoundInv, Roster', NEW c \in Clients, SendRecord(c) PROVE RoundInv'
<1>1. /\ Turn("reply", c) /\ Send(c, "Record") /\ Goes("reply") /\ "reply" \in Loops
      /\ UNCHANGED <<setup, connArr, toServer, clientVars>>
  BY DEF SendRecord, Goes, NextLoop, Loops, ServerGoto
<1>2. /\ sPc = "reply" /\ sPc # "exited" /\ ClientInv(c) /\ Accepted(c)
      /\ InStage(c, "ended")
  BY <1>1, InTurn, StageInTurn DEF TypeInv, TypeOK, ServerTypeOK
<1>3. \A d \in Clients \ {c} : Still(d)
  BY <1>1, SendIs DEF Still, clientVars
<1>4. CASE conn[c] \in {"closed", "reset"}
  <2>1. Away(c) /\ toClient'[c] = toClient[c]
    BY <1>1, <1>2, <1>4, OpenOrAway, SendIs
  <2>2. InFlight(c)' /\ InStage(c, "idle")' /\ (CanYcsb(c)' = CanYcsb(c))
    BY <1>1, <1>2, <2>1, AwaySent DEF InStage
  <2>3. Left(c)'
    BY <1>1, <1>2, <1>4 DEF ClientInv, Left, clientVars
  <2>4. Agreement'
    BY <1>1, <1>3, <2>1, TurnAgreement
  <2> QED BY <1>1, <1>3, <1>4, <2>2, <2>3, <2>4, SendIs, TurnStep DEF After
<1>5. CASE conn[c] = "open"
  <2>1. ~Away(c) /\ conn'[c] = "open" /\ toClient'[c] = Append(toClient[c], "Record")
    BY <1>1, <1>2, <1>5, OpenOrAway, SendIs
  <2>2. /\ cPc[c] = "record" /\ cPc'[c] = "record" /\ toServer'[c] = <<>>
        /\ toClient[c] = <<>> /\ toClient'[c] = <<"Record">>
    BY <1>1, <1>2, <2>1, AppendIs DEF InStage, Ended, clientVars
  <2>3. ~ToldReady(c) /\ ~ToldReady(c)' /\ ~ToldRecord(c) /\ ToldRecord(c)'
    BY <2>2, AnswersDiffer DEF ToldReady, ToldRecord
  <2>4. InFlight(c)' /\ InStage(c, "idle")' /\ ~CanYcsb(c)'
    BY <2>2, <2>3 DEF InFlight, InStage, Idle, CanYcsb
  <2>5. Tells("reply", c)
    BY <1>1, <2>3 DEF Tells, clientVars, TestsTold, RoundsTold, TestsSeen, RoundsSeen, Plan
  <2>6. Agreement'
    BY <1>1, <1>3, <2>5, TurnAgreement
  <2> QED BY <1>1, <1>3, <1>5, <2>1, <2>4, <2>6, TurnStep DEF After
<1> QED BY <1>1, <1>2, <1>4, <1>5, OpenOrAway

\* The kinds of messages.
LEMMA KindIs == (\A kind : Say(kind).kind = kind) /\ (\A n : Num(n).kind = "num")
BY DEF Say, Num

\* Reading what one has left, or says between two rounds.
LEMMA LeftRead ==
  ASSUME NEW c \in Clients, Left(c), cPc'[c] = cPc[c],
         toServer[c] # <<>>, toServer'[c] = Tail(toServer[c])
  PROVE  /\ Left(c)' /\ Received(c).kind \in {"Start", "Done", "Finished"}
         /\ Received(c).kind = "Start" => cPc[c] = "failed" /\ toServer'[c] = <<>>
<1>1. toServer[c] \in {<<Say("Start")>>, <<Say("Finished")>>, <<Say("Done")>>,
                       <<Say("Finished"), Say("Done")>>}
  BY DEF Left
<1>2. <<Say("Done")>> # <<Say("Start")>> /\ <<>> # <<Say("Start")>>
  BY DEF Say
<1>3. CASE toServer[c] = <<Say("Start")>>
  <2>1. toServer'[c] = <<>> /\ Received(c) = Say("Start")
    BY <1>3, FirstOut DEF Received
  <2> QED BY <1>2, <1>3, <2>1, KindIs DEF Left
<1>4. ASSUME NEW kind \in {"Finished", "Done"}, toServer[c] = <<Say(kind)>>
      PROVE  /\ Left(c)' /\ Received(c).kind \in {"Start", "Done", "Finished"}
             /\ Received(c).kind # "Start"
  <2>1. toServer'[c] = <<>> /\ Received(c) = Say(kind)
    BY <1>4, FirstOut DEF Received
  <2> QED BY <1>2, <2>1, KindIs DEF Left
<1>5. CASE toServer[c] = <<Say("Finished"), Say("Done")>>
  <2>1. toServer'[c] = <<Say("Done")>> /\ Received(c) = Say("Finished")
    BY <1>5, FirstOut DEF Received
  <2> QED BY <1>2, <2>1, KindIs DEF Left
<1> QED BY <1>1, <1>3, <1>4, <1>5

\* What an idle client has sent tells what it is at when it is read.
LEMMA IdleRead ==
  ASSUME NEW c \in Clients, Idle(c), UNCHANGED setup, cPc'[c] = cPc[c], toClient'[c] = toClient[c],
         toServer[c] # <<>>, toServer'[c] = Tail(toServer[c])
  PROVE  /\ Received(c).kind = "Start" => Started(c)'
         /\ Received(c).kind # "Start" => Idle(c)'
         /\ Received(c).kind = "Test" => Asks(c)'
<1>1. CASE cPc[c] = "test" /\ IsMaster(c) /\ toServer[c] = <<Say("Finished")>>
  <2>1. toServer'[c] = <<>> /\ Received(c) = Say("Finished")
    BY <1>1, FirstOut DEF Received
  <2> QED BY <1>1, <2>1, KindIs DEF Idle
<1>2. CASE cPc[c] = "proceed" /\ toServer[c] = <<Say("Start")>> /\ toClient[c] \in {<<>>, <<"R">>}
  <2>1. toServer'[c] = <<>> /\ Received(c) = Say("Start")
    BY <1>2, FirstOut DEF Received
  <2> QED BY <1>2, <2>1, KindIs DEF Started
<1>3. ASSUME cPc[c] = "ok", toClient[c] = <<>>, NEW n \in Nat,
             toServer[c] \in {<<Num(n)>>, <<Say("Test"), Num(n)>>,
                              <<Say("Finished"), Say("Test"), Num(n)>>}
      PROVE  /\ Received(c).kind \in {"num", "Test", "Finished"} /\ Idle(c)'
             /\ Received(c).kind = "Test" => Asks(c)'
  <2>1. CASE toServer[c] = <<Num(n)>>
    <3>1. toServer'[c] = <<>> /\ Received(c) = Num(n)
      BY <2>1, FirstOut DEF Received
    <3> QED BY <1>3, <3>1, KindIs DEF Idle
  <2>2. CASE toServer[c] = <<Say("Test"), Num(n)>>
    <3>1. toServer'[c] = <<Num(n)>> /\ Received(c) = Say("Test")
      BY <2>2, FirstOut DEF Received
    <3> QED BY <1>3, <3>1, KindIs DEF Idle, Asks
  <2>3. CASE toServer[c] = <<Say("Finished"), Say("Test"), Num(n)>>
    <3>1. toServer'[c] = <<Say("Test"), Num(n)>> /\ Received(c) = Say("Finished")
      BY <2>3, FirstOut DEF Received
    <3> QED BY <1>3, <3>1, KindIs DEF Idle
  <2> QED BY <1>3, <2>1, <2>2, <2>3
<1> QED BY <1>1, <1>2, <1>3 DEF Idle

\* A client of which something is read.
LEMMA ReadFrom ==
  ASSUME TypeInv, NEW c \in Clients, ClientInv(c), UNCHANGED <<setup, clientVars, conn, toClient>>
  PROVE  /\ InFlight(c)' /\ CanYcsb(c)' = CanYcsb(c) /\ Away(c)' = Away(c)
         /\ TestsTold(c)' = TestsTold(c) /\ RoundsTold(c)' = RoundsTold(c)
<1>1. ToldReady(c)' = ToldReady(c) /\ ToldRecord(c)' = ToldRecord(c) /\ IsMaster(c)' = IsMaster(c)
  BY DEF ToldReady, ToldRecord, IsMaster, ClientIdx
<1>2. InFlight(c)'
  BY <1>1 DEF ClientInv, InFlight, clientVars
<1>3. TestsTold(c)' = TestsTold(c) /\ RoundsTold(c)' = RoundsTold(c)
  BY <1>1 DEF TestsTold, RoundsTold, TestsSeen, RoundsSeen, clientVars, Plan
<1> QED BY <1>2, <1>3 DEF CanYcsb, Away, clientVars

\* Collecting a client's end keeps RoundInv.
LEMMA CollectEndRound ==
  ASSUME TypeInv, RoundInv, Roster', NEW c \in Clients, CollectEnd(c), Goes("end")
  PROVE  RoundInv'
<1>1. /\ Turn("end", c) /\ Recv(c) /\ "end" \in Loops
      /\ UNCHANGED <<setup, connArr, conn, toClient, clientVars>>
  BY DEF CollectEnd, ServerGoto, ServerExit, Loops
<1>2. /\ sPc = "end" /\ sPc # "exited" /\ ClientInv(c) /\ Accepted(c)
      /\ InStage(c, "running")
  BY <1>1, InTurn, StageInTurn DEF TypeInv, TypeOK, ServerTypeOK
<1>3. \A d \in Clients \ {c} : Still(d)
  BY <1>1, RecvIs DEF Still, clientVars
<1>4. toServer[c] # <<>> /\ toServer'[c] = Tail(toServer[c]) /\ cPc'[c] = cPc[c]
  BY <1>1, RecvIs DEF clientVars
<1>5. conn[c] \in {"closed", "reset"} => Left(c)'
  BY <1>2, <1>4, LeftRead DEF ClientInv
<1>6. InStage(c, "ended")'
  <2>1. CASE cPc[c] = "failed"
    BY <1>4, <2>1 DEF InStage, Away, Active, InRound
  <2>2. CASE Running(c)
    <3>1. cPc[c] = "record" /\ toServer[c] = <<Say("End")>> /\ toClient[c] = <<>>
      BY <1>4, <2>2 DEF Running
    <3>2. toServer'[c] = <<>>
      BY <1>4, <3>1, FirstOut
    <3> QED BY <1>1, <1>4, <3>1, <3>2 DEF InStage, Ended
  <2> QED BY <1>2, <2>1, <2>2 DEF InStage
<1>7. Tells("end", c)
  BY <1>1, <1>2, ReadFrom DEF Tells
<1>8. Agreement'
  BY <1>1, <1>3, <1>7, TurnAgreement
<1> QED BY <1>1, <1>2, <1>3, <1>5, <1>6, <1>8, ReadFrom, TurnStep DEF After

\* Collecting a client's start keeps RoundInv.
LEMMA CollectStartRound ==
  ASSUME TypeInv, RoundInv, Roster', NEW c \in Clients, CollectStart(c), Received(c).kind = "Start"
  PROVE  RoundInv'
<1>1. /\ Turn("start", c) /\ Recv(c) /\ "start" \in Loops /\ Goes("start")
      /\ UNCHANGED <<setup, connArr, conn, toClient, clientVars>>
  BY DEF CollectStart, StartCollected, ServerGoto, Loops, Goes, NextLoop
<1>2. /\ sPc = "start" /\ sPc # "exited" /\ ClientInv(c) /\ Accepted(c)
      /\ InStage(c, "idle")
  BY <1>1, InTurn, StageInTurn DEF TypeInv, TypeOK, ServerTypeOK
<1>3. \A d \in Clients \ {c} : Still(d)
  BY <1>1, RecvIs DEF Still, clientVars
<1>4. toServer[c] # <<>> /\ toServer'[c] = Tail(toServer[c]) /\ cPc'[c] = cPc[c]
  BY <1>1, RecvIs DEF clientVars
<1>5. conn[c] \in {"closed", "reset"} => Left(c)'
  BY <1>2, <1>4, LeftRead DEF ClientInv
<1>6. InStage(c, "started")'
  <2>1. CASE conn[c] \in {"closed", "reset"}
    BY <1>2, <1>4, <2>1, LeftRead DEF ClientInv, InStage
  <2>2. CASE conn[c] = "open"
    <3>1. Idle(c)
      BY <1>2, <2>2, OpenOrAway DEF InStage
    <3> QED BY <1>1, <1>4, <3>1, IdleRead DEF InStage
  <2> QED BY <1>2, <2>1, <2>2, OpenOrAway
<1>7. Tells("start", c)
  BY <1>1, <1>2, ReadFrom DEF Tells
<1>8. Agreement'
  BY <1>1, <1>3, <1>7, TurnAgreement
<1> QED BY <1>1, <1>2, <1>3, <1>5, <1>6, <1>8, ReadFrom, TurnStep DEF After

\* The server goes to a place where no loop is in the middle of telling.
LEMMA PlainAgreement ==
  ASSUME Agreement, sPc \notin {"exited", "ready", "reply"}, sPc' # "reply", sPc' = "ready" => i' = 0,
         \A d \in Range(connArr) : ClientIdx(d) \in Nat,
         UNCHANGED <<setup, connArr>>,
         \A d \in Range(connArr) :
           /\ Away(d)' = Away(d)
           /\ TestsTold(d)' = TestsTold(d) /\ RoundsTold(d)' = RoundsTold(d)
  PROVE  Agreement'
<1>1. PICK t \in Nat, r \in Nat : \A d \in Range(connArr) : ~Away(d) => Told(d, t, r)
  BY DEF Agreement
<1>2. ASSUME NEW d \in Range(connArr), ~Away(d)' PROVE Told(d, t, r)'
  <2>1. TestsTold(d)' = t /\ RoundsTold(d)' = r
    BY <1>1, <1>2 DEF Told
  <2>2. sPc' = "ready" => ~(ClientIdx(d)' < i')
    BY DEF ClientIdx
  <2> QED BY <2>1, <2>2 DEF Told
<1> QED BY <1>2 DEF Agreement

\* The clients accepted are clients, with an index.
LEMMA IndexType == TypeInv => \A d \in Range(connArr) : d \in Clients /\ ClientIdx(d) \in Nat
BY SetupType DEF TypeInv, TypeOK, ServerTypeOK, ClientIdx

\* The server reads of a client and goes on elsewhere.
LEMMA ReadStep ==
  ASSUME TypeInv, RoundInv, Roster', NEW c \in Clients, Recv(c), Accepted(c),
         sPc \notin {"exited", "ready", "reply"}, sPc' \notin {"exited", "ready", "reply"},
         UNCHANGED <<setup, entry, connArr, conn, toClient, clientVars>>,
         InStage(c, View(ClientIdx(c)))',
         \A d \in Clients \ {c} : Accepted(d) => InStage(d, View(ClientIdx(d))')
  PROVE  RoundInv'
<1>1. ClientInv(c) /\ \A d \in Clients \ {c} : Still(d)
  BY RecvIs DEF Still, clientVars, RoundInv
<1>2. conn[c] \in {"closed", "reset"} => Left(c)'
  BY <1>1, RecvIs, LeftRead DEF ClientInv, clientVars
<1>3. ClientInv(c)'
  <2>1. Position(c)' /\ Connected(c)' /\ Accepted(c)'
    BY <1>1 DEF ClientInv, Position, Plan, CurrentTest, Connected, clientVars, Accepted
  <2> QED BY <1>1, <1>2, <2>1, ReadFrom DEF ClientInv
<1>4. ASSUME NEW d \in Range(connArr)
      PROVE  /\ ClientIdx(d) \in Nat /\ Away(d)' = Away(d)
             /\ TestsTold(d)' = TestsTold(d) /\ RoundsTold(d)' = RoundsTold(d)
  BY <1>1, ReadFrom, StillIs, IndexType
<1>5. Agreement'
  BY <1>4, PlainAgreement DEF RoundInv
<1> QED BY <1>1, <1>3, <1>5, ReadFrom, ServerStep

\* Collecting another message than a start ends the test case, and keeps RoundInv.
LEMMA EndTestCaseRound ==
  ASSUME TypeInv, RoundInv, Roster', NEW c \in Clients, CollectStart(c), Received(c).kind # "Start"
  PROVE  RoundInv'
<1>1. /\ Turn("start", c) /\ Recv(c) /\ "start" \in Loops /\ sPc' = "listen"
      /\ UNCHANGED <<setup, entry, connArr, conn, toClient, clientVars>>
  BY DEF CollectStart, EndTestCase, ServerGoto, Loops
<1>2. /\ sPc = "start" /\ ClientInv(c) /\ Accepted(c) /\ c = connArr[i] /\ ClientIdx(c) = i
      /\ InStage(c, "idle") /\ i \in Nat
  BY <1>1, InTurn, StageInTurn DEF TypeInv, TypeOK, ServerTypeOK, Turn
<1>3. toServer[c] # <<>> /\ toServer'[c] = Tail(toServer[c]) /\ cPc'[c] = cPc[c]
  BY <1>1, RecvIs DEF clientVars
<1>4. InStage(c, "idle")' /\ InStage(c, "over")'
  <2>1. CASE Away(c)
    BY <1>1, <1>2, <2>1, ReadFrom DEF InStage
  <2>2. CASE Idle(c)
    BY <1>1, <1>3, <2>2, IdleRead DEF InStage
  <2> QED BY <1>2, <2>1, <2>2 DEF InStage
<1>5. InStage(c, View(ClientIdx(c)))'
  BY <1>1, <1>4 DEF View, InStage
<1>6. i > 0 => Waits(connArr[0])'
  <2> SUFFICES ASSUME i > 0 PROVE Waits(connArr[0])'
    OBVIOUS
  <2> DEFINE m == connArr[0]
  <2>1. m \in Clients /\ Accepted(m) /\ ClientIdx(m) = 0 /\ m # c
    BY <1>2, MasterAccepted DEF RoundInv
  <2>2. View(0) = "started"
    BY <1>2 DEF View
  <2>3. InStage(m, "started") /\ InFlight(m)
    BY <1>2, <2>1, <2>2 DEF RoundInv, ClientInv
  <2>4. Waits(m)
    BY <2>1, <2>3 DEF InStage, Started, Waits, InFlight, IsMaster, InRound, ToldReady
  <2> QED BY <1>1, <2>1, <2>4, RecvIs DEF Waits, clientVars
<1>7. ASSUME NEW d \in Clients \ {c}, Accepted(d) PROVE InStage(d, View(ClientIdx(d))')
  <2>1. ClientIdx(d) \in Nat
    BY <1>7, IndexType DEF Accepted
  <2>2. InStage(d, "idle") \/ (InStage(d, "started") /\ i > 0)
    BY <1>2, <1>7, <2>1 DEF RoundInv, ClientInv, View, InStage
  <2>3. InStage(d, "started") => InStage(d, "over")
    BY DEF InStage, Away, Active, InRound
  <2>4. InStage(d, "idle") => InStage(d, "over")
    BY DEF InStage
  <2>5. CASE Waits(connArr[0])'
    BY <1>1, <2>2, <2>3, <2>4, <2>5 DEF View
  <2>6. CASE ~Waits(connArr[0])'
    BY <1>1, <1>6, <2>2, <2>6 DEF View
  <2> QED BY <2>5, <2>6
<1> QED BY <1>1, <1>2, <1>5, <1>7, ReadStep

\* What the master, when its Test has come, has been told.
LEMMA ListenRound ==
  ASSUME TypeInv, RoundInv, Roster', NEW c \in Clients, Listen(c) PROVE RoundInv'
<1>1. /\ sPc = "listen" /\ c = connArr[0] /\ Recv(c)
      /\ UNCHANGED <<setup, entry, connArr, conn, toClient, clientVars>>
  BY DEF Listen, ServerGoto
<1>2. Accepted(c) /\ ClientIdx(c) = 0 /\ ClientInv(c)
  BY <1>1, MasterAccepted DEF RoundInv
<1>3. toServer[c] # <<>> /\ toServer'[c] = Tail(toServer[c]) /\ cPc'[c] = cPc[c]
  BY <1>1, RecvIs DEF clientVars
<1>4. ASSUME NEW d \in Clients, Accepted(d) PROVE InStage(d, "idle")
  BY <1>1, <1>3, <1>4 DEF RoundInv, ClientInv, View, Waits
<1>5. CASE Received(c).kind # "Test"
  <2>1. sPc' = "bind"
    BY <1>5 DEF Listen, ServerGoto
  <2>2. \A d \in Clients : View(ClientIdx(d))' = "over"
    BY <2>1 DEF View
  <2>3. ASSUME NEW d \in Clients, Accepted(d) PROVE InStage(d, View(ClientIdx(d))')
    BY <1>4, <2>2, <2>3 DEF InStage
  <2>4. InStage(c, View(ClientIdx(c)))'
    <3>1. CASE Away(c)
      BY <1>1, <1>2, <2>2, <3>1, ReadFrom DEF InStage
    <3>2. CASE Idle(c)
      BY <1>1, <1>3, <2>2, <3>2, IdleRead DEF InStage
    <3> QED BY <1>2, <1>4, <3>1, <3>2 DEF InStage
  <2> QED BY <1>1, <1>2, <2>1, <2>3, <2>4, ReadStep
<1>6. CASE Received(c).kind = "Test"
  <2>1. sPc' = "numOfNode"
    BY <1>6 DEF Listen, ServerGoto
  <2>2. conn[c] = "open" /\ ~Away(c)
    BY <1>1, <1>2, <1>3, <1>6, OpenOrAway, LeftRead DEF ClientInv
  <2>3. Asks(c)' /\ cPc[c] = "ok" /\ toClient[c] = <<>>
    <3>1. Idle(c)
      BY <1>2, <1>4, <2>2 DEF InStage
    <3>2. Asks(c)'
      BY <1>1, <1>3, <1>6, <3>1, IdleRead
    <3> QED BY <1>1, <1>3, <3>2 DEF Asks
  <2>4. InStage(c, View(ClientIdx(c)))'
    <3>1. ClientIdx(c)' = 0
      BY <1>1, <1>2 DEF ClientIdx
    <3> QED BY <2>1, <2>3, <3>1 DEF View, InStage
  <2>5. PICK t \in Nat, r \in Nat : \A d \in Range(connArr) : ~Away(d) => Told(d, t, r)
    BY <1>1 DEF RoundInv, Agreement
  <2>6. t = 0 \/ r # 0
    <3>1. t = TestsTold(c) /\ r = RoundsTold(c)
      BY <1>1, <1>2, <2>2, <2>5 DEF Told, Accepted
    <3>2. ~ToldReady(c) /\ ~ToldRecord(c)
      BY <2>3, AnswersDiffer DEF ToldReady, ToldRecord
    <3>3. t = test[c] - 1
      BY <2>3, <3>1, <3>2 DEF TestsTold, TestsSeen, InRound
    <3>4. r = RoundsSeen(c)
      BY <3>1, <3>2 DEF RoundsTold
    <3>5. test[c] \in Nat \ {0} /\ test[c] <= Len(Plan(c))
      BY <1>2, <2>3 DEF ClientInv, Position, TypeInv, TypeOK, ClientTypeOK
    <3>6. CASE test[c] = 1
      BY <3>3, <3>6
    <3>7. CASE test[c] # 1
      <4>1. Plan(c)[test[c] - 1].rounds \in Nat
        <5>1. cEntry[c] \in 1 .. Len(setup.plan[c]) /\ setup \in Setups
          BY SetupType DEF TypeInv, TypeOK, ServerTypeOK, ClientTypeOK
        <5>2. Plan(c) \in Seq([nodes : Nat, rounds : Nat])
          BY <5>1, SetupType DEF Plan
        <5>3. test[c] - 1 \in 1 .. Len(Plan(c))
          BY <3>5, <3>7, <5>2
        <5>4. Plan(c)[test[c] - 1] \in [nodes : Nat, rounds : Nat]
          BY <5>2, <5>3, ElementOfSeq, Zenon
        <5> QED BY <5>4
      <4> QED BY <2>3, <3>4, <3>7, <4>1 DEF RoundsSeen, InRound
    <3> QED BY <3>6, <3>7
  <2>7. ASSUME NEW d \in Clients, Accepted(d), ~Away(d) PROVE ~ToldReady(d)
    <3>1. TestsTold(d) = t /\ RoundsTold(d) = r
      BY <1>1, <2>5, <2>7 DEF Told, Accepted
    <3>2. TestsSeen(d) \in Nat
      BY DEF TestsSeen, TypeInv, TypeOK, ClientTypeOK
    <3> QED BY <2>6, <3>1, <3>2 DEF TestsTold, RoundsTold
  <2>8. ASSUME NEW d \in Clients \ {c}, Accepted(d) PROVE InStage(d, View(ClientIdx(d))')
    <3>1. ClientIdx(d) # 0 /\ ClientIdx(d)' = ClientIdx(d)
      BY <1>1, <2>8, Indexed DEF RoundInv, ClientIdx
    <3>2. View(ClientIdx(d))' = "settled"
      BY <2>1, <3>1 DEF View
    <3> QED BY <1>4, <2>7, <2>8, <3>2 DEF InStage
  <2> QED BY <1>1, <1>2, <2>1, <2>4, <2>8, ReadStep
<1> QED BY <1>5, <1>6

\* The server ends, or something happens that no client notices.
LEMMA ExitRound ==
  ASSUME RoundInv, Roster', sPc' = "exited",
         UNCHANGED <<setup, entry, connArr, conn, clientVars>>,
         \A d \in Clients : ~Accepted(d) => Still(d),
         \A d \in Clients : InFlight(d)' /\ (CanYcsb(d)' => CanYcsb(d))
  PROVE  RoundInv'
<1> USE DEF RoundInv
<1>1. ASSUME NEW d \in Clients PROVE ClientInv(d)'
  <2>1. Position(d)' /\ Connected(d)' /\ Accepted(d)' = Accepted(d)
    BY DEF ClientInv, Position, Plan, CurrentTest, Connected, clientVars, Accepted
  <2>2. conn'[d] = "open" /\ ~Accepted(d) => Fresh(d)'
    BY StillIs DEF ClientInv
  <2> QED BY <2>1, <2>2 DEF ClientInv
<1>2. \A d, e \in Clients : SamePlace(d, e) => SamePlace(d, e)'
  BY DEF SamePlace, clientVars
<1> QED BY <1>1, <1>2 DEF Agreement

\* The server's leaving by itself keeps RoundInv.
LEMMA StillExit ==
  ASSUME RoundInv, Roster', NEW how, ServerExit(how), UNCHANGED <<netVars, clientVars>>
  PROVE  RoundInv'
<1>1. ASSUME NEW d \in Clients PROVE Still(d) /\ InFlight(d)' /\ CanYcsb(d)' = CanYcsb(d)
  <2>1. Still(d) /\ UNCHANGED setup
    BY DEF Still, netVars, clientVars, ServerExit
  <2> QED BY <2>1, StillIs DEF RoundInv, ClientInv
<1> QED BY <1>1, ExitRound DEF ServerExit, netVars

\* A step of the server that no client sees keeps RoundInv where the stages fit the new place.
LEMMA StillStep ==
  ASSUME RoundInv, Roster', Agreement', UNCHANGED <<setup, entry, connArr, clientVars, netVars>>,
         sPc' # "exited" => sPc # "exited",
         \A d \in Clients :
           sPc' # "exited" /\ Accepted(d) => InStage(d, View(ClientIdx(d))')
  PROVE  RoundInv'
<1>1. ASSUME NEW d \in Clients PROVE ClientInv(d)' /\ CanYcsb(d)' = CanYcsb(d)
  <2>1. Still(d)
    BY DEF Still, netVars, clientVars
  <2> QED BY <2>1, KeepClient, StillIs DEF RoundInv
<1>2. \A d, e \in Clients : SamePlace(d, e)' = SamePlace(d, e) /\ Accepted(d)' = Accepted(d)
  BY DEF SamePlace, clientVars, Accepted
<1> QED BY <1>1, <1>2 DEF RoundInv

\* Reading the number of nodes and answering keeps RoundInv.
LEMMA RecvNumOfNodeRound ==
  ASSUME TypeInv, RoundInv, Roster', NEW c \in Clients, RecvNumOfNode(c) PROVE RoundInv'
<1>1. /\ sPc = "numOfNode" /\ c = connArr[0] /\ Recv(c) /\ (Send(c, "OK") \/ Send(c, "Err"))
      /\ UNCHANGED <<setup, entry, connArr, clientVars>>
  BY DEF RecvNumOfNode, ServerGoto, ServerExit
<1>2. Accepted(c) /\ ClientIdx(c) = 0 /\ ClientInv(c)
  BY <1>1, MasterAccepted DEF RoundInv
<1>3. Asks(c)
  BY <1>1, <1>2 DEF ClientInv, View, InStage
<1>4. cPc[c] = "ok" /\ toClient[c] = <<>> /\ toServer'[c] = <<>>
  <2>1. PICK n \in Nat : toServer[c] = <<Num(n)>>
    BY <1>3 DEF Asks
  <2>2. toServer'[c] = <<>>
    BY ZenonT(30), <1>1, <2>1, RecvIs, FirstOut
  <2> QED BY <1>3, <2>2 DEF Asks
<1>5. conn[c] = "open" /\ conn'[c] = "open" /\ ~Away(c)
  BY <1>1, <1>2, <1>4, OpenOrAway, SendIs DEF Away, Active
<1>6. \A d \in Clients \ {c} : Still(d)
  BY <1>1, RecvIs, SendIs DEF Still, clientVars
<1>7. toClient'[c] \in {<<"OK">>, <<"Err">>}
  <2>1. toClient'[c] = Append(<<>>, "OK") \/ toClient'[c] = Append(<<>>, "Err")
    BY <1>1, <1>4, <1>5, SendIs
  <2> QED BY <2>1
<1>8. InFlight(c)'
  BY <1>1, <1>2, <1>4, <1>7 DEF InFlight, clientVars, IsMaster, ClientIdx, InRound
<1>9. ~CanYcsb(c)'
  BY <1>1, <1>4 DEF CanYcsb, clientVars
<1>10. CASE ServerExit("error")
  <2>1. \A d \in Clients : InFlight(d)' /\ (CanYcsb(d)' => CanYcsb(d))
    BY <1>1, <1>6, <1>8, <1>9, StillIs DEF RoundInv, ClientInv
  <2>2. UNCHANGED conn
    BY <1>5, <1>6 DEF Still, RecvNumOfNode, Send, TypeInv, TypeOK, NetTypeOK
  <2> QED BY <1>1, <1>2, <1>6, <1>10, <2>1, <2>2, ExitRound DEF ServerExit
<1>11. CASE Send(c, "OK") /\ ServerGoto("spawn", 0)
  <2>1. sPc' = "spawn" /\ toClient'[c] = <<"OK">>
    BY <1>4, <1>5, <1>11, SendIs, AppendIs DEF ServerGoto
  <2>2. ToldReady(c)' = ToldReady(c) /\ ToldRecord(c)' = ToldRecord(c)
    BY <1>4, <2>1, AnswersDiffer DEF ToldReady, ToldRecord
  <2>3. ClientInv(c)'
    <3>1. Answered(c)'
      BY <1>1, <1>4, <2>1 DEF Answered, clientVars
    <3>2. InStage(c, View(ClientIdx(c)))'
      BY <1>1, <1>2, <2>1, <3>1 DEF View, InStage, ClientIdx
    <3>3. Position(c)' /\ Connected(c)' /\ Accepted(c)'
      BY <1>1, <1>2, <1>5 DEF ClientInv, Position, Plan, CurrentTest, Connected, clientVars, Accepted
    <3> QED BY <1>5, <1>8, <3>2, <3>3 DEF ClientInv
  <2>4. ASSUME NEW d \in Range(connArr)
        PROVE  /\ ClientIdx(d) \in Nat /\ Away(d)' = Away(d)
               /\ TestsTold(d)' = TestsTold(d) /\ RoundsTold(d)' = RoundsTold(d)
    <3>1. CASE d = c
      <4>1. UNCHANGED <<cPc, test, round, cEntry, setup>>
        BY <1>1, <1>2 DEF clientVars
      <4>2. Plan(c)' = Plan(c) /\ Away(c)' = Away(c)
        BY <4>1 DEF Plan, Away
      <4>3. TestsSeen(c)' = TestsSeen(c) /\ RoundsSeen(c)' = RoundsSeen(c)
        BY <4>1, <4>2 DEF TestsSeen, RoundsSeen
      <4>4. TestsTold(c)' = TestsTold(c) /\ RoundsTold(c)' = RoundsTold(c)
        BY <2>2, <4>3 DEF TestsTold, RoundsTold
      <4> QED BY <1>2, <3>1, <4>2, <4>4
    <3>2. CASE d # c
      BY <1>1, <1>6, <3>2, StillIs, IndexType
    <3> QED BY <3>1, <3>2
  <2>5. Agreement'
    BY <1>1, <2>1, <2>4, PlainAgreement DEF RoundInv
  <2>6. ASSUME NEW d \in Clients \ {c}, Accepted(d) PROVE InStage(d, View(ClientIdx(d))')
    <3>1. ClientIdx(d) # 0 /\ ClientIdx(d)' = ClientIdx(d)
      BY <1>1, <2>6, Indexed DEF RoundInv, ClientIdx
    <3>2. View(ClientIdx(d))' = "settled" /\ View(ClientIdx(d)) = "settled"
      BY <1>1, <2>1, <3>1 DEF View
    <3> QED BY <1>1, <2>6, <3>2 DEF RoundInv, ClientInv
  <2> QED BY <1>1, <1>6, <1>9, <2>1, <2>3, <2>5, <2>6, ServerStep
<1> QED BY <1>10, <1>11 DEF RecvNumOfNode

\* Spawning a node keeps RoundInv.
LEMMA SpawnNodeRound ==
  ASSUME TypeInv, RoundInv, Roster', SpawnNode PROVE RoundInv'
<1>1. /\ sPc = "spawn" /\ sPc' \in {"spawn", "ready"} /\ (sPc' = "ready" => i' = 0)
      /\ UNCHANGED <<setup, entry, connArr, clientVars, netVars>>
  BY DEF SpawnNode, ServerGoto
<1>2. ASSUME NEW d \in Range(connArr)
      PROVE  /\ ClientIdx(d) \in Nat /\ Away(d)' = Away(d)
             /\ TestsTold(d)' = TestsTold(d) /\ RoundsTold(d)' = RoundsTold(d)
  <2>1. d \in Clients /\ Still(d)
    BY <1>1, IndexType DEF Still, clientVars, netVars
  <2> QED BY <1>1, <2>1, IndexType, StillIs
<1>3. Agreement'
  BY <1>1, <1>2, PlainAgreement DEF RoundInv
<1>4. ASSUME NEW d \in Clients, Accepted(d) PROVE InStage(d, View(ClientIdx(d))')
  <2>1. ClientIdx(d)' = ClientIdx(d) /\ ClientIdx(d) \in Nat
    BY <1>1, <1>4, IndexType DEF ClientIdx, Accepted
  <2>2. View(ClientIdx(d))' = View(ClientIdx(d))
    BY <1>1, <2>1 DEF View
  <2> QED BY <1>1, <1>4, <2>2 DEF RoundInv, ClientInv
<1> QED BY <1>1, <1>3, <1>4, StillStep

\* What is known of a client whatever the server does with its connection.
LEMMA NothingSaid ==
  ASSUME NEW d \in Clients, ClientInv(d), UNCHANGED <<setup, toServer, toClient, clientVars>>
  PROVE  /\ Position(d)' /\ InFlight(d)' /\ (Fresh(d)' = Fresh(d)) /\ (Left(d)' = Left(d))
         /\ Away(d)' = Away(d) /\ CanYcsb(d)' = CanYcsb(d)
<1>1. Position(d)'
  BY DEF ClientInv, Position, Plan, CurrentTest, clientVars
<1>2. InFlight(d)'
  BY DEF ClientInv, InFlight, ToldReady, IsMaster, ClientIdx, clientVars
<1> QED BY <1>1, <1>2 DEF Fresh, Left, Away, CanYcsb, clientVars

\* Accepting a client keeps RoundInv.
LEMMA AcceptClientRound ==
  ASSUME TypeInv, RoundInv, Roster', NEW c \in Clients, AcceptClient(c) PROVE RoundInv'
<1>1. /\ sPc = "accept" /\ Waiting(c)
      /\ UNCHANGED <<toServer, toClient, clientVars>>
  BY DEF AcceptClient
<1>2. CASE ServerExit("error") /\ UNCHANGED conn
  BY <1>1, <1>2, StillExit DEF netVars
<1>3. CASE ~(ServerExit("error") /\ UNCHANGED conn)
  <2>1. /\ IndexAccepted(c)
        /\ connArr' = [k \in DOMAIN connArr \cup {ClientIdx(c)} |->
                         IF k = ClientIdx(c) THEN c ELSE connArr[k]]
        /\ UNCHANGED <<setup, entry>>
        /\ \/ sPc' = "accept" /\ conn' = conn
           \/ /\ sPc' = "listen"
              /\ conn' = [d \in Clients |-> IF conn[d] = "old" THEN "dropped" ELSE conn[d]]
    BY <1>3 DEF AcceptClient, ServerGoto
  <2>2. ClientIdx(c) \notin DOMAIN connArr
    BY <2>1 DEF IndexAccepted, TypeInv, LoopsInRange
  <2>3. \A d : Accepted(d)' <=> Accepted(d) \/ d = c
    BY <2>1, <2>2 DEF Accepted, Range
  <2>4. ASSUME NEW d \in Clients
        PROVE  /\ conn[d] # "old" => conn'[d] = conn[d]
               /\ conn[d] = "old" => conn'[d] \in {"old", "dropped"}
    BY <2>1 DEF TypeInv, TypeOK, NetTypeOK
  <2>5. conn[c] \in {"open", "closed", "reset"} /\ ~Accepted(c)
    BY <1>1 DEF Waiting, Accepted, Range
  <2>6. ASSUME NEW d \in Clients, Accepted(d)' PROVE Away(d) \/ Fresh(d)
    <3>1. CASE Accepted(d)
      BY <1>1, <3>1 DEF RoundInv, ClientInv, View, InStage
    <3>2. CASE d = c
      BY <2>5, <3>2 DEF RoundInv, ClientInv, Connected, Away
    <3> QED BY <2>3, <2>6, <3>1, <3>2
  <2>7. ASSUME NEW d \in Clients, Accepted(d)' PROVE InStage(d, View(ClientIdx(d)))'
    <3>1. Away(d)' \/ Fresh(d)'
      BY <1>1, <2>1, <2>6, <2>7, NothingSaid DEF RoundInv
    <3>2. Fresh(d)' => Idle(d)'
      BY DEF Fresh, Idle
    <3>3. View(ClientIdx(d))' \in {"fresh", "idle", "over"}
      BY <2>1 DEF View
    <3>4. sPc' = "listen" => View(ClientIdx(d))' \in {"idle", "over"}
      BY DEF View
    <3>5. sPc' # "listen" => View(ClientIdx(d))' = "fresh"
      BY <2>1 DEF View
    <3> QED BY <3>1, <3>2, <3>4, <3>5 DEF InStage
  <2>8. ASSUME NEW d \in Clients PROVE ClientInv(d)'
    <3>1. ClientInv(d)
      BY DEF RoundInv
    <3>2. Connected(d)'
      BY <1>1, <2>1, <2>3, <2>4, <2>5, <3>1 DEF ClientInv, Connected, clientVars
    <3>3. conn'[d] = "open" /\ ~Accepted(d)' => Fresh(d)'
      BY <1>1, <2>1, <2>3, <2>4, <3>1, NothingSaid DEF ClientInv
    <3>4. conn'[d] \in {"closed", "reset"} => Left(d)'
      BY <1>1, <2>1, <2>4, <3>1, NothingSaid DEF ClientInv
    <3> QED BY <1>1, <2>1, <2>7, <3>1, <3>2, <3>3, <3>4, NothingSaid DEF ClientInv
  <2>9. Agreement'
    <3>1. ASSUME NEW d \in Range(connArr'), ~Away(d)' PROVE Told(d, 0, 0)'
      <4>1. d \in Clients /\ Accepted(d)'
        BY <2>3, <3>1 DEF Accepted, TypeInv, TypeOK, ServerTypeOK
      <4>2. Fresh(d)'
        BY <1>1, <2>1, <2>6, <3>1, <4>1, NothingSaid DEF RoundInv
      <4>3. ~ToldReady(d)' /\ ~ToldRecord(d)'
        BY <4>2, AnswersDiffer DEF Fresh, ToldReady, ToldRecord
      <4>4. TestsTold(d)' = 0 /\ RoundsTold(d)' = 0
        BY <4>2, <4>3 DEF Fresh, TestsTold, RoundsTold, TestsSeen, RoundsSeen, InRound
      <4> QED BY <2>1, <4>4 DEF Told
    <3>2. 0 \in Nat
      OBVIOUS
    <3> QED BY <3>1, <3>2 DEF Agreement
  <2>10. ASSUME NEW d \in Clients PROVE CanYcsb(d)' = CanYcsb(d) /\ (CanYcsb(d) => Accepted(d)')
    BY <1>1, <2>1, <2>3, NothingSaid DEF RoundInv
  <2>11. \A d, e \in Clients : SamePlace(d, e)' = SamePlace(d, e)
    BY <1>1 DEF SamePlace, clientVars
  <2> QED BY <2>8, <2>9, <2>10, <2>11 DEF RoundInv
<1> QED BY <1>2, <1>3

\* Going on to the next entry keeps RoundInv.
LEMMA BindNextRound ==
  ASSUME TypeInv, RoundInv, Roster', BindNext PROVE RoundInv'
<1>1. sPc = "bind" /\ UNCHANGED <<toServer, toClient, clientVars>>
  BY DEF BindNext
<1>2. ASSUME NEW how, ServerExit(how), UNCHANGED conn PROVE RoundInv'
  BY <1>1, <1>2, StillExit DEF netVars
<1>3. CASE NextEntry
  <2>1. sPc' = "accept" /\ entry' = entry + 1 /\ UNCHANGED setup /\ \A d : ~Accepted(d)'
    BY <1>3 DEF NextEntry, Accepted, Range
  <2>2. ASSUME NEW d \in Clients PROVE ~CanYcsb(d) /\ ~CanYcsb(d)'
    <3>1. SUFFICES ASSUME CanYcsb(d) PROVE FALSE
      BY <1>1, <2>1, NothingSaid DEF RoundInv
    <3>2. InStage(d, "over") /\ ~Away(d)
      BY <1>1, <3>1 DEF RoundInv, ClientInv, View, CanYcsb, Away, Active, InRound
    <3>3. Idle(d) \/ Started(d)
      BY <3>2 DEF InStage
    <3> QED BY <3>1, <3>3, AnswersDiffer DEF CanYcsb, Idle, Started
  <2>3. ASSUME NEW d \in Clients PROVE ClientInv(d)'
    <3>1. ClientInv(d)
      BY DEF RoundInv
    <3>2. /\ conn'[d] \notin {"open", "closed", "reset"}
          /\ conn[d] \in {"open", "old", "dropped"} => conn'[d] \in {"old", "dropped"}
      BY <1>3 DEF NextEntry, TypeInv, TypeOK, NetTypeOK, Connections
    <3>3. Connected(d)'
      BY <1>1, <2>1, <3>1, <3>2 DEF ClientInv, Connected, clientVars
    <3> QED BY <1>1, <2>1, <3>1, <3>2, <3>3, NothingSaid DEF ClientInv
  <2>4. Agreement'
    <3>1. 0 \in Nat
      OBVIOUS
    <3> QED BY <2>1, <3>1 DEF Agreement, Accepted
  <2> QED BY <2>2, <2>3, <2>4 DEF RoundInv
<1> QED BY <1>2, <1>3 DEF BindNext

\* Leaving because a node has ended during the round keeps RoundInv.
LEMMA CollectEndExit ==
  ASSUME TypeInv, RoundInv, Roster', NEW c \in Clients, CollectEnd(c), ServerExit("error")
  PROVE  RoundInv'
<1>1. /\ Turn("end", c) /\ Recv(c) /\ "end" \in Loops /\ sPc' = "exited"
      /\ UNCHANGED <<setup, entry, connArr, conn, toClient, clientVars>>
  BY DEF CollectEnd, ServerExit, Loops
<1>2. Accepted(c)
  BY <1>1, InTurn
<1>3. \A d \in Clients \ {c} : Still(d)
  BY <1>1, RecvIs DEF Still, clientVars
<1>4. \A d \in Clients : InFlight(d)' /\ CanYcsb(d)' = CanYcsb(d)
  BY <1>1, ReadFrom DEF RoundInv
<1> QED BY <1>1, <1>2, <1>3, <1>4, ExitRound

----------------------------------------------------------------------------
(* All of it *)

\* RoundInv holds at first.
LEMMA InitRound == Init => RoundInv
<1> SUFFICES ASSUME Init PROVE RoundInv
  OBVIOUS
<1>1. \A c \in Clients : ~Accepted(c) /\ ~CanYcsb(c)
  BY DEF Init, Accepted, Range, CanYcsb
<1>2. Roster
  BY DEF Init, Roster
<1>3. Agreement
  <2>1. 0 \in Nat /\ Range(connArr) = {}
    BY DEF Init, Range
  <2> QED BY <2>1 DEF Agreement
<1>4. ASSUME NEW c \in Clients PROVE ClientInv(c)
  <2>1. cPc[c] = "connect" /\ conn[c] = "none" /\ test[c] = 1 /\ round[c] = 0
    BY DEF Init
  <2> QED BY <1>1, <2>1 DEF ClientInv, Position, InFlight, Connected, InRound, Active
<1> QED BY <1>1, <1>2, <1>3, <1>4 DEF RoundInv

\* Every step keeps RoundInv.
LEMMA NextRound == ASSUME PortsDiffer, TypeInv, RoundInv, [Next]_vars PROVE RoundInv'
<1>1. Roster'
  BY NextRoster DEF RoundInv
<1>2. ASSUME UNCHANGED <<setup, serverVars, netVars, clientVars>> PROVE RoundInv'
  <2>1. \A d \in Clients : Still(d)
    BY <1>2 DEF Still, netVars, clientVars
  <2>2. \A d \in Clients :
          sPc # "exited" /\ Accepted(d) => InStage(d, View(ClientIdx(d))')
    <3>1. ASSUME NEW d \in Clients PROVE View(ClientIdx(d))' = View(ClientIdx(d))
      BY <1>2 DEF View, ClientIdx, serverVars, netVars, clientVars, Waits
    <3> QED BY <3>1 DEF RoundInv, ClientInv
  <2>3. Agreement'
    <3>1. \A d \in Range(connArr) :
            /\ Away(d)' = Away(d) /\ ClientIdx(d)' = ClientIdx(d)
            /\ TestsTold(d)' = TestsTold(d) /\ RoundsTold(d)' = RoundsTold(d)
      BY <1>2, <2>1, StillIs, IndexType DEF ClientIdx
    <3> QED BY <1>2, <3>1 DEF RoundInv, Agreement, Told, serverVars
  <2> QED BY <1>1, <1>2, <2>2, <2>3, StillStep DEF serverVars
<1>3. ASSUME NEW c \in Clients, CollectEnd(c) PROVE RoundInv'
  <2>1. ServerExit("error") \/ Goes("end")
    BY <1>3 DEF CollectEnd, Goes, NextLoop
  <2> QED BY <1>1, <1>3, <2>1, CollectEndExit, CollectEndRound
<1>4. ASSUME NEW c \in Clients, ServerRaises(c) PROVE RoundInv'
  BY <1>1, <1>4, StillExit DEF ServerRaises
<1>5. CASE SpawnFails \/ ConfigureFails
  BY <1>1, <1>5, StillExit DEF SpawnFails, ConfigureFails
<1>6. CASE NodeCrashes \/ UNCHANGED vars
  BY <1>2, <1>6 DEF NodeCrashes, vars
<1>7. ASSUME NEW c \in Clients,
             AcceptClient(c) \/ Listen(c) \/ RecvNumOfNode(c) \/ SignalReady(c)
               \/ CollectStart(c) \/ LetProceed(c) \/ SendRecord(c)
      PROVE  RoundInv'
  BY <1>1, <1>7, AcceptClientRound, ListenRound, RecvNumOfNodeRound, SignalReadyRound,
     CollectStartRound, EndTestCaseRound, LetProceedRound, SendRecordRound
<1>8. CASE BindNext \/ SpawnNode
  BY <1>1, <1>8, BindNextRound, SpawnNodeRound
<1> QED
  BY <1>3, <1>4, <1>5, <1>6, <1>7, <1>8, ClientNextRound DEF Next, ServerNext, Faults

\* Two clients that run their benchmark are in the same round of the same test case of the
\* same entry (ExecuteWorkload between "Proceed" and "End"), whatever their
\* configurations say and whoever fails.
THEOREM RoundsAgree == ASSUME PortsDiffer PROVE Spec => []SameRound
<1>1. Init => TypeInv /\ RoundInv
  BY InitTypeInv, InitRound
<1>2. (TypeInv /\ RoundInv) /\ [Next]_vars => (TypeInv /\ RoundInv)'
  BY NextTypeInv, NextRound
<1>3. RoundInv => SameRound
  BY DEF RoundInv, SameRound, CanYcsb, SamePlace
<1> QED BY <1>1, <1>2, <1>3, PTL DEF Spec

\* The recorder runs from the last Start to the master's End.
Recorded == recording <=> sPc = "proceed" \/ (sPc = "end" /\ i = 0)

\* Every step keeps Recorded.
LEMMA NextRecorded == TypeInv /\ Recorded /\ [Next]_vars => Recorded'
<1> SUFFICES ASSUME TypeInv, Recorded, [Next]_vars PROVE Recorded'
  OBVIOUS
<1>1. i \in Nat /\ recording \in BOOLEAN
  BY DEF TypeInv, TypeOK, ServerTypeOK
<1>2. ASSUME NEW how, ServerExit(how) PROVE Recorded'
  BY <1>2 DEF ServerExit, Recorded
<1>3. ASSUME sPc' \notin {"proceed", "end"}, sPc \notin {"proceed", "end"}, UNCHANGED recording
      PROVE  Recorded'
  BY <1>3 DEF Recorded
<1>4. ASSUME UNCHANGED serverVars PROVE Recorded'
  BY <1>4 DEF serverVars, Recorded
<1>5. CASE BindNext \/ SpawnNode \/ SpawnFails \/ ConfigureFails
  BY <1>2, <1>3, <1>5
     DEF BindNext, NextEntry, SpawnNode, SpawnFails, ConfigureFails, ServerGoto
<1>6. ASSUME NEW c \in Clients,
             AcceptClient(c) \/ Listen(c) \/ RecvNumOfNode(c) \/ SignalReady(c) \/ SendRecord(c)
               \/ ServerRaises(c)
      PROVE  Recorded'
  BY <1>2, <1>3, <1>6
     DEF AcceptClient, Listen, RecvNumOfNode, SignalReady, SendRecord, ServerRaises, ServerGoto, Turn
<1>7. ASSUME NEW c \in Clients, CollectStart(c) PROVE Recorded'
  BY <1>1, <1>3, <1>7
     DEF CollectStart, StartCollected, EndTestCase, ServerGoto, Turn, Recorded, Last
<1>8. ASSUME NEW c \in Clients, LetProceed(c) PROVE Recorded'
  BY <1>1, <1>8 DEF LetProceed, ServerGoto, Turn, Recorded
<1>9. ASSUME NEW c \in Clients, CollectEnd(c) PROVE Recorded'
  BY <1>1, <1>2, <1>9 DEF CollectEnd, ServerGoto, Turn, Recorded
<1>10. ASSUME NEW c \in Clients, ClientNext(c) \/ BenchmarkFails(c) \/ RecordFails(c) PROVE Recorded'
  BY <1>4, <1>10
     DEF ClientNext, Connect, ConnectTooSoon, BeginTest, RecvAnswer, WrongAnswer, SendStart,
         SendEnd, RecvRecord, SendDone, NextClientEntry, ClientRaises, BenchmarkFails, RecordFails, ClientExit
<1>11. CASE NodeCrashes \/ UNCHANGED vars
  BY <1>4, <1>11 DEF NodeCrashes, vars
<1> QED
  BY <1>5, <1>6, <1>7, <1>8, <1>9, <1>10, <1>11 DEF Next, ServerNext, Faults

\* The record of a round covers the master's benchmark and nothing before the last Start
\* (SysStatusRecorderThread, between GetClientsStartEndRound's two loops).
THEOREM RecordsCover == ASSUME PortsDiffer PROVE Spec => []RecordCoversTheRound
<1>1. Init => TypeInv /\ RoundInv /\ Recorded
  <2>1. Init => Recorded
    BY DEF Init, Recorded
  <2> QED BY <2>1, InitTypeInv, InitRound
<1>2. (TypeInv /\ RoundInv /\ Recorded) /\ [Next]_vars => (TypeInv /\ RoundInv /\ Recorded)'
  BY NextTypeInv, NextRound, NextRecorded
<1>3. TypeInv /\ RoundInv /\ Recorded => RecordCoversTheRound
  <2> SUFFICES ASSUME TypeInv, RoundInv, Recorded PROVE RecordCoversTheRound
    OBVIOUS
  <2>1. i \in Nat
    BY DEF TypeInv, TypeOK, ServerTypeOK
  <2>2. ASSUME NEW c \in Clients, IsMaster(c), cPc[c] = "ycsb", sPc # "exited" PROVE recording
    <3>1. Accepted(c) /\ ~Away(c)
      BY <2>2 DEF RoundInv, CanYcsb, Away, Active, InRound
    <3>2. InStage(c, View(0))
      BY <2>2, <3>1 DEF RoundInv, ClientInv, IsMaster
    <3>3. View(0) = "running"
      BY <2>2, <3>1, <3>2 DEF InStage, Fresh, Idle, Started, Ended, Asks, Answered
    <3> QED BY <2>1, <2>2, <3>3 DEF View, Recorded, TypeInv, TypeOK, ServerTypeOK
  <2>3. ASSUME recording, NEW c \in Range(connArr)
        PROVE  cPc[c] \in {"proceed", "ycsb", "record", "failed"}
    <3>1. c \in Clients /\ Accepted(c) /\ sPc # "exited"
      BY <2>3, IndexType DEF Recorded, Accepted
    <3>2. View(ClientIdx(c)) \in {"started", "running"}
      <4>1. ClientIdx(c) \in Nat
        BY <2>3, IndexType
      <4> QED BY <2>1, <2>3, <4>1 DEF View, Recorded
    <3>3. InStage(c, "started") \/ InStage(c, "running")
      BY <3>1, <3>2 DEF RoundInv, ClientInv
    <3> QED BY <3>3 DEF InStage, Started, Running
  <2> QED BY <2>2, <2>3 DEF RecordCoversTheRound
<1> QED BY <1>1, <1>2, <1>3, PTL DEF Spec

----------------------------------------------------------------------------
(***************************************************************************)
(* The nodes of a test case in YcsbTester: while a client runs its         *)
(* benchmark the server holds the nodes of that client's test case, for    *)
(* every number of clients whose configurations give a test case the same  *)
(* nodes.                                                                  *)
(*                                                                         *)
(* Only the master says how many nodes there are.  That they are the ones  *)
(* of everybody's test case follows from what each client has been told.   *)
(***************************************************************************)

\* "ClientTests" of all clients agree on the nodes of the test cases they share.
SameNodes ==
  \A s \in Setups : \A c, d \in Clients :
    \A e \in DOMAIN s.plan[c] \cap DOMAIN s.plan[d] :
      \A t \in DOMAIN s.plan[c][e] \cap DOMAIN s.plan[d][e] :
        s.plan[c][e][t].nodes = s.plan[d][e][t].nodes

\* Somebody's test case t of this entry has as many nodes as the server was asked for.
HasNodes(t) ==
  \E d \in Clients :
    /\ entry \in DOMAIN setup.plan[d] /\ t \in DOMAIN setup.plan[d][entry]
    /\ setup.plan[d][entry][t].nodes = numOfNode

\* The test case the nodes are for, by what client c has been told or is about to be.
TestServed(c) ==
  IF sPc = "spawn" \/ (sPc = "ready" /\ ~(ClientIdx(c) < i)) THEN TestsTold(c) + 1
                                                              ELSE TestsTold(c)

\* A number on its way to the server is that of the client's test case.
AsksRightly(c) ==
  \A k \in DOMAIN toServer[c] :
    toServer[c][k].kind = "num" => toServer[c][k].val = CurrentTest(c).nodes

NodesInv ==
  /\ sPc \in Loops => procObjs = NodeIds(numOfNode)
  /\ sPc \in Loops \cup {"spawn"} =>
       \A c \in Range(connArr) : ~Away(c) => HasNodes(TestServed(c))
  /\ sPc # "exited" =>
       \A c \in Clients : conn[c] = "open" /\ cPc[c] = "ok" => AsksRightly(c)

----------------------------------------------------------------------------
\* What is read is no longer on its way.
LEMMA ReadRightly ==
  ASSUME TypeInv, NEW c \in Clients, AsksRightly(c), UNCHANGED <<setup, clientVars>>,
         toServer'[c] = toServer[c] \/ (toServer[c] # <<>> /\ toServer'[c] = Tail(toServer[c]))
  PROVE  AsksRightly(c)'
<1>1. CurrentTest(c)' = CurrentTest(c)
  BY DEF CurrentTest, Plan, clientVars
<1>2. CASE toServer'[c] = toServer[c]
  BY <1>1, <1>2 DEF AsksRightly
<1>3. CASE toServer[c] # <<>> /\ toServer'[c] = Tail(toServer[c])
  <2>1. \A s \in Seq(Messages) : s # <<>> =>
          \A k \in DOMAIN Tail(s) : k + 1 \in DOMAIN s /\ Tail(s)[k] = s[k + 1]
    OBVIOUS
  <2>2. toServer[c] \in Seq(Messages)
    BY DEF TypeInv, TypeOK, NetTypeOK
  <2>3. \A k \in DOMAIN toServer'[c] :
          k + 1 \in DOMAIN toServer[c] /\ toServer'[c][k] = toServer[c][k + 1]
    BY <1>3, <2>1, <2>2
  <2> QED BY <1>1, <2>3 DEF AsksRightly
<1> QED BY <1>2, <1>3

\* A step of the server outside of a test case, or out of it.
LEMMA NodesIdle ==
  ASSUME TypeInv, NodesInv, sPc # "exited", sPc' \notin Loops \cup {"spawn"},
         UNCHANGED <<setup, clientVars>>,
         \A c \in Clients : conn'[c] = "open" => conn[c] = "open",
         \A c \in Clients :
           toServer'[c] = toServer[c] \/ (toServer[c] # <<>> /\ toServer'[c] = Tail(toServer[c]))
  PROVE  NodesInv'
<1>1. ASSUME NEW c \in Clients, conn'[c] = "open", cPc'[c] = "ok" PROVE AsksRightly(c)'
  <2>1. AsksRightly(c)
    BY <1>1 DEF NodesInv, clientVars
  <2> QED BY <2>1, ReadRightly
<1> QED BY <1>1 DEF NodesInv

\* A step of the server within a test case.
LEMMA NodesKept ==
  ASSUME TypeInv, NodesInv, sPc \in Loops \cup {"spawn"},
         UNCHANGED <<setup, entry, numOfNode, connArr, clientVars>>,
         sPc' \in Loops => procObjs' = NodeIds(numOfNode),
         \A c \in Range(connArr) : ~Away(c) => TestServed(c)' = TestServed(c),
         \A c \in Clients : conn'[c] = "open" => conn[c] = "open",
         \A c \in Clients :
           toServer'[c] = toServer[c] \/ (toServer[c] # <<>> /\ toServer'[c] = Tail(toServer[c]))
  PROVE  NodesInv'
<1>1. ASSUME NEW c \in Range(connArr), ~Away(c)' PROVE HasNodes(TestServed(c))'
  <2>1. ~Away(c)
    BY <1>1 DEF Away, clientVars
  <2>2. HasNodes(TestServed(c)) /\ TestServed(c)' = TestServed(c)
    BY <1>1, <2>1 DEF NodesInv
  <2> QED BY <2>2 DEF HasNodes
<1>2. ASSUME NEW c \in Clients, conn'[c] = "open", cPc'[c] = "ok" PROVE AsksRightly(c)'
  <2>1. AsksRightly(c)
    BY <1>2 DEF NodesInv, clientVars, Loops
  <2> QED BY <2>1, ReadRightly
<1> QED BY <1>1, <1>2 DEF NodesInv

\* What a client has been told is what the server has said.
LEMMA ToldKept ==
  ASSUME NEW c, UNCHANGED <<setup, clientVars>>, ToldReady(c)' = ToldReady(c)
  PROVE  TestsTold(c)' = TestsTold(c)
BY DEF TestsTold, TestsSeen, clientVars

----------------------------------------------------------------------------
(* The steps of a client *)

\* A client that begins a test case asks for the nodes of that test case.
LEMMA BeginTestAsks ==
  ASSUME TypeInv, NEW c \in Clients, ClientInv(c), BeginTest(c), cPc'[c] = "ok",
         conn[c] = "open", sPc # "exited"
  PROVE  AsksRightly(c)'
<1>1. /\ cPc[c] = "test"
      /\ toServer'[c] = toServer[c] \o <<Say("Test"), Num(CurrentTest(c).nodes)>>
  BY DEF BeginTest, ClientSend, ClientGoto, TypeInv, TypeOK, NetTypeOK, ClientTypeOK
<1>2. toServer[c] \in {<<>>, <<Say("Finished")>>}
  <2>1. CASE ~Accepted(c)
    BY <1>1, <2>1 DEF ClientInv, Fresh
  <2>2. CASE Accepted(c)
    BY <1>1, <2>2
       DEF ClientInv, InStage, Fresh, Idle, Started, Running, Ended, Asks, Answered, Away, Active
  <2> QED BY <2>1, <2>2
<1>3. CurrentTest(c)' = CurrentTest(c)
  BY DEF BeginTest, ClientGoto, CurrentTest, Plan
<1> DEFINE n == CurrentTest(c).nodes
<1>4. \/ toServer'[c] = <<Say("Test"), Num(n)>>
      \/ toServer'[c] = <<Say("Finished"), Say("Test"), Num(n)>>
  <2>1. toServer'[c] = toServer[c] \o <<Say("Test"), Num(n)>>
    BY <1>1
  <2> HIDE DEF n
  <2>2. CASE toServer[c] = <<>>
    BY <2>1, <2>2, FirstIn, Zenon
  <2>3. CASE toServer[c] = <<Say("Finished")>>
    BY <2>1, <2>3, ThreeInOne, Zenon
  <2> QED BY <1>2, <2>2, <2>3
<1> HIDE DEF n
<1>5. \A k \in DOMAIN toServer'[c] : toServer'[c][k] \in {Say("Test"), Say("Finished"), Num(n)}
  <2>1. CASE toServer'[c] = <<Say("Test"), Num(n)>>
    BY <2>1
  <2>2. CASE toServer'[c] = <<Say("Finished"), Say("Test"), Num(n)>>
    BY <2>2
  <2> QED BY <1>4, <2>1, <2>2
<1>6. Num(n).val = n /\ Say("Test").kind # "num" /\ Say("Finished").kind # "num"
  BY DEF Num, Say
<1>7. \A k \in DOMAIN toServer'[c] : toServer'[c][k].kind = "num" => toServer'[c][k].val = n
  BY <1>5, <1>6
<1> QED BY <1>3, <1>7 DEF AsksRightly, n

\* The steps of a client keep NodesInv.
LEMMA ClientNodes ==
  ASSUME PortsDiffer, TypeInv, RoundInv, NodesInv, sPc # "exited",
         NEW c \in Clients, ClientNext(c) \/ BenchmarkFails(c) \/ RecordFails(c)
  PROVE  NodesInv'
<1>1. UNCHANGED <<setup, serverVars>> /\ Good(c) /\ \A d \in Clients \ {c} : Still(d)
  BY ClientMoves
<1>2. ASSUME sPc \in Loops \cup {"spawn"}, NEW d \in Range(connArr), ~Away(d)'
      PROVE  HasNodes(TestServed(d))'
  <2>1. d \in Clients /\ Accepted(d)
    BY <1>2, IndexType DEF Accepted
  <2>2. ~Away(d) /\ TestsTold(d)' = TestsTold(d)
    BY <1>1, <1>2, <2>1, StillIs DEF Good
  <2>3. TestServed(d)' = TestServed(d)
    BY <1>1, <2>2 DEF TestServed, serverVars, ClientIdx
  <2>4. HasNodes(TestServed(d))
    BY <1>2, <2>2 DEF NodesInv
  <2> QED BY <1>1, <2>3, <2>4 DEF HasNodes, serverVars
<1>3. ASSUME NEW d \in Clients, conn'[d] = "open", cPc'[d] = "ok" PROVE AsksRightly(d)'
  <2>1. CASE d # c
    <3>1. AsksRightly(d)
      BY <1>1, <1>3, <2>1 DEF NodesInv, Still
    <3> QED BY <1>1, <2>1, <3>1 DEF AsksRightly, Still, CurrentTest, Plan
  <2>2. CASE d = c
    <3>1. BeginTest(c)
      BY <1>3, <2>2
         DEF ClientNext, Connect, ConnectTooSoon, RecvAnswer, WrongAnswer, SendStart, SendEnd,
             RecvRecord, SendDone, NextClientEntry, ClientRaises, BenchmarkFails, RecordFails, ClientExit,
             ClientGoto, Following, Expected, TypeInv, TypeOK, ClientTypeOK
    <3>2. conn[c] = "open"
      BY <1>3, <2>2, <3>1 DEF BeginTest
    <3> QED BY <1>3, <2>2, <3>1, <3>2, BeginTestAsks DEF RoundInv
  <2> QED BY <2>1, <2>2
<1> QED BY <1>1, <1>2, <1>3 DEF NodesInv, serverVars

----------------------------------------------------------------------------
(* The steps of the server *)

\* Reading the number of nodes keeps NodesInv.
LEMMA RecvNumOfNodeNodes ==
  ASSUME TypeInv, RoundInv, NodesInv, NEW c \in Clients, RecvNumOfNode(c) PROVE NodesInv'
<1>1. /\ sPc = "numOfNode" /\ c = connArr[0] /\ Recv(c)
      /\ UNCHANGED <<setup, entry, connArr, clientVars>>
  BY DEF RecvNumOfNode, ServerExit, ServerGoto
<1>2. ClientInv(c) /\ Accepted(c) /\ ClientIdx(c) = 0 /\ Asks(c)
  <2>1. ClientInv(c) /\ Accepted(c) /\ ClientIdx(c) = 0
    BY <1>1, MasterAccepted DEF RoundInv
  <2>2. InStage(c, "asks")
    BY <1>1, <2>1 DEF ClientInv, View
  <2> QED BY <2>1, <2>2 DEF InStage
<1>3. \A d \in Clients : conn'[d] = "open" => conn[d] = "open"
  BY SendIs DEF RecvNumOfNode
<1>4. \A d \in Clients :
        toServer'[d] = toServer[d] \/ (toServer[d] # <<>> /\ toServer'[d] = Tail(toServer[d]))
  BY <1>1, RecvIs
<1>5. CASE ServerExit("error")
  BY <1>1, <1>3, <1>4, <1>5, NodesIdle DEF ServerExit, Loops
<1>6. CASE ~ServerExit("error")
  <2>1. numOfNode' = Received(c).val /\ sPc' = "spawn" /\ Send(c, "OK")
    BY <1>6 DEF RecvNumOfNode, ServerGoto
  <2>2. conn[c] = "open" /\ cPc[c] = "ok" /\ cEntry[c] = entry /\ toClient[c] = <<>>
    BY <1>2, OpenOrAway DEF Asks, Away, Active, ClientInv, Connected
  <2>3. numOfNode' = CurrentTest(c).nodes
    <3>1. PICK n \in Nat : toServer[c] = <<Num(n)>>
      BY <1>2 DEF Asks
    <3>2. 1 \in DOMAIN toServer[c] /\ toServer[c][1] = Num(n) /\ Head(toServer[c]) = Num(n)
      BY <3>1
    <3>3. AsksRightly(c)
      BY <1>1, <2>2 DEF NodesInv
    <3> QED BY <2>1, <3>2, <3>3 DEF AsksRightly, Received, Num
  <2>4. toClient'[c] = <<"OK">>
    BY <2>1, <2>2, SendIs, AppendIs
  <2>5. ~ToldReady(c) /\ ~ToldReady(c)'
    BY <2>2, <2>4, AnswersDiffer DEF ToldReady
  <2>6. TestsTold(c) = test[c] - 1 /\ TestsTold(c)' = test[c] - 1 /\ test[c] \in Nat
    BY <1>1, <2>2, <2>5
       DEF TestsTold, TestsSeen, InRound, clientVars, TypeInv, TypeOK, ClientTypeOK
  <2>7. HasNodes(test[c])'
    <3>1. test[c] \in 1 .. Len(Plan(c)) /\ test[c] \in DOMAIN Plan(c)
      <4>1. test[c] <= Len(Plan(c)) /\ test[c] \in Nat \ {0}
        BY <1>2, <2>2 DEF ClientInv, Position, TypeInv, TypeOK, ClientTypeOK
      <4>2. Plan(c) \in Seq([nodes : Nat, rounds : Nat])
        BY SetupType DEF Plan, TypeInv, TypeOK, ServerTypeOK, ClientTypeOK
      <4> QED BY <4>1, <4>2
    <3>2. entry \in DOMAIN setup.plan[c]
      BY <2>2, SetupAssumption DEF TypeInv, TypeOK, ServerTypeOK, ClientTypeOK
    <3> QED BY <1>1, <2>2, <2>3, <3>1, <3>2 DEF HasNodes, CurrentTest, Plan, clientVars
  <2>8. ASSUME NEW d \in Range(connArr'), ~Away(d)' PROVE HasNodes(TestServed(d))'
    <3>1. d \in Clients /\ d \in Range(connArr) /\ ~Away(d)
      BY <1>1, <2>8, IndexType DEF Away, clientVars
    <3>2. TestsTold(d) = TestsTold(c)
      <4>1. PICK t \in Nat, r \in Nat : \A e \in Range(connArr) : ~Away(e) => Told(e, t, r)
        BY <1>1 DEF RoundInv, Agreement
      <4>2. Told(c, t, r) /\ Told(d, t, r)
        BY <1>2, <2>2, <3>1, <4>1 DEF Accepted, Away, Active
      <4> QED BY <1>1, <4>2 DEF Told
    <3>3. TestsTold(d)' = TestsTold(d)
      <4>1. CASE d = c
        BY <2>6, <4>1
      <4>2. CASE d # c
        BY <1>1, <2>1, <3>1, <4>2, SendIs, ToldKept DEF ToldReady
      <4> QED BY <4>1, <4>2
    <3>4. TestServed(d)' = test[c]
      BY <2>1, <2>6, <3>2, <3>3 DEF TestServed
    <3>5. test'[c] = test[c]
      BY <1>1 DEF clientVars
    <3> QED BY <2>7, <3>4, <3>5
  <2>9. ASSUME NEW d \in Clients, conn'[d] = "open", cPc'[d] = "ok" PROVE AsksRightly(d)'
    <3>1. AsksRightly(d)
      BY <1>1, <1>3, <2>9 DEF NodesInv, clientVars
    <3> QED BY <1>1, <1>4, <3>1, ReadRightly
  <2> QED BY <2>1, <2>8, <2>9 DEF NodesInv, Loops
<1> QED BY <1>5, <1>6

\* Spawning a node keeps NodesInv.
LEMMA SpawnNodeNodes == ASSUME TypeInv, RoundInv, NodesInv, SpawnNode PROVE NodesInv'
<1>1. /\ sPc = "spawn" /\ UNCHANGED <<setup, entry, numOfNode, connArr, clientVars, netVars>>
      /\ sPc' = "spawn" \/ (sPc' = "ready" /\ i' = 0 /\ procObjs' = NodeIds(numOfNode))
  BY DEF SpawnNode, ServerGoto
<1>2. ASSUME NEW c \in Range(connArr) PROVE TestServed(c)' = TestServed(c)
  <2>1. ClientIdx(c) \in Nat /\ ClientIdx(c)' = ClientIdx(c)
    BY <1>1, IndexType DEF ClientIdx
  <2>2. TestsTold(c)' = TestsTold(c)
    BY <1>1, ToldKept DEF ToldReady, netVars
  <2> QED BY <1>1, <2>1, <2>2 DEF TestServed
<1> QED BY <1>1, <1>2, NodesKept DEF netVars, Loops

\* Telling a client to be ready keeps NodesInv.
LEMMA SignalReadyNodes ==
  ASSUME TypeInv, RoundInv, NodesInv, NEW c \in Clients, SignalReady(c) PROVE NodesInv'
<1>1. /\ Turn("ready", c) /\ Send(c, "R") /\ Goes("ready") /\ "ready" \in Loops
      /\ UNCHANGED <<setup, entry, connArr, numOfNode, procObjs, toServer, clientVars>>
  BY DEF SignalReady, Goes, NextLoop, Loops, ServerGoto
<1>2. /\ sPc = "ready" /\ ClientInv(c) /\ Accepted(c) /\ ClientIdx(c) = i
      /\ IsMaster(c) <=> i = 0
      /\ InStage(c, IF i = 0 THEN "answered" ELSE "settled")
  BY <1>1, InTurn, StageInTurn DEF TypeInv, TypeOK, ServerTypeOK
<1>3. /\ i \in Nat /\ total \in Nat /\ i < total
      /\ (Last /\ sPc' = "start") \/ (~Last /\ sPc' = "ready" /\ i' = i + 1)
  BY <1>1, <1>2 DEF Goes, ServerGoto, NextLoop, RoundInv, Roster, TypeInv, TypeOK, ServerTypeOK
<1>4. ASSUME NEW d \in Range(connArr), ~Away(d) PROVE TestServed(d)' = TestServed(d)
  <2>1. ClientIdx(d)' = ClientIdx(d) /\ d \in Clients /\ Accepted(d)
    BY <1>1, IndexType DEF ClientIdx, Accepted
  <2>2. CASE d = c
    <3>1. conn[c] = "open" /\ toClient'[c] = Append(toClient[c], "R")
      BY <1>1, <1>2, <1>4, <2>2, OpenOrAway, SendIs
    <3>2. Answered(c) \/ (Idle(c) /\ ~ToldReady(c) /\ ~IsMaster(c))
      BY <1>2, <1>4, <2>2 DEF InStage
    <3>3. TestsTold(c)' = TestsTold(c) + 1
      BY <1>1, <1>2, <1>4, <2>2, <3>1, <3>2, ReadySent DEF Tells
    <3> QED BY <1>2, <1>3, <2>1, <2>2, <3>3 DEF TestServed
  <2>3. CASE d # c
    <3>1. ClientIdx(d) \in 0 .. total - 1 /\ ClientIdx(d) # i
      BY <1>1, <1>2, <2>1, <2>3, Indexed DEF RoundInv, Turn
    <3>2. TestsTold(d)' = TestsTold(d)
      BY <1>1, <2>1, <2>3, SendIs, ToldKept DEF ToldReady
    <3> QED BY <1>2, <1>3, <2>1, <3>1, <3>2 DEF TestServed, Last
  <2> QED BY <2>2, <2>3
<1>5. \A d \in Clients : conn'[d] = "open" => conn[d] = "open"
  BY <1>1, SendIs
<1> QED BY <1>1, <1>2, <1>4, <1>5, NodesKept DEF NodesInv

\* In the rounds nobody is told of a test case.
LEMMA RoundNodes ==
  ASSUME TypeInv, NodesInv, sPc \in Loops \ {"ready"}, sPc' \in Loops \ {"ready"},
         UNCHANGED <<setup, entry, numOfNode, procObjs, connArr, clientVars>>,
         \A c \in Range(connArr) : ~Away(c) => ToldReady(c)' = ToldReady(c),
         \A c \in Clients : conn'[c] = "open" => conn[c] = "open",
         \A c \in Clients :
           toServer'[c] = toServer[c] \/ (toServer[c] # <<>> /\ toServer'[c] = Tail(toServer[c]))
  PROVE  NodesInv'
<1>1. ASSUME NEW c \in Range(connArr), ~Away(c) PROVE TestServed(c)' = TestServed(c)
  <2>1. TestsTold(c)' = TestsTold(c)
    BY <1>1, ToldKept
  <2> QED BY <2>1 DEF TestServed, Loops
<1> QED BY <1>1, NodesKept DEF NodesInv

\* Letting a client proceed keeps NodesInv.
LEMMA LetProceedNodes ==
  ASSUME TypeInv, RoundInv, NodesInv, NEW c \in Clients, LetProceed(c) PROVE NodesInv'
<1>1. /\ Turn("proceed", c) /\ Send(c, "Proceed") /\ "proceed" \in Loops
      /\ sPc' \in {"proceed", "end"}
      /\ UNCHANGED <<setup, entry, connArr, numOfNode, procObjs, toServer, clientVars>>
  BY DEF LetProceed, Loops, ServerGoto
<1>2. sPc = "proceed" /\ ClientInv(c) /\ Accepted(c) /\ InStage(c, "started")
  BY <1>1, InTurn, StageInTurn DEF TypeInv, TypeOK, ServerTypeOK
<1>3. ASSUME NEW d \in Range(connArr), ~Away(d) PROVE ToldReady(d)' = ToldReady(d)
  <2>1. CASE d = c
    <3>1. Started(c) /\ conn[c] = "open"
      BY <1>2, <1>3, <2>1, OpenOrAway DEF InStage, Away, Active, InRound
    <3>2. CASE toClient[c] = <<>>
      <4>1. toClient'[c] = <<"Proceed">>
        BY <1>1, <3>1, <3>2, SendIs, AppendIs
      <4> QED BY <2>1, <3>2, <4>1, AnswersDiffer DEF ToldReady
    <3>3. CASE toClient[c] = <<"R">>
      <4>1. toClient'[c] = <<"R", "Proceed">>
        BY <1>1, <3>1, <3>3, SendIs, AppendIs
      <4> QED BY <2>1, <3>3, <4>1 DEF ToldReady
    <3> QED BY <3>1, <3>2, <3>3 DEF Started
  <2>2. CASE d # c
    BY <1>1, <1>3, <2>2, SendIs, IndexType DEF ToldReady
  <2> QED BY <2>1, <2>2
<1>4. \A d \in Clients : conn'[d] = "open" => conn[d] = "open"
  BY <1>1, SendIs
<1> QED BY <1>1, <1>2, <1>3, <1>4, RoundNodes DEF Loops

\* Telling a client that the round is recorded keeps NodesInv.
LEMMA SendRecordNodes ==
  ASSUME TypeInv, RoundInv, NodesInv, NEW c \in Clients, SendRecord(c) PROVE NodesInv'
<1>1. /\ Turn("reply", c) /\ Send(c, "Record") /\ "reply" \in Loops
      /\ sPc' \in {"reply", "start"}
      /\ UNCHANGED <<setup, entry, connArr, numOfNode, procObjs, toServer, clientVars>>
  BY DEF SendRecord, Loops, ServerGoto
<1>2. sPc = "reply" /\ ClientInv(c) /\ Accepted(c) /\ InStage(c, "ended")
  BY <1>1, InTurn, StageInTurn DEF TypeInv, TypeOK, ServerTypeOK
<1>3. ASSUME NEW d \in Range(connArr), ~Away(d) PROVE ToldReady(d)' = ToldReady(d)
  <2>1. CASE d = c
    <3>1. toClient[c] = <<>> /\ conn[c] = "open"
      BY <1>2, <1>3, <2>1, OpenOrAway DEF InStage, Ended
    <3>2. toClient'[c] = <<"Record">>
      BY <1>1, <3>1, SendIs, AppendIs
    <3> QED BY <2>1, <3>1, <3>2, AnswersDiffer DEF ToldReady
  <2>2. CASE d # c
    BY <1>1, <1>3, <2>2, SendIs, IndexType DEF ToldReady
  <2> QED BY <2>1, <2>2
<1>4. \A d \in Clients : conn'[d] = "open" => conn[d] = "open"
  BY <1>1, SendIs
<1> QED BY <1>1, <1>2, <1>3, <1>4, RoundNodes DEF Loops

\* A message is collected.
LEMMA CollectNodes ==
  ASSUME TypeInv, RoundInv, NodesInv, NEW c \in Clients, CollectStart(c) \/ CollectEnd(c)
  PROVE  NodesInv'
<1>1. /\ Turn("start", c) \/ Turn("end", c)
      /\ Recv(c) /\ UNCHANGED <<setup, connArr, numOfNode, conn, toClient, clientVars>>
  BY DEF CollectStart, CollectEnd, StartCollected, EndTestCase, ServerExit, ServerGoto
<1>2. \A d \in Clients :
        toServer'[d] = toServer[d] \/ (toServer[d] # <<>> /\ toServer'[d] = Tail(toServer[d]))
  BY <1>1, RecvIs
<1>3. sPc \in Loops \ {"ready"} /\ sPc # "exited"
  BY <1>1 DEF Turn, Loops
<1>4. CASE sPc' \in {"listen", "exited"}
  BY <1>1, <1>2, <1>3, <1>4, NodesIdle DEF Loops
<1>5. CASE sPc' \notin {"listen", "exited"}
  <2>1. sPc' \in Loops \ {"ready"} /\ UNCHANGED <<entry, procObjs>>
    BY <1>5
       DEF CollectStart, CollectEnd, StartCollected, EndTestCase, ServerExit, ServerGoto, Loops
  <2>2. \A d : ToldReady(d)' = ToldReady(d)
    BY <1>1 DEF ToldReady
  <2> QED BY <1>1, <1>2, <1>3, <2>1, <2>2, RoundNodes
<1> QED BY <1>4, <1>5

\* What the server does between test cases, and how it ends.
LEMMA OtherNodes ==
  ASSUME TypeInv, NodesInv,
         \/ BindNext \/ ConfigureFails \/ SpawnFails
         \/ \E c \in Clients : AcceptClient(c) \/ Listen(c) \/ ServerRaises(c)
  PROVE  NodesInv'
<1>1. sPc # "exited" /\ sPc' \notin Loops \cup {"spawn"} /\ UNCHANGED <<setup, clientVars>>
  BY DEF BindNext, NextEntry, ConfigureFails, SpawnFails, AcceptClient, Listen, ServerRaises,
         ServerExit, ServerGoto, Turn, Loops
<1>2. ASSUME NEW d \in Clients, conn'[d] = "open" PROVE conn[d] = "open"
  BY <1>2 DEF BindNext, NextEntry, ConfigureFails, SpawnFails, AcceptClient, Listen, ServerRaises,
              netVars
<1>3. \A d \in Clients :
        toServer'[d] = toServer[d] \/ (toServer[d] # <<>> /\ toServer'[d] = Tail(toServer[d]))
  BY RecvIs DEF BindNext, ConfigureFails, SpawnFails, AcceptClient, Listen, ServerRaises, netVars
<1> QED BY <1>1, <1>2, <1>3, NodesIdle

----------------------------------------------------------------------------
(* All of it *)

\* NodesInv holds at first.
LEMMA InitNodes == Init => NodesInv
BY DEF Init, NodesInv, Loops

\* Every step keeps NodesInv.
LEMMA NextNodes == ASSUME PortsDiffer, TypeInv, RoundInv, NodesInv, [Next]_vars PROVE NodesInv'
<1>1. CASE sPc = "exited"
  <2>1. sPc' = "exited"
    BY <1>1 DEF Next, ServerNext, ClientNext, Faults, BindNext, SpawnNode, ConfigureFails,
                AcceptClient, Listen, RecvNumOfNode, SignalReady, CollectStart, LetProceed,
                CollectEnd, SendRecord, ServerRaises, Turn, Connect, ConnectTooSoon, BeginTest,
                RecvAnswer, WrongAnswer, SendStart, SendEnd, RecvRecord, SendDone, NextClientEntry,
                ClientRaises, ClientExit, BenchmarkFails, RecordFails, SpawnFails, NodeCrashes, serverVars, vars
  <2> QED BY <2>1 DEF NodesInv, Loops
<1>2. CASE sPc # "exited"
  <2>1. ASSUME UNCHANGED <<setup, serverVars, netVars, clientVars>> PROVE NodesInv'
    <3>1. \A c : TestServed(c)' = TestServed(c)
      BY <2>1 DEF TestServed, TestsTold, TestsSeen, ToldReady, ClientIdx, serverVars, netVars,
                  clientVars
    <3>2. \A c : AsksRightly(c)' = AsksRightly(c) /\ Away(c)' = Away(c)
      BY <2>1 DEF AsksRightly, Away, CurrentTest, Plan, netVars, clientVars
    <3>3. \A t : HasNodes(t)' = HasNodes(t)
      BY <2>1 DEF HasNodes, serverVars
    <3> QED BY <2>1, <3>1, <3>2, <3>3 DEF NodesInv, serverVars, netVars, clientVars
  <2>2. CASE NodeCrashes \/ UNCHANGED vars
    BY <2>1, <2>2 DEF NodeCrashes, vars
  <2>3. ASSUME NEW c \in Clients,
               RecvNumOfNode(c) \/ SignalReady(c) \/ LetProceed(c) \/ SendRecord(c)
                 \/ CollectStart(c) \/ CollectEnd(c)
        PROVE  NodesInv'
    BY <2>3, RecvNumOfNodeNodes, SignalReadyNodes, LetProceedNodes, SendRecordNodes, CollectNodes
  <2> QED BY <1>2, <2>2, <2>3, SpawnNodeNodes, OtherNodes, ClientNodes DEF Next, ServerNext, Faults
<1> QED BY <1>1, <1>2

\* While a client runs its benchmark (ExecuteWorkload) the server holds the nodes of that
\* client's test case, which only the master has asked for (RunOneTestCase).
THEOREM NodesServe == ASSUME PortsDiffer, SameNodes PROVE Spec => []NodesServeTheTest
<1>1. Init => TypeInv /\ RoundInv /\ NodesInv
  BY InitTypeInv, InitRound, InitNodes
<1>2. (TypeInv /\ RoundInv /\ NodesInv) /\ [Next]_vars => (TypeInv /\ RoundInv /\ NodesInv)'
  BY NextTypeInv, NextRound, NextNodes
<1>3. TypeInv /\ RoundInv /\ NodesInv => NodesServeTheTest
  <2> SUFFICES ASSUME TypeInv, RoundInv, NodesInv, NEW c \in Clients, cPc[c] = "ycsb",
                      sPc # "exited"
               PROVE  procObjs = NodeIds(CurrentTest(c).nodes)
    BY DEF NodesServeTheTest
  <2>1. ClientInv(c) /\ Accepted(c) /\ ~Away(c)
    BY DEF RoundInv, CanYcsb, Away, Active, InRound
  <2>2. View(ClientIdx(c)) = "running"
    BY <2>1 DEF ClientInv, InStage, Fresh, Idle, Started, Ended, Asks, Answered
  <2>3. sPc \in {"proceed", "end"}
    BY <2>2 DEF View, TypeInv, TypeOK, ServerTypeOK
  <2>4. TestServed(c) = test[c]
    <3>1. ~ToldReady(c)
      BY <2>1, AnswersDiffer DEF ClientInv, InFlight, ToldReady
    <3> QED BY <2>3, <3>1 DEF TestServed, TestsTold, TestsSeen, InRound
  <2>5. procObjs = NodeIds(numOfNode) /\ HasNodes(test[c])
    BY <2>1, <2>3, <2>4 DEF NodesInv, Loops, Accepted
  <2>6. PICK d \in Clients :
          /\ entry \in DOMAIN setup.plan[d] /\ test[c] \in DOMAIN setup.plan[d][entry]
          /\ setup.plan[d][entry][test[c]].nodes = numOfNode
    BY <2>5 DEF HasNodes
  <2>7. cEntry[c] = entry
    BY <2>1, OpenOrAway DEF ClientInv, Connected
  <2>8. entry \in DOMAIN setup.plan[c] /\ test[c] \in DOMAIN setup.plan[c][entry]
    <3>1. entry \in DOMAIN setup.plan[c]
      BY <2>7, SetupAssumption DEF TypeInv, TypeOK, ServerTypeOK, ClientTypeOK
    <3>2. setup.plan[c][entry] \in Seq([nodes : Nat, rounds : Nat])
      BY <2>7, SetupType DEF TypeInv, TypeOK, ServerTypeOK, ClientTypeOK
    <3>3. test[c] <= Len(setup.plan[c][entry]) /\ test[c] \in Nat \ {0}
      BY <2>1, <2>7 DEF ClientInv, Position, InRound, Plan, TypeInv, TypeOK, ClientTypeOK
    <3>4. \A s \in Seq([nodes : Nat, rounds : Nat]) : \A n \in Nat \ {0} :
            n <= Len(s) => n \in DOMAIN s
      OBVIOUS
    <3> QED BY <3>1, <3>2, <3>3, <3>4, Zenon
  <2>9. setup.plan[c][entry][test[c]].nodes = numOfNode
    BY <2>6, <2>8 DEF SameNodes, TypeInv, TypeOK, ServerTypeOK
  <2> QED BY <2>5, <2>7, <2>9 DEF CurrentTest, Plan
<1> QED BY <1>1, <1>2, <1>3, PTL DEF Spec
=============================================================================
