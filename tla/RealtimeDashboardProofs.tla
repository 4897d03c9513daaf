----------------------- MODULE RealtimeDashboardProofs -----------------------
(* Theorems about RealtimeDashboard, for any clients, connection ids and   *)
(* queue size.                                                             *)
EXTENDS RealtimeDashboard, TLAPS

-----------------------------------------------------------------------------
(* Type correctness.                                                       *)

LEMMA ThresholdBelowSize ==
  ASSUME NEW n \in Nat \ {0}
  PROVE  (4 * n) \div 5 \in Nat /\ (4 * n) \div 5 < n
  OBVIOUS

LEMMA InitTypeOK == Init => TypeOK
<1>1. 0 \in 0..(QueueSize - 1)
  BY DashboardAssumption
<1>. QED BY <1>1 DEF Init, TypeOK

LEMMA LeaveType ==
  ASSUME TypeOK, NEW c \in Clients, Leave(c)
  PROVE  TypeOK'
  BY DEF TypeOK, Leave, Disconnect

LEMMA PublishType ==
  ASSUME TypeOK, Publish
  PROVE  pending' \in [Clients -> 0..(QueueSize - 1)]
<1>1. ASSUME NEW c \in Clients
      PROVE  (IF c \in feed /\ ~IsLagging(c) THEN pending[c] + 1 ELSE pending[c])
               \in 0..(QueueSize - 1)
  <2>1. pending[c] \in 0..(QueueSize - 1) /\ QueueSize \in Nat \ {0}
    BY DashboardAssumption DEF TypeOK
  <2>. QED BY <2>1, ThresholdBelowSize DEF IsLagging
<1>. QED BY <1>1 DEF Publish

LEMMA NextTypeOK == TypeOK /\ [Next]_vars => TypeOK'
<1> SUFFICES ASSUME TypeOK, [Next]_vars PROVE TypeOK'
  OBVIOUS
<1>1. ASSUME NEW c \in Clients, NEW i \in ConnIds, StartClient(c, i) PROVE TypeOK'
  BY <1>1 DEF StartClient, Connect, TypeOK
<1>2. ASSUME NEW c \in Clients, Receive(c) PROVE TypeOK'
  <2>1. CASE c \in due
    BY <1>2, <2>1, LeaveType DEF Receive
  <2>2. CASE c \notin due
    <3>1. pending' = [pending EXCEPT ![c] = 0]
          /\ UNCHANGED <<main, client, connId, registry, queues, feed, due, producer, stop>>
      BY <1>2, <2>2 DEF Receive, tables
    <3>2. pending' \in [Clients -> 0..(QueueSize - 1)]
      BY <3>1, DashboardAssumption DEF TypeOK
    <3>. QED BY <3>1, <3>2 DEF TypeOK
  <2>. QED BY <2>1, <2>2
<1>3. ASSUME NEW c \in Clients, CancelClient(c) PROVE TypeOK'
  BY <1>3, LeaveType DEF CancelClient
<1>4. ASSUME NEW c \in Clients, DeadlinePasses(c) PROVE TypeOK'
  BY <1>4 DEF DeadlinePasses, tables, TypeOK
<1>5. CASE ProducerStep
  <2>1. pending' \in [Clients -> 0..(QueueSize - 1)] /\ producer' \in {"running", "done"}
    <3>1. CASE stop
      BY <1>5, <3>1 DEF ProducerStep, TypeOK
    <3>2. CASE ~stop
      BY <1>5, <3>2, PublishType DEF ProducerStep, Publish, TypeOK
    <3>. QED BY <3>1, <3>2
  <2>. QED BY <1>5, <2>1 DEF ProducerStep, tables, TypeOK
<1>6. ASSUME NEW c \in Clients, SpawnClient(c) PROVE TypeOK'
  BY <1>6 DEF SpawnClient, tables, TypeOK
<1>7. CASE AllSpawned \/ GatherEnds \/ SimulationOver
  BY <1>7 DEF AllSpawned, GatherEnds, SimulationOver, tables, TypeOK
<1>8. CASE UNCHANGED vars
  BY <1>8 DEF vars, TypeOK
<1>. QED BY <1>1, <1>2, <1>3, <1>4, <1>5, <1>6, <1>7, <1>8 DEF Next, ClientStep, MainStep

\* Every reachable state of the dashboard is well typed; the queue of a client
\* always has room for its stop signal.
THEOREM TypeCorrect == Spec => []TypeOK
  BY InitTypeOK, NextTypeOK, PTL DEF Spec

-----------------------------------------------------------------------------
(* The three tables.                                                       *)

\* A client has an id from its connect on.
TableInv ==
  /\ TablesAgree
  /\ \A c \in Clients : client[c] \in {"unborn", "spawned"} => connId[c] = {}

LEMMA LeaveTableInv ==
  ASSUME TypeOK, TableInv, NEW c \in Clients, client[c] = "reading", Leave(c)
  PROVE  TableInv'
<1>1. PICK i \in connId[c] : Disconnect(i)
  BY DEF Leave
<1>2. connId[c] = {i} /\ i \in ConnIds
  BY <1>1 DEF TypeOK
<1>3. /\ feed' = feed \ {c} /\ client' = [client EXCEPT ![c] = "done"]
      /\ UNCHANGED connId
  BY DEF Leave
<1>4. \A j \in ConnIds : registry'[j] = IF j = i THEN {} ELSE registry[j]
  BY <1>1 DEF Disconnect, TypeOK
<1>5. feed' = {d \in Clients : client'[d] = "reading"}
  BY <1>3 DEF TableInv, TablesAgree, TypeOK
<1>6. registry' = queues'
  BY <1>1 DEF Disconnect, TableInv, TablesAgree
<1>7. ASSUME NEW j \in ConnIds, NEW d \in registry'[j] PROVE d \in feed' /\ connId'[d] = {j}
  <2>1. j # i /\ d \in registry[j]
    BY <1>4, <1>7
  <2>2. d \in feed /\ connId[d] = {j}
    BY <2>1 DEF TableInv, TablesAgree
  <2>. QED BY <1>2, <1>3, <2>1, <2>2
<1>8. ASSUME NEW d \in feed', \A e \in Clients \ {d} : connId'[e] \cap connId'[d] = {}
      PROVE  \E j \in connId'[d] : d \in registry'[j]
  <2>1. d \in feed /\ d # c /\ connId[c] \cap connId[d] = {} /\ d \in Clients
    BY <1>3, <1>8 DEF TypeOK
  <2>2. PICK j \in connId[d] : d \in registry[j]
    BY <1>3, <1>8, <2>1 DEF TableInv, TablesAgree
  <2>3. j \in ConnIds /\ j # i
    BY <1>2, <2>1, <2>2 DEF TypeOK
  <2>. QED BY <1>3, <1>4, <2>2, <2>3
<1>9. \A d \in Clients : client'[d] \in {"unborn", "spawned"} => connId'[d] = {}
  BY <1>3 DEF TableInv, TypeOK
<1>. QED BY <1>5, <1>6, <1>7, <1>8, <1>9 DEF TableInv, TablesAgree

LEMMA NextTableInv == TypeOK /\ TableInv /\ [Next]_vars => TableInv'
<1> SUFFICES ASSUME TypeOK, TableInv, [Next]_vars PROVE TableInv'
  OBVIOUS
<1>1. CASE UNCHANGED <<client, connId, registry, queues, feed>>
  BY <1>1 DEF TableInv, TablesAgree
<1>2. ASSUME NEW c \in Clients, NEW i \in ConnIds, StartClient(c, i) PROVE TableInv'
  <2>1. /\ client[c] = "spawned" /\ client' = [client EXCEPT ![c] = "reading"]
        /\ connId' = [connId EXCEPT ![c] = {i}]
        /\ registry' = [registry EXCEPT ![i] = {c}]
        /\ queues' = [queues EXCEPT ![i] = {c}]
        /\ feed' = feed \cup {c}
    BY <1>2 DEF StartClient, Connect
  <2>2. connId[c] = {} /\ c \notin feed
    BY <2>1 DEF TableInv, TablesAgree
  <2>3. /\ \A d \in Clients : connId'[d] = IF d = c THEN {i} ELSE connId[d]
        /\ \A j \in ConnIds : registry'[j] = IF j = i THEN {c} ELSE registry[j]
    BY <2>1 DEF TypeOK
  <2>4. feed' = {d \in Clients : client'[d] = "reading"}
    BY <2>1 DEF TableInv, TablesAgree, TypeOK
  <2>5. registry' = queues'
    BY <2>1 DEF TableInv, TablesAgree
  <2>6. ASSUME NEW j \in ConnIds, NEW d \in registry'[j] PROVE d \in feed' /\ connId'[d] = {j}
    <3>1. CASE j = i
      BY <2>1, <2>3, <2>6, <3>1
    <3>2. CASE j # i
      <4>1. d \in feed /\ connId[d] = {j} /\ d \in Clients
        BY <2>3, <2>6, <3>2 DEF TableInv, TablesAgree, TypeOK
      <4>. QED BY <2>1, <2>2, <2>3, <4>1
    <3>. QED BY <3>1, <3>2
  <2>7. ASSUME NEW d \in feed', \A e \in Clients \ {d} : connId'[e] \cap connId'[d] = {}
        PROVE  \E j \in connId'[d] : d \in registry'[j]
    <3>1. CASE d = c
      BY <2>3, <3>1
    <3>2. CASE d # c
      <4>1. d \in feed /\ d \in Clients /\ connId'[d] = connId[d] /\ i \notin connId[d]
        BY <2>1, <2>3, <2>7, <3>2 DEF TypeOK
      <4>2. \A e \in Clients \ {d} : connId[e] \cap connId[d] = {}
        BY <2>2, <2>3, <2>7, <4>1
      <4>3. PICK j \in connId[d] : d \in registry[j]
        BY <4>1, <4>2 DEF TableInv, TablesAgree
      <4>4. j \in ConnIds /\ j # i
        BY <4>1, <4>3 DEF TypeOK
      <4>. QED BY <2>3, <4>1, <4>3, <4>4
    <3>. QED BY <3>1, <3>2
  <2>8. \A d \in Clients : client'[d] \in {"unborn", "spawned"} => connId'[d] = {}
    BY <2>1 DEF TableInv, TypeOK
  <2>. QED BY <2>4, <2>5, <2>6, <2>7, <2>8 DEF TableInv, TablesAgree
<1>3. ASSUME NEW c \in Clients, Receive(c) PROVE TableInv'
  <2>1. CASE c \in due
    BY <1>3, <2>1, LeaveTableInv DEF Receive
  <2>2. CASE c \notin due
    BY <1>1, <1>3, <2>2 DEF Receive, tables
  <2>. QED BY <2>1, <2>2
<1>4. ASSUME NEW c \in Clients, CancelClient(c) PROVE TableInv'
  BY <1>4, LeaveTableInv DEF CancelClient
<1>5. ASSUME NEW c \in Clients, SpawnClient(c) PROVE TableInv'
  <2>1. /\ client[c] = "unborn" /\ client' = [client EXCEPT ![c] = "spawned"]
        /\ UNCHANGED <<connId, registry, queues, feed>>
    BY <1>5 DEF SpawnClient, tables
  <2>2. feed' = {d \in Clients : client'[d] = "reading"}
    BY <2>1 DEF TableInv, TablesAgree, TypeOK
  <2>3. \A d \in Clients : client'[d] \in {"unborn", "spawned"} => connId'[d] = {}
    BY <2>1 DEF TableInv, TypeOK
  <2>. QED BY <2>1, <2>2, <2>3 DEF TableInv, TablesAgree
<1>6. ASSUME NEW c \in Clients, DeadlinePasses(c) PROVE TableInv'
  BY <1>1, <1>6 DEF DeadlinePasses, tables
<1>7. CASE ProducerStep \/ AllSpawned \/ GatherEnds \/ SimulationOver
  BY <1>1, <1>7 DEF ProducerStep, AllSpawned, GatherEnds, SimulationOver, tables
<1>8. CASE UNCHANGED vars
  BY <1>1, <1>8 DEF vars
<1>. QED BY <1>2, <1>3, <1>4, <1>5, <1>6, <1>7, <1>8 DEF Next, ClientStep, MainStep

LEMMA TableInvariant == Spec => []TableInv
<1>1. Init => TableInv
  BY DEF Init, TableInv, TablesAgree
<1>. QED BY <1>1, NextTableInv, TypeCorrect, PTL DEF Spec

\* Registry, controller and bus agree about who is connected in every reachable
\* state, even when connection ids repeat.
THEOREM TablesAlwaysAgree == Spec => []TablesAgree
<1>1. TableInv => TablesAgree
  BY DEF TableInv
<1>. QED BY <1>1, TableInvariant, PTL

-----------------------------------------------------------------------------
(* The end.                                                                *)

\* stop_event is set when every client is gone, and awaited before the summary.
EndInv ==
  /\ main \in {"stopping", "done"} => \A c \in Clients : client[c] = "done"
  /\ main = "done" => producer = "done"

LEMMA NextEndInv == TypeOK /\ EndInv /\ [Next]_vars => EndInv'
<1> SUFFICES ASSUME TypeOK, EndInv, [Next]_vars PROVE EndInv'
  OBVIOUS
<1>1. CASE UNCHANGED <<main, client, producer>>
  BY <1>1 DEF EndInv
<1>2. ASSUME NEW c \in Clients, ClientStep(c) \/ CancelClient(c) PROVE EndInv'
  <2>1. client[c] # "done" /\ main' = main /\ producer' = producer
    BY <1>2 DEF ClientStep, StartClient, Receive, CancelClient, Leave
  <2>. QED BY <2>1 DEF EndInv
<1>3. ASSUME NEW c \in Clients, DeadlinePasses(c) PROVE EndInv'
  BY <1>1, <1>3 DEF DeadlinePasses
<1>4. CASE ProducerStep
  BY <1>4 DEF ProducerStep, Publish, EndInv
<1>5. ASSUME NEW c \in Clients, SpawnClient(c) PROVE EndInv'
  BY <1>5 DEF SpawnClient, EndInv
<1>6. CASE AllSpawned \/ GatherEnds \/ SimulationOver
  BY <1>6 DEF AllSpawned, GatherEnds, SimulationOver, EndInv
<1>7. CASE UNCHANGED vars
  BY <1>1, <1>7 DEF vars
<1>. QED BY <1>2, <1>3, <1>4, <1>5, <1>6, <1>7 DEF Next, MainStep

\* The summary of the simulation reports no active connection, whatever happened
\* before.
THEOREM SummaryIsAlwaysZero == Spec => []SummaryIsZero
<1>1. Init => EndInv
  BY DEF Init, EndInv
<1>2. TypeOK /\ TableInv /\ EndInv => SummaryIsZero
  BY DEF TypeOK, TableInv, TablesAgree, EndInv, SummaryIsZero
<1>. QED BY <1>1, <1>2, NextEndInv, TableInvariant, TypeCorrect, PTL DEF Spec

-----------------------------------------------------------------------------
(* Nobody waits for ever.                                                  *)

\* The producer is stopped by the last client's end, and by nothing else.
ProducerInv ==
  /\ stop => \A c \in Clients : client[c] = "done"
  /\ producer = "done" => stop

LEMMA NextProducerInv == TypeOK /\ ProducerInv /\ [Next]_vars => ProducerInv'
<1> SUFFICES ASSUME TypeOK, ProducerInv, [Next]_vars PROVE ProducerInv'
  OBVIOUS
<1>1. CASE UNCHANGED <<client, producer, stop>>
  BY <1>1 DEF ProducerInv
<1>2. ASSUME NEW c \in Clients,
             ClientStep(c) \/ CancelClient(c) \/ SpawnClient(c)
      PROVE  ProducerInv'
  <2>1. client[c] # "done"
    BY <1>2 DEF ClientStep, StartClient, Receive, CancelClient, SpawnClient
  <2>2. stop' = stop /\ producer' = producer
    BY Zenon, <1>2 DEF ClientStep, StartClient, Receive, CancelClient, Leave, SpawnClient
  <2>3. ~stop /\ producer # "done"
    BY Zenon, <2>1 DEF ProducerInv
  <2>4. ~stop' /\ producer' # "done"
    BY Zenon, <2>2, <2>3
  <2>. QED BY Zenon, <2>4 DEF ProducerInv
<1>3. CASE ProducerStep
  BY <1>3 DEF ProducerStep, Publish, ProducerInv
<1>4. CASE GatherEnds
  BY <1>4 DEF GatherEnds, ProducerInv
<1>5. ASSUME NEW c \in Clients, DeadlinePasses(c) PROVE UNCHANGED <<client, producer, stop>>
  BY <1>5 DEF DeadlinePasses
<1>6. AllSpawned \/ SimulationOver \/ UNCHANGED vars => UNCHANGED <<client, producer, stop>>
  BY DEF AllSpawned, SimulationOver, vars
<1>. QED BY <1>1, <1>2, <1>3, <1>4, <1>5, <1>6 DEF Next, MainStep

\* A client in get() has a message there or gets the next one that is published,
\* by a producer that is still running.
NobodyIsStranded ==
  \A c \in Clients : client[c] = "reading" =>
    /\ producer = "running" /\ ~stop
    /\ pending[c] > 0 \/ (c \in feed /\ ~IsLagging(c))

\* Clients look at their deadline only after a message; no client is ever left
\* without one to come, for any number of clients that join, leave and are
\* cancelled in any order: the safety half of SimulationEnds.  A queue of one is
\* out of the question, for is_lagging then counts an empty queue as lagging.
THEOREM ClientsAreFed == QueueSize > 1 /\ Spec => []NobodyIsStranded
<1> SUFFICES ASSUME QueueSize > 1 PROVE Spec => []NobodyIsStranded
  OBVIOUS
<1>1. Init => ProducerInv
  BY Zenon DEF Init, ProducerInv
<1>2. TypeOK /\ TableInv /\ ProducerInv => NobodyIsStranded
  <2> SUFFICES ASSUME TypeOK, TableInv, ProducerInv, NEW c \in Clients, client[c] = "reading"
               PROVE  /\ producer = "running" /\ ~stop
                      /\ pending[c] > 0 \/ (c \in feed /\ ~IsLagging(c))
    BY DEF NobodyIsStranded
  <2>1. ~stop /\ producer = "running"
    BY DEF ProducerInv, TypeOK
  <2>2. c \in feed
    BY DEF TableInv, TablesAgree
  <2>3. pending[c] \in Nat /\ (4 * QueueSize) \div 5 > 0
    BY DashboardAssumption DEF TypeOK
  <2>4. pending[c] > 0 \/ ~IsLagging(c)
    BY <2>3, DashboardAssumption DEF IsLagging
  <2>. QED BY Zenon, <2>1, <2>2, <2>4
<1>. QED BY <1>1, <1>2, NextProducerInv, TableInvariant, TypeCorrect, PTL DEF Spec
=============================================================================
