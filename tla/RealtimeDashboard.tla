------------------------- MODULE RealtimeDashboard -------------------------
(***************************************************************************)
(* run_simulation() (examples/realtime_dashboard.py): client handlers that *)
(* share a ConnectionManager, i.e. a ConnectionRegistry and a              *)
(* BackpressureController (patterns/backpressure.py), and one channel of   *)
(* an InMemoryMessageBus on which a producer publishes until every client  *)
(* is gone.                                                                *)
(*                                                                         *)
(* A handler suspends only in get() on an empty queue: connecting, working *)
(* through what is queued and the whole finally block are single steps,    *)
(* since FakeWebSocket never waits.  Nobody enqueues to the SendQueues of  *)
(* the controller; SendQueue models one.  Payloads, and what a socket has  *)
(* received, are left out.                                                 *)
(***************************************************************************)
EXTENDS Naturals

CONSTANTS
  Clients,
  ConnIds,
  QueueSize   \* max_queue_size of a subscriber

ASSUME DashboardAssumption == QueueSize \in Nat \ {0}

VARIABLES
  main,      \* run_simulation: "spawning", "gathering", "stopping", "done"
  client,    \* "unborn", "spawned", "reading", "done"
  connId,    \* {} or the connection id of each client
  registry,  \* ConnectionRegistry._connections: whose task is under each id
  queues,    \* BackpressureController._queues: for whom each was made
  feed,      \* clients subscribed to FEED_CHANNEL
  pending,   \* messages in the queue of each subscriber
  due,       \* clients whose deadline has passed
  producer,  \* "running", "done"
  stop       \* stop_event

vars == <<main, client, connId, registry, queues, feed, pending, due, producer, stop>>

tables == <<registry, queues, feed>>

-----------------------------------------------------------------------------
(* ConnectionManager.                                                      *)

\* An entry under an id in use replaces the old one, in either table.
Connect(c, i) ==
  /\ registry' = [registry EXCEPT ![i] = {c}]
  /\ queues' = [queues EXCEPT ![i] = {c}]

\* Mutant: the send queue is never removed.
DisconnectKeepsQueue(i) ==
  /\ registry' = [registry EXCEPT ![i] = {}]
  /\ UNCHANGED queues

\* Either entry is popped by id, whoever it belongs to.
Disconnect(i) ==
  /\ registry' = [registry EXCEPT ![i] = {}]
  /\ queues' = [queues EXCEPT ![i] = {}]

-----------------------------------------------------------------------------
(* client_handler.                                                         *)

StartClient(c, i) ==
  /\ client[c] = "spawned"
  /\ client' = [client EXCEPT ![c] = "reading"]
  /\ connId' = [connId EXCEPT ![c] = {i}]
  /\ Connect(c, i)
  /\ feed' = feed \cup {c}
  /\ UNCHANGED <<main, pending, due, producer, stop>>

\* The finally block.
Leave(c) ==
  /\ client' = [client EXCEPT ![c] = "done"]
  /\ feed' = feed \ {c}
  /\ \E i \in connId[c] : Disconnect(i)
  /\ UNCHANGED <<main, connId, pending, due, producer, stop>>

DeadlinePasses(c) ==
  /\ client[c] = "reading"
  /\ due' = due \cup {c}
  /\ UNCHANGED <<main, client, connId, tables, pending, producer, stop>>

\* get() returns.  The deadline is looked at after each message: a client whose
\* deadline has passed leaves with the first one, another works through its
\* queue and waits again.
Receive(c) ==
  /\ client[c] = "reading"
  /\ pending[c] > 0
  /\ IF c \in due
       THEN Leave(c)
       ELSE /\ pending' = [pending EXCEPT ![c] = 0]
            /\ UNCHANGED <<main, client, connId, tables, due, producer, stop>>

\* The task is cancelled through its entry in the registry, as close_all does:
\* the handler takes CancelledError for an ordinary end.
CancelClient(c) ==
  /\ client[c] = "reading"
  /\ \E i \in connId[c] : c \in registry[i]
  /\ Leave(c)

-----------------------------------------------------------------------------
(* metrics_producer.                                                       *)

IsLagging(c) == pending[c] >= (4 * QueueSize) \div 5

\* Mutant: lagging subscribers are not skipped.
PublishToAll ==
  /\ pending' = [c \in Clients |-> IF c \in feed /\ pending[c] < QueueSize
                                     THEN pending[c] + 1 ELSE pending[c]]
  /\ UNCHANGED producer

\* bus.publish() with skip_lagging, which leaves room in every queue.
Publish ==
  /\ pending' = [c \in Clients |-> IF c \in feed /\ ~IsLagging(c)
                                     THEN pending[c] + 1 ELSE pending[c]]
  /\ UNCHANGED producer

\* The producer wakes up, and goes on unless stop_event is set.
ProducerStep ==
  /\ producer = "running"
  /\ IF stop THEN producer' = "done" /\ UNCHANGED pending ELSE Publish
  /\ UNCHANGED <<main, client, connId, tables, due, stop>>

-----------------------------------------------------------------------------
(* run_simulation.                                                         *)

SpawnClient(c) ==
  /\ main = "spawning"
  /\ client[c] = "unborn"
  /\ client' = [client EXCEPT ![c] = "spawned"]
  /\ UNCHANGED <<main, connId, tables, pending, due, producer, stop>>

AllSpawned ==
  /\ main = "spawning"
  /\ \A c \in Clients : client[c] # "unborn"
  /\ main' = "gathering"
  /\ UNCHANGED <<client, connId, tables, pending, due, producer, stop>>

\* Mutant: stop_event is set before the clients are awaited.
GatherEndsEarly ==
  /\ main = "gathering"
  /\ IF stop THEN main' = "stopping" /\ \A c \in Clients : client[c] = "done"
             ELSE main' = main
  /\ stop' = TRUE
  /\ UNCHANGED <<client, connId, tables, pending, due, producer>>

GatherEnds ==
  /\ main = "gathering"
  /\ \A c \in Clients : client[c] = "done"
  /\ main' = "stopping"
  /\ stop' = TRUE
  /\ UNCHANGED <<client, connId, tables, pending, due, producer>>

\* Mutant: the producer is not awaited.
SimulationOverAtOnce ==
  /\ main = "stopping"
  /\ main' = "done"
  /\ UNCHANGED <<client, connId, tables, pending, due, producer, stop>>

SimulationOver ==
  /\ main = "stopping"
  /\ producer = "done"
  /\ main' = "done"
  /\ UNCHANGED <<client, connId, tables, pending, due, producer, stop>>

-----------------------------------------------------------------------------
Init ==
  /\ main = "spawning"
  /\ client = [c \in Clients |-> "unborn"]
  /\ connId = [c \in Clients |-> {}]
  /\ registry = [i \in ConnIds |-> {}]
  /\ queues = [i \in ConnIds |-> {}]
  /\ feed = {}
  /\ pending = [c \in Clients |-> 0]
  /\ due = {}
  /\ producer = "running"
  /\ stop = FALSE

ClientStep(c) == (\E i \in ConnIds : StartClient(c, i)) \/ Receive(c)

MainStep == (\E c \in Clients : SpawnClient(c)) \/ AllSpawned \/ GatherEnds \/ SimulationOver

Next ==
  \/ \E c \in Clients : ClientStep(c) \/ DeadlinePasses(c) \/ CancelClient(c)
  \/ ProducerStep
  \/ MainStep

Spec == Init /\ [][Next]_vars

\* Tasks that can run do, sleeps and lifetimes come to their end; nobody has to
\* cancel anything.
Fairness ==
  /\ WF_vars(MainStep) /\ WF_vars(ProducerStep)
  /\ \A c \in Clients : WF_vars(ClientStep(c)) /\ WF_vars(DeadlinePasses(c))

FairSpec == Spec /\ Fairness

-----------------------------------------------------------------------------
(* Properties.                                                             *)

\* Every variable has its type; a queue always has room for the stop signal.
TypeOK ==
  /\ main \in {"spawning", "gathering", "stopping", "done"}
  /\ client \in [Clients -> {"unborn", "spawned", "reading", "done"}]
  /\ connId \in [Clients -> {{}} \cup {{i} : i \in ConnIds}]
  /\ registry \in [ConnIds -> {{}} \cup {{c} : c \in Clients}]
  /\ queues \in [ConnIds -> {{}} \cup {{c} : c \in Clients}]
  /\ feed \subseteq Clients
  /\ pending \in [Clients -> 0..(QueueSize - 1)]
  /\ due \subseteq Clients
  /\ producer \in {"running", "done"}
  /\ stop \in BOOLEAN

\* The registry, the controller and the bus agree about who is connected: the
\* same client is under an id in both tables, it is connected with that id, and
\* every connected client is subscribed and, unless its id was drawn again, has
\* its entry.  No sequence of joining, leaving and cancelling leaves a send
\* queue or a subscription without its connection.
TablesAgree ==
  /\ feed = {c \in Clients : client[c] = "reading"}
  /\ registry = queues
  /\ \A i \in ConnIds : \A c \in registry[i] : c \in feed /\ connId[c] = {i}
  /\ \A c \in feed : (\A d \in Clients \ {c} : connId[d] \cap connId[c] = {}) =>
       \E i \in connId[c] : c \in registry[i]

\* The summary: "Registry active   : 0 (should be 0)", the producer has stopped,
\* and nobody is subscribed.
SummaryIsZero ==
  main = "done" => /\ \A i \in ConnIds : registry[i] = {}
                   /\ feed = {}
                   /\ producer = "done"

\* The simulation ends: clients notice their deadline only when a message comes,
\* so the producer must outlive them all.
SimulationEnds == <>(main = "done")
=============================================================================
