----------------------- MODULE BackpressureController -----------------------
(***************************************************************************)
(* BackpressureController (patterns/backpressure.py) around one SendQueue: *)
(* what _queues says of the queue's id, and the tasks that drain the queue *)
(* while connections with that id come and go.                             *)
(*                                                                         *)
(* The keepers are the tasks that use the queue add_connection returned,   *)
(* like the endpoint of README.md: they remove the id when they leave.     *)
(* Everybody else goes through get_queue for every drain, like             *)
(* broadcast_with_bp.  A sender that found the queue may hold on to it:    *)
(* enqueue needs no entry.                                                 *)
(***************************************************************************)
EXTENDS SendQueue

CONSTANTS
  Keepers,     \* drainers that keep the queue they were given
  WarnPercent  \* warn_threshold_pct, in percent

ASSUME ControllerAssumption ==
  /\ Keepers \subseteq Drainers
  /\ WarnPercent \in 0..100

VARIABLES
  entry,   \* what _queues has under the id: "ours", "another" queue, or "none"
  holders  \* the drainers with a reference to the queue

controllerVars == <<vars, entry, holders>>

-----------------------------------------------------------------------------
\* Mutant: "Remove and discard": the queue is emptied as well.
RemoveConnectionClears ==
  /\ entry' = "none"
  /\ depth' = 0
  /\ UNCHANGED <<config, putters, woken, batch, stats, history>>

\* remove_connection(id): pops whatever queue is there, and leaves it as it is.
RemoveConnection ==
  /\ entry' = "none"
  /\ UNCHANGED vars

\* The finally block of a keeper.
KeeperLeaves(d) ==
  /\ d \in Keepers \cap holders
  /\ batch[d] = 0
  /\ holders' = holders \ {d}
  /\ RemoveConnection

\* Another connection with the id removes it, whoever's queue it finds.
NamesakeLeaves ==
  /\ entry # "none"
  /\ RemoveConnection
  /\ UNCHANGED holders

\* add_connection(id) for an id in use, or no longer in use: a new queue.
NamesakeConnects ==
  /\ entry' = "another"
  /\ UNCHANGED <<vars, holders>>

\* get_queue(id), when it finds this queue.
GetQueue(d) ==
  /\ d \notin Keepers \cup holders
  /\ batch[d] = 0
  /\ entry = "ours"
  /\ holders' = holders \cup {d}
  /\ UNCHANGED <<vars, entry>>

\* Mutant: the reference is not used when the id is gone meanwhile.
DrainCurrent(d) ==
  /\ d \in holders
  /\ batch[d] = 0
  /\ IF depth > 0 /\ entry = "ours" THEN StartDrain(d) ELSE UNCHANGED vars
  /\ holders' = IF d \in Keepers THEN holders ELSE holders \ {d}
  /\ UNCHANGED entry

\* drain() is called on the queue that was found, or kept.
Drain(d) ==
  /\ d \in holders
  /\ batch[d] = 0
  /\ IF depth > 0 THEN StartDrain(d) ELSE UNCHANGED vars
  /\ holders' = IF d \in Keepers THEN holders ELSE holders \ {d}
  /\ UNCHANGED entry

\* The rest of a drain, and all of enqueue, is the queue's own business.
QueueStep ==
  /\ \/ \E s \in Senders : SenderStep(s)
     \/ \E d \in Drainers : SendSucceeds(d) \/ SendFails(d) \/ CancelDrain(d)
  /\ UNCHANGED <<entry, holders>>

\* lagging_connections() lists the id for this queue.
IsLagging ==
  /\ entry = "ours"
  /\ depth >= (size * WarnPercent) \div 100

-----------------------------------------------------------------------------
ControllerInit ==
  /\ Init
  /\ entry = "ours"
  /\ holders = Keepers

ControllerNext ==
  \/ QueueStep
  \/ \E d \in Drainers : KeeperLeaves(d) \/ GetQueue(d) \/ Drain(d)
  \/ NamesakeLeaves \/ NamesakeConnects

ControllerSpec == ControllerInit /\ [][ControllerNext]_controllerVars

\* The event loop runs a woken sender, a send ends somehow, the drainers call
\* drain() on what they hold, and those that hold nothing look the queue up again.
ControllerFairness ==
  /\ \A s \in Senders : WF_controllerVars(ResumeSender(s) /\ UNCHANGED <<entry, holders>>)
  /\ \A d \in Drainers :
       /\ WF_controllerVars(GetQueue(d))
       /\ WF_controllerVars(depth > 0 /\ Drain(d))
       /\ WF_controllerVars(/\ SendSucceeds(d) \/ SendFails(d) \/ CancelDrain(d)
                            /\ UNCHANGED <<entry, holders>>)

ControllerFairSpec == ControllerSpec /\ ControllerFairness

-----------------------------------------------------------------------------
(* Properties.                                                             *)

\* Every variable has its type, those of the queue included.
ControllerTypeOK ==
  /\ TypeOK
  /\ entry \in {"ours", "another", "none"}
  /\ holders \subseteq Drainers

\* No one finds the queue any more, and no one is left who has it.
Abandoned == entry # "ours" /\ holders = {} /\ Sending = {}

\* The controller keeps the queue's promises: whatever it does to the entries,
\* each queue behaves as SendQueue says.
QueueSpec == Spec

\* lagging_connections() names every id with a sender asleep in put() and
\* nobody woken, and no queue that is more than one message short of the
\* fraction: the truncated threshold is off by that much at most.
LagReportsHold ==
  /\ entry = "ours" /\ putters # <<>> /\ woken = {} => IsLagging
  /\ IsLagging => (depth + 1) * 100 >= size * WarnPercent

\* A blocked sender gets its message in or is cancelled, however many calls of
\* enqueue() there are, with two exceptions.  The queue may be abandoned:
\* remove_connection() wakes nobody who sleeps in it.  And put() keeps no place
\* for the sender it wakes: one that finds the queue full again each time it is
\* woken, because other calls are faster, starves.
SleepersGetServed ==
  \A s \in Senders : \/ []<><<ResumeSender(s) /\ AsyncFull>>_vars
                     \/ ~Idle(s) ~> Idle(s) \/ Abandoned
=============================================================================
