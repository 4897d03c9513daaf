-------------------------- MODULE GracefulShutdown --------------------------
(***************************************************************************)
(* ConnectionRegistry and create_lifespan (patterns/graceful_shutdown.py)  *)
(* together with the handler that uses them, correct_ws_handler            *)
(* (examples/graceful_shutdown_demo.py).                                   *)
(*                                                                         *)
(* Everything runs on one asyncio event loop, so an action is what one     *)
(* task does from one suspension to the next.  task.cancel() raises no     *)
(* error by itself: it leaves a request and makes the task ready, and      *)
(* CancelledError is thrown into the task when it next runs, once for all  *)
(* the requests left by then.  Ready tasks run before a timer set after    *)
(* they became ready.  The WebSocket is outside the model: its close() may *)
(* succeed or raise, and may suspend (a real transport) or not (the        *)
(* FakeWebSocket of the demo).                                             *)
(***************************************************************************)
EXTENDS Naturals, FiniteSets

CONSTANTS
  Handlers,       \* the tasks that run correct_ws_handler, one per connection
  ConnIds,        \* the strings make_connection_id may return
  UniqueIds,      \* are they all different?  (eight hex digits of a uuid4)
  Closers,        \* the tasks that call close_all
  Lifespan,       \* the one of them that is create_lifespan
  Suspending,     \* the handlers whose WebSocket.close() may suspend
  None

ASSUME ConstantsAssumption ==
  /\ UniqueIds \in BOOLEAN
  /\ Suspending \subseteq Handlers
  /\ Lifespan \in Closers
  /\ None \notin Handlers
  /\ None \notin ConnIds

VARIABLES
  globalRegistry,  \* is _registry set, so that get_registry() succeeds?
  connections,     \* _connections: the task held under each id, or None
  shuttingDown,    \* _shutting_down
  pc,              \* where each handler is suspended
  connId,          \* conn_id of each handler, None before it registers
  cancelReq,       \* the callers of close_all whose cancel() it has not yet seen
  frame,           \* what became of its close frame
  phase,           \* where each call of close_all is suspended
  tasks,           \* `tasks` of close_all: those it cancelled first
  pending          \* `pending` of close_all: those it cancelled again

registryVars == <<globalRegistry, connections, shuttingDown>>
handlerVars == <<pc, connId, cancelReq, frame>>
closerVars == <<phase, tasks, pending>>
vars == <<registryVars, handlerVars, closerVars>>

-----------------------------------------------------------------------------
Live(h) == pc[h] \in {"receive", "closing"}
Done == {h \in Handlers : pc[h] = "done"}
\* Mutant: close_all iterates over the ids instead of the tasks.
RegisteredKeys == {i \in ConnIds : connections[i] # None}
Registered == {connections[i] : i \in ConnIds} \ {None}
NoConnections == [i \in ConnIds |-> None]

\* make_connection_id: fresh when eight digits suffice to tell ids apart.
NewIds == IF UniqueIds THEN {i \in ConnIds : \A h \in Handlers : connId[h] # i}
                       ELSE ConnIds

\* task.cancel() for every task of S; a finished task ignores it.
Cancel(c, S) ==
  cancelReq' = [h \in Handlers |-> IF h \in S /\ pc[h] # "done"
                                     THEN cancelReq[h] \cup {c} ELSE cancelReq[h]]

-----------------------------------------------------------------------------
(* The handler.                                                            *)

\* get_registry(), ConnectionInfo(...) and register(): close_all may already
\* be running, register does not look at _shutting_down.
StartHandler(h) ==
  /\ pc[h] = "new"
  /\ globalRegistry
  /\ \E i \in NewIds :
       /\ connId' = [connId EXCEPT ![h] = i]
       /\ connections' = [connections EXCEPT ![i] = h]
  /\ pc' = [pc EXCEPT ![h] = "receive"]
  /\ UNCHANGED <<globalRegistry, shuttingDown, cancelReq, frame, closerVars>>

\* get_registry() raises RuntimeError outside the lifespan.
RejectHandler(h) ==
  /\ pc[h] = "new"
  /\ ~globalRegistry
  /\ pc' = [pc EXCEPT ![h] = "done"]
  /\ UNCHANGED <<registryVars, connId, cancelReq, frame, closerVars>>

Deregister(h) == connections' = [connections EXCEPT ![connId[h]] = None]

\* Mutant: deregister moved inside suppress(Exception), after close().
CloseDoneSkipsOnError(h) ==
  /\ \E f \in {"sent", "failed"} :
       /\ frame' = [frame EXCEPT ![h] = f]
       /\ IF f = "sent" THEN Deregister(h) ELSE UNCHANGED connections
  /\ pc' = [pc EXCEPT ![h] = "done"]

\* The finally block after `await ws.close()` returned, or raised an Exception
\* (which suppress(Exception) absorbs): deregister and end the task.
CloseDone(h) ==
  /\ \E f \in {"sent", "failed"} : frame' = [frame EXCEPT ![h] = f]
  /\ Deregister(h)
  /\ pc' = [pc EXCEPT ![h] = "done"]

\* The finally block, from its start to its first suspension.
EnterFinally(h) ==
  \/ CloseDone(h)
  \/ /\ h \in Suspending
     /\ pc' = [pc EXCEPT ![h] = "closing"]
     /\ UNCHANGED <<frame, connections>>

\* The receive loop ends by itself: EOFError, or send_text on a closed socket.
LeaveLoop(h) ==
  /\ pc[h] = "receive"
  /\ cancelReq[h] = {}
  /\ EnterFinally(h)
  /\ UNCHANGED <<globalRegistry, shuttingDown, connId, cancelReq, closerVars>>

\* CancelledError leaves the receive loop and is raised again by the handler.
CancelLoop(h) ==
  /\ pc[h] = "receive"
  /\ cancelReq[h] # {}
  /\ cancelReq' = [cancelReq EXCEPT ![h] = {}]
  /\ EnterFinally(h)
  /\ UNCHANGED <<globalRegistry, shuttingDown, connId, closerVars>>

FinishClose(h) ==
  /\ pc[h] = "closing"
  /\ cancelReq[h] = {}
  /\ CloseDone(h)
  /\ UNCHANGED <<globalRegistry, shuttingDown, connId, cancelReq, closerVars>>

\* CancelledError is no Exception: it passes through suppress(Exception) and
\* leaves the finally block before deregister.
CancelClose(h) ==
  /\ pc[h] = "closing"
  /\ cancelReq[h] # {}
  /\ cancelReq' = [cancelReq EXCEPT ![h] = {}]
  /\ frame' = [frame EXCEPT ![h] = "interrupted"]
  /\ pc' = [pc EXCEPT ![h] = "done"]
  /\ UNCHANGED <<registryVars, connId, closerVars>>

-----------------------------------------------------------------------------
(* create_lifespan and close_all.                                          *)

EnterLifespan ==
  /\ phase[Lifespan] = "entering"
  /\ phase' = [phase EXCEPT ![Lifespan] = "idle"]
  /\ globalRegistry' = TRUE
  /\ UNCHANGED <<connections, shuttingDown, handlerVars, tasks, pending>>

\* close_all returns; in create_lifespan `_registry = None` follows at once.
ReturnFromCloseAll(c) ==
  /\ phase' = [phase EXCEPT ![c] = "returned"]
  /\ globalRegistry' = (globalRegistry /\ c # Lifespan)

\* Mutant: handlers that are already closing are left out of the drain.
BeginCloseAllReceivers(c) ==
  LET found == {h \in Registered : pc[h] = "receive"} IN
  /\ phase[c] = "idle"
  /\ globalRegistry
  /\ shuttingDown' = TRUE
  /\ IF found = {}
       THEN ReturnFromCloseAll(c) /\ UNCHANGED <<tasks, cancelReq>>
       ELSE /\ tasks' = [tasks EXCEPT ![c] = found]
            /\ Cancel(c, found)
            /\ phase' = [phase EXCEPT ![c] = "waiting"]
            /\ UNCHANGED globalRegistry
  /\ UNCHANGED <<connections, pc, connId, frame, pending>>

\* Up to the first await: the flag, the early return on an empty registry,
\* or the first round of cancel().
BeginCloseAll(c) ==
  /\ phase[c] = "idle"
  /\ globalRegistry
  /\ shuttingDown' = TRUE
  /\ IF Registered = {}
       THEN ReturnFromCloseAll(c) /\ UNCHANGED <<tasks, cancelReq>>
       ELSE /\ tasks' = [tasks EXCEPT ![c] = Registered]
            /\ Cancel(c, Registered)
            /\ phase' = [phase EXCEPT ![c] = "waiting"]
            /\ UNCHANGED globalRegistry
  /\ UNCHANGED <<connections, pc, connId, frame, pending>>

ClearAndReturn(c) ==
  /\ connections' = NoConnections
  /\ ReturnFromCloseAll(c)
  /\ UNCHANGED <<shuttingDown, handlerVars, tasks, pending>>

\* asyncio.wait found every task done.
DrainCompletes(c) ==
  /\ phase[c] = "waiting"
  /\ tasks[c] \subseteq Done
  /\ ClearAndReturn(c)

\* Mutant: what the wait left over is gathered without being cancelled again.
DrainTimesOutPatiently(c) ==
  /\ phase[c] = "waiting"
  /\ tasks[c] \ Done # {}
  /\ \A h \in tasks[c] : c \notin cancelReq[h]
  /\ pending' = [pending EXCEPT ![c] = tasks[c] \ Done]
  /\ phase' = [phase EXCEPT ![c] = "gathering"]
  /\ UNCHANGED <<registryVars, handlerVars, tasks>>

\* asyncio.wait timed out with tasks left, each of which has seen the first
\* cancel: cancel them again and gather them, this time without a timeout.
DrainTimesOut(c) ==
  /\ phase[c] = "waiting"
  /\ tasks[c] \ Done # {}
  /\ \A h \in tasks[c] : c \notin cancelReq[h]
  /\ pending' = [pending EXCEPT ![c] = tasks[c] \ Done]
  /\ Cancel(c, tasks[c] \ Done)
  /\ phase' = [phase EXCEPT ![c] = "gathering"]
  /\ UNCHANGED <<registryVars, pc, connId, frame, tasks>>

\* Mutant: the second cancel is not awaited.
GatherCompletesAtOnce(c) ==
  /\ phase[c] = "gathering"
  /\ ClearAndReturn(c)

GatherCompletes(c) ==
  /\ phase[c] = "gathering"
  /\ pending[c] \subseteq Done
  /\ ClearAndReturn(c)

\* The task that awaits close_all is cancelled.  Cancelling a wait leaves its
\* tasks alone; cancelling a gather cancels what it gathers, and the error is
\* raised only when all of that has ended.
AbortCloseAll(c) ==
  \/ /\ phase[c] = "waiting"
     /\ phase' = [phase EXCEPT ![c] = "aborted"]
     /\ UNCHANGED <<registryVars, handlerVars, tasks, pending>>
  \/ /\ phase[c] = "gathering"
     /\ phase' = [phase EXCEPT ![c] = "unwinding"]
     /\ Cancel(c, pending[c])
     /\ UNCHANGED <<registryVars, pc, connId, frame, tasks, pending>>

\* CancelledError leaves close_all: neither clear() nor, in create_lifespan,
\* `_registry = None` runs.
UnwindCompletes(c) ==
  /\ phase[c] = "unwinding"
  /\ pending[c] \subseteq Done
  /\ phase' = [phase EXCEPT ![c] = "aborted"]
  /\ UNCHANGED <<registryVars, handlerVars, tasks, pending>>

-----------------------------------------------------------------------------
Init ==
  /\ globalRegistry = FALSE
  /\ connections = NoConnections
  /\ shuttingDown = FALSE
  /\ pc = [h \in Handlers |-> "new"]
  /\ connId = [h \in Handlers |-> None]
  /\ cancelReq = [h \in Handlers |-> {}]
  /\ frame = [h \in Handlers |-> "none"]
  /\ phase = [c \in Closers |-> IF c = Lifespan THEN "entering" ELSE "idle"]
  /\ tasks = [c \in Closers |-> {}]
  /\ pending = [c \in Closers |-> {}]

\* The process has nothing left to run.
Exited ==
  /\ phase[Lifespan] \in {"returned", "aborted"}
  /\ \A c \in Closers : phase[c] \notin {"waiting", "gathering", "unwinding"}
  /\ Done = Handlers
  /\ UNCHANGED vars

HandlerStep(h) ==
  \/ StartHandler(h) \/ RejectHandler(h)
  \/ LeaveLoop(h) \/ CancelLoop(h)
  \/ FinishClose(h) \/ CancelClose(h)

CloserStep(c) ==
  \/ BeginCloseAll(c) \/ DrainCompletes(c) \/ DrainTimesOut(c)
  \/ GatherCompletes(c) \/ AbortCloseAll(c) \/ UnwindCompletes(c)

Next ==
  \/ EnterLifespan
  \/ \E h \in Handlers : HandlerStep(h)
  \/ \E c \in Closers : CloserStep(c)
  \/ Exited

Spec == Init /\ [][Next]_vars

\* The event loop runs every task that is ready and fires every timer.  No
\* client is obliged to leave, and no transport to complete a close().
Fairness ==
  /\ \A h \in Handlers : WF_vars(CancelLoop(h)) /\ WF_vars(CancelClose(h))
  /\ \A c \in Closers : /\ WF_vars(DrainCompletes(c))
                        /\ WF_vars(DrainTimesOut(c))
                        /\ WF_vars(GatherCompletes(c))
                        /\ WF_vars(UnwindCompletes(c))

FairSpec == Spec /\ Fairness

-----------------------------------------------------------------------------
(* Properties.                                                             *)

\* Every variable has its type.
TypeOK ==
  /\ globalRegistry \in BOOLEAN
  /\ connections \in [ConnIds -> Handlers \cup {None}]
  /\ shuttingDown \in BOOLEAN
  /\ pc \in [Handlers -> {"new", "receive", "closing", "done"}]
  /\ connId \in [Handlers -> ConnIds \cup {None}]
  /\ cancelReq \in [Handlers -> SUBSET Closers]
  /\ frame \in [Handlers -> {"none", "sent", "failed", "interrupted"}]
  /\ phase \in [Closers -> {"entering", "idle", "waiting", "gathering",
                            "unwinding", "returned", "aborted"}]
  /\ tasks \in [Closers -> SUBSET Handlers]
  /\ pending \in [Closers -> SUBSET Handlers]

\* close_all returns only when every handler it cancelled has ended: the wait,
\* the second cancel and the gather leave no handler running behind it,
\* however the calls of close_all and the exits of the handlers interleave.
CloseAllDrains ==
  \A c \in Closers : phase[c] = "returned" => tasks[c] \subseteq Done

\* The gather after the timeout has no timeout itself.  It cannot hang, because
\* whoever it, or an abort of it, still waits for is in ws.close() with a cancel
\* due: the next step of that handler is its last, however many callers cancel.
GatherCannotHang ==
  \A c \in Closers : phase[c] \in {"gathering", "unwinding"} =>
    \A h \in pending[c] \ Done : pc[h] = "closing" /\ c \in cancelReq[h]

Cleared == \E c \in Closers : phase[c] = "returned" /\ tasks[c] # {}

\* h has registered, under an id that no other handler was given.
SoleOwner(h) ==
  connId[h] # None /\ \A g \in Handlers \ {h} : connId[g] # connId[h]

\* Until some close_all clears it, the registry holds a handler exactly while it
\* is running, or when its deregister was skipped because a cancel interrupted
\* its close frame.  Handlers that share an id are out of the question.
RegistryAccurate ==
  ~Cleared => \A h \in Handlers : SoleOwner(h) =>
    (connections[connId[h]] = h <=> Live(h) \/ frame[h] = "interrupted")

\* h has ended, its close frame was tried to the end, and it is out of the
\* registry.
EndedCleanly(h) ==
  pc[h] = "done" /\ frame[h] # "interrupted"
    /\ (connId[h] # None => connections[connId[h]] # h)

\* A handler whose close() does not suspend ends cleanly, however often and
\* whenever close_all cancels it.
PromptCloseEndsCleanly == \A h \in Done \ Suspending : EndedCleanly(h)

\* Every handler ends cleanly: "The ``finally`` block always sends a close frame",
\* "The handler deregisters itself on exit" (docstring of correct_ws_handler).
CleanExit == \A h \in Done : EndedCleanly(h)

\* Once the lifespan is over no handler is running: "All WebSocket connections
\* closed." is logged before close_all returns.
NoHandlerOutlivesShutdown ==
  phase[Lifespan] = "returned" => \A h \in Handlers : ~Live(h)

\* A close_all that has to wait returns (unless its caller is cancelled), even
\* when clients never let a close() complete: the second cancel sees to it.
CloseAllEnds ==
  \A c \in Closers : phase[c] = "waiting" ~> phase[c] \in {"returned", "aborted"}

\* The registry, the handlers and close_all together keep the contract of a
\* graceful shutdown: a session is live from its registration to its end, and
\* a drain answers for the tasks close_all found in the registry.
ContractPhase(p) ==
  CASE p \in {"entering", "idle"} -> "idle"
    [] p \in {"waiting", "gathering", "unwinding"} -> "draining"
    [] p = "returned" -> "ended"
    [] p = "aborted" -> "aborted"

Contract == INSTANCE ShutdownContract WITH
  Sessions <- Handlers,
  Drains <- Closers,
  joined <- {h \in Handlers : connId[h] # None},
  live <- {h \in Handlers : Live(h)},
  phase <- [c \in Closers |-> ContractPhase(phase[c])],
  target <- tasks

KeepsContract == Contract!ContractSpec
=============================================================================
