----------------------- MODULE GracefulShutdownProofs -----------------------
(* Theorems about GracefulShutdown, for any number of handlers, connection *)
(* ids and callers of close_all.                                           *)
EXTENDS GracefulShutdown, TLAPS

-----------------------------------------------------------------------------
(* Type correctness.                                                       *)

LEMMA InitTypeOK == Init => TypeOK
<1> SUFFICES ASSUME Init PROVE TypeOK
  OBVIOUS
<1>1. /\ globalRegistry \in BOOLEAN
      /\ connections \in [ConnIds -> Handlers \cup {None}]
      /\ shuttingDown \in BOOLEAN
      /\ connId \in [Handlers -> ConnIds \cup {None}]
  BY DEF Init, NoConnections
<1>2. /\ pc \in [Handlers -> {"new", "receive", "closing", "done"}]
      /\ frame \in [Handlers -> {"none", "sent", "failed", "interrupted"}]
  BY DEF Init
<1>3. phase \in [Closers -> {"entering", "idle", "waiting", "gathering",
                            "unwinding", "returned", "aborted"}]
  BY DEF Init
<1>4. /\ cancelReq \in [Handlers -> SUBSET Closers]
      /\ tasks \in [Closers -> SUBSET Handlers]
      /\ pending \in [Closers -> SUBSET Handlers]
  BY DEF Init
<1>. QED BY <1>1, <1>2, <1>3, <1>4 DEF TypeOK

LEMMA HandlerTypeOK ==
  ASSUME TypeOK, NEW h \in Handlers, HandlerStep(h)
  PROVE  TypeOK'
<1> USE ConstantsAssumption DEF TypeOK, registryVars, closerVars
<1>1. CASE StartHandler(h)
  BY <1>1 DEF StartHandler, NewIds
<1>2. CASE RejectHandler(h)
  BY <1>2 DEF RejectHandler
<1>3. CASE LeaveLoop(h)
  BY <1>3 DEF LeaveLoop, EnterFinally, CloseDone, Deregister
<1>4. CASE CancelLoop(h)
  BY <1>4 DEF CancelLoop, EnterFinally, CloseDone, Deregister
<1>5. CASE FinishClose(h)
  BY <1>5 DEF FinishClose, CloseDone, Deregister
<1>6. CASE CancelClose(h)
  BY <1>6 DEF CancelClose
<1>. QED BY <1>1, <1>2, <1>3, <1>4, <1>5, <1>6 DEF HandlerStep

\* task.cancel() leaves requests of callers of close_all.
LEMMA CancelType ==
  ASSUME TypeOK, NEW c \in Closers, NEW S, Cancel(c, S)
  PROVE  cancelReq' \in [Handlers -> SUBSET Closers]
  BY DEF TypeOK, Cancel

LEMMA CloserTypeOK ==
  ASSUME TypeOK, NEW c \in Closers, CloserStep(c)
  PROVE  TypeOK'
<1> USE ConstantsAssumption DEF TypeOK, registryVars, handlerVars
<1>1. CASE BeginCloseAll(c)
  <2>1. Registered \subseteq Handlers
    BY DEF Registered
  <2>2. CASE Registered = {}
    BY <1>1, <2>2 DEF BeginCloseAll, ReturnFromCloseAll
  <2>3. CASE Registered # {}
    <3>1. Cancel(c, Registered)
      BY <1>1, <2>3 DEF BeginCloseAll
    <3>2. /\ phase' = [phase EXCEPT ![c] = "waiting"]
          /\ tasks' = [tasks EXCEPT ![c] = Registered]
          /\ shuttingDown' = TRUE
          /\ UNCHANGED <<globalRegistry, connections, pc, connId, frame, pending>>
      BY <1>1, <2>3 DEF BeginCloseAll
    <3>. QED BY <2>1, <3>1, <3>2, CancelType
  <2>. QED BY <2>2, <2>3
<1>2. CASE DrainCompletes(c)
  BY <1>2 DEF DrainCompletes, ClearAndReturn, ReturnFromCloseAll, NoConnections
<1>3. CASE DrainTimesOut(c)
  BY <1>3, CancelType DEF DrainTimesOut, Done
<1>4. CASE GatherCompletes(c)
  BY <1>4 DEF GatherCompletes, ClearAndReturn, ReturnFromCloseAll, NoConnections
<1>5. CASE AbortCloseAll(c)
  BY <1>5, CancelType DEF AbortCloseAll
<1>6. CASE UnwindCompletes(c)
  BY <1>6 DEF UnwindCompletes
<1>. QED BY <1>1, <1>2, <1>3, <1>4, <1>5, <1>6 DEF CloserStep

LEMMA NextTypeOK == TypeOK /\ [Next]_vars => TypeOK'
<1> SUFFICES ASSUME TypeOK, [Next]_vars PROVE TypeOK'
  OBVIOUS
<1>1. CASE EnterLifespan
  BY <1>1, ConstantsAssumption DEF EnterLifespan, TypeOK, handlerVars
<1>2. CASE \E h \in Handlers : HandlerStep(h)
  BY <1>2, HandlerTypeOK
<1>3. CASE \E c \in Closers : CloserStep(c)
  BY <1>3, CloserTypeOK
<1>4. CASE UNCHANGED vars
  BY <1>4 DEF TypeOK, vars, registryVars, handlerVars, closerVars
<1>. QED BY <1>1, <1>2, <1>3, <1>4 DEF Next, Exited

\* Every reachable state of the registry, the handlers and close_all is well
\* typed.
THEOREM TypeCorrect == Spec => []TypeOK
  BY InitTypeOK, NextTypeOK, PTL DEF Spec

-----------------------------------------------------------------------------
(* close_all drains.                                                       *)

\* What close_all knows at each of its suspensions: the wait left over only
\* `pending`, and a call that had nothing to wait for kept no tasks.
DrainInv ==
  \A c \in Closers :
    /\ phase[c] \in {"entering", "idle"} => tasks[c] = {}
    /\ phase[c] \in {"waiting", "gathering"} => tasks[c] # {}
    /\ phase[c] \in {"gathering", "unwinding"} => tasks[c] \ pending[c] \subseteq Done
    /\ phase[c] = "returned" => tasks[c] \subseteq Done

\* A handler that has ended stays ended, whoever takes a step, and handlers
\* leave close_all's variables alone.
LEMMA HandlerKeepsDone ==
  ASSUME TypeOK, NEW h \in Handlers, HandlerStep(h)
  PROVE  Done \subseteq Done' /\ UNCHANGED closerVars
<1> USE DEF Done, TypeOK
<1>1. CASE StartHandler(h)
  BY <1>1 DEF StartHandler
<1>2. CASE RejectHandler(h)
  BY <1>2 DEF RejectHandler
<1>3. CASE LeaveLoop(h)
  BY <1>3 DEF LeaveLoop, EnterFinally, CloseDone
<1>4. CASE CancelLoop(h)
  BY <1>4 DEF CancelLoop, EnterFinally, CloseDone
<1>5. CASE FinishClose(h)
  BY <1>5 DEF FinishClose, CloseDone
<1>6. CASE CancelClose(h)
  BY <1>6 DEF CancelClose
<1>. QED BY <1>1, <1>2, <1>3, <1>4, <1>5, <1>6 DEF HandlerStep

LEMMA InitDrainInv == Init => DrainInv
  BY DEF Init, DrainInv

LEMMA CloserDrainInv ==
  ASSUME TypeOK, DrainInv, NEW c \in Closers, CloserStep(c)
  PROVE  DrainInv'
<1> USE DEF DrainInv, TypeOK, handlerVars
<1>1. CASE BeginCloseAll(c)
  <2>1. Done' = Done
    BY <1>1 DEF BeginCloseAll, Done
  <2>2. CASE Registered = {}
    <3>1. /\ phase[c] = "idle"
          /\ phase' = [phase EXCEPT ![c] = "returned"]
          /\ UNCHANGED <<tasks, pending>>
      BY <1>1, <2>2 DEF BeginCloseAll, ReturnFromCloseAll
    <3>. QED BY <2>1, <3>1
  <2>3. CASE Registered # {}
    <3>1. /\ phase' = [phase EXCEPT ![c] = "waiting"]
          /\ tasks' = [tasks EXCEPT ![c] = Registered]
          /\ UNCHANGED pending
      BY <1>1, <2>3 DEF BeginCloseAll
    <3>. QED BY <2>1, <2>3, <3>1
  <2>. QED BY <2>2, <2>3
<1>2. CASE DrainCompletes(c)
  BY <1>2 DEF DrainCompletes, ClearAndReturn, ReturnFromCloseAll, Done
<1>3. CASE DrainTimesOut(c)
  BY <1>3 DEF DrainTimesOut, Done
<1>4. CASE GatherCompletes(c)
  BY <1>4 DEF GatherCompletes, ClearAndReturn, ReturnFromCloseAll, Done
<1>5. CASE AbortCloseAll(c)
  BY <1>5 DEF AbortCloseAll, Done
<1>6. CASE UnwindCompletes(c)
  BY <1>6 DEF UnwindCompletes, Done
<1>. QED BY <1>1, <1>2, <1>3, <1>4, <1>5, <1>6 DEF CloserStep

LEMMA NextDrainInv == TypeOK /\ DrainInv /\ [Next]_vars => DrainInv'
<1> SUFFICES ASSUME TypeOK, DrainInv, [Next]_vars PROVE DrainInv'
  OBVIOUS
<1>1. CASE EnterLifespan
  BY <1>1 DEF EnterLifespan, DrainInv, TypeOK, Done, handlerVars
<1>2. CASE \E h \in Handlers : HandlerStep(h)
  <2>1. Done \subseteq Done' /\ UNCHANGED closerVars
    BY <1>2, HandlerKeepsDone
  <2>. QED BY <2>1 DEF DrainInv, closerVars
<1>3. CASE \E c \in Closers : CloserStep(c)
  BY <1>3, CloserDrainInv
<1>4. CASE UNCHANGED vars
  BY <1>4 DEF DrainInv, Done, vars, handlerVars, closerVars
<1>. QED BY <1>1, <1>2, <1>3, <1>4 DEF Next, Exited

LEMMA DrainInvariant == Spec => []DrainInv
  BY InitDrainInv, NextDrainInv, TypeCorrect, PTL DEF Spec

\* close_all never returns with one of the handlers it cancelled still running,
\* however its calls, timeouts and cancellations and the exits of the handlers
\* interleave; connection ids may even collide.
THEOREM CloseAllAlwaysDrains == Spec => []CloseAllDrains
<1>1. DrainInv => CloseAllDrains
  BY DEF DrainInv, CloseAllDrains
<1>. QED BY <1>1, DrainInvariant, PTL

-----------------------------------------------------------------------------
(* The second cancel suffices.                                             *)

\* Whom a caller of close_all has cancelled: during the wait a task has seen the
\* cancel, and left its receive loop, or has it due; after the second cancel it
\* is in close() and has that one due.
CancelInv ==
  \A c \in Closers :
    /\ phase[c] = "waiting" =>
         \A h \in tasks[c] \ Done : pc[h] = "closing" \/ c \in cancelReq[h]
    /\ phase[c] \in {"gathering", "unwinding"} =>
         \A h \in pending[c] \ Done : pc[h] = "closing" /\ c \in cancelReq[h]

\* What a handler may do to the cancels it has due: keep them, leave the receive
\* loop with them, or end.
LEMMA HandlerTakesCancels ==
  ASSUME TypeOK, NEW h \in Handlers, HandlerStep(h), NEW g \in Handlers
  PROVE  \/ pc'[g] = "done"
         \/ /\ pc[g] # "done"
            /\ pc[g] = "closing" => pc'[g] = "closing" /\ cancelReq'[g] = cancelReq[g]
            /\ pc'[g] = "closing" \/ cancelReq'[g] = cancelReq[g]
<1> USE DEF TypeOK
<1>1. CASE StartHandler(h)
  BY <1>1 DEF StartHandler
<1>2. CASE RejectHandler(h)
  BY <1>2 DEF RejectHandler
<1>3. CASE LeaveLoop(h)
  BY <1>3 DEF LeaveLoop, EnterFinally, CloseDone
<1>4. CASE CancelLoop(h)
  BY <1>4 DEF CancelLoop, EnterFinally, CloseDone
<1>5. CASE FinishClose(h)
  BY <1>5 DEF FinishClose, CloseDone
<1>6. CASE CancelClose(h)
  BY <1>6 DEF CancelClose
<1>. QED BY <1>1, <1>2, <1>3, <1>4, <1>5, <1>6 DEF HandlerStep

LEMMA HandlerCancelInv ==
  ASSUME TypeOK, CancelInv, NEW h \in Handlers, HandlerStep(h)
  PROVE  CancelInv'
<1>1. UNCHANGED <<phase, tasks, pending>>
  BY HandlerKeepsDone DEF closerVars
<1>2. \A g \in Handlers :
        \/ g \in Done'
        \/ /\ g \notin Done
           /\ pc[g] = "closing" => pc'[g] = "closing" /\ cancelReq'[g] = cancelReq[g]
           /\ pc'[g] = "closing" \/ cancelReq'[g] = cancelReq[g]
  BY HandlerTakesCancels DEF Done
<1>. QED BY <1>1, <1>2 DEF CancelInv, TypeOK

\* A caller that leaves the handlers alone, or only cancels more of them, does
\* not disturb what the others wait for.
LEMMA OthersCancelInv ==
  ASSUME TypeOK, CancelInv, NEW c \in Closers, NEW d \in Closers \ {c},
         UNCHANGED pc, \A h \in Handlers : cancelReq[h] \subseteq cancelReq'[h],
         phase'[d] = phase[d], tasks'[d] = tasks[d], pending'[d] = pending[d]
  PROVE  /\ phase'[d] = "waiting" =>
              \A h \in tasks'[d] \ Done' : pc'[h] = "closing" \/ d \in cancelReq'[h]
         /\ phase'[d] \in {"gathering", "unwinding"} =>
              \A h \in pending'[d] \ Done' : pc'[h] = "closing" /\ d \in cancelReq'[h]
  BY DEF CancelInv, Done, TypeOK

LEMMA CancelAdds ==
  ASSUME TypeOK, NEW c \in Closers, NEW S, Cancel(c, S)
  PROVE  /\ \A h \in Handlers : cancelReq[h] \subseteq cancelReq'[h]
         /\ \A h \in (Handlers \cap S) \ Done : c \in cancelReq'[h]
  BY DEF TypeOK, Cancel, Done

LEMMA CloserCancelInv ==
  ASSUME TypeOK, CancelInv, NEW c \in Closers, CloserStep(c)
  PROVE  CancelInv'
<1> USE DEF TypeOK, handlerVars
<1>1. UNCHANGED pc /\ Done' = Done
  BY DEF CloserStep, BeginCloseAll, DrainCompletes, DrainTimesOut, GatherCompletes,
         AbortCloseAll, UnwindCompletes, ClearAndReturn, Done
<1>2. \A h \in Handlers : cancelReq[h] \subseteq cancelReq'[h]
  BY CancelAdds DEF CloserStep, BeginCloseAll, DrainCompletes, DrainTimesOut,
     GatherCompletes, AbortCloseAll, UnwindCompletes, ClearAndReturn
<1>3. \A d \in Closers \ {c} :
        phase'[d] = phase[d] /\ tasks'[d] = tasks[d] /\ pending'[d] = pending[d]
  BY DEF CloserStep, BeginCloseAll, DrainCompletes, DrainTimesOut, GatherCompletes,
         AbortCloseAll, UnwindCompletes, ClearAndReturn, ReturnFromCloseAll
<1>4. /\ phase'[c] = "waiting" =>
           \A h \in tasks'[c] \ Done' : pc'[h] = "closing" \/ c \in cancelReq'[h]
      /\ phase'[c] \in {"gathering", "unwinding"} =>
           \A h \in pending'[c] \ Done' : pc'[h] = "closing" /\ c \in cancelReq'[h]
  <2>1. CASE BeginCloseAll(c)
    <3>1. CASE Registered = {}
      BY <2>1, <3>1 DEF BeginCloseAll, ReturnFromCloseAll
    <3>2. CASE Registered # {}
      <4>1. /\ phase'[c] = "waiting" /\ tasks'[c] = Registered
            /\ Cancel(c, Registered)
        BY <2>1, <3>2 DEF BeginCloseAll
      <4>2. Registered \subseteq Handlers
        BY DEF Registered
      <4>. QED BY <1>1, <4>1, <4>2, CancelAdds
    <3>. QED BY <3>1, <3>2
  <2>2. CASE DrainCompletes(c) \/ GatherCompletes(c)
    BY <2>2 DEF DrainCompletes, GatherCompletes, ClearAndReturn, ReturnFromCloseAll
  <2>3. CASE DrainTimesOut(c)
    <3>1. /\ phase[c] = "waiting" /\ phase'[c] = "gathering"
          /\ \A h \in tasks[c] : c \notin cancelReq[h]
          /\ pending'[c] = tasks[c] \ Done
          /\ Cancel(c, tasks[c] \ Done)
      BY <2>3 DEF DrainTimesOut
    <3>2. \A h \in pending'[c] : pc[h] = "closing" /\ c \in cancelReq'[h]
      BY <3>1, CancelAdds DEF CancelInv
    <3>. QED BY <1>1, <3>1, <3>2
  <2>4. CASE AbortCloseAll(c)
    BY <1>1, <1>2, <2>4 DEF AbortCloseAll, CancelInv
  <2>5. CASE UnwindCompletes(c)
    BY <2>5 DEF UnwindCompletes
  <2>. QED BY <2>1, <2>2, <2>3, <2>4, <2>5 DEF CloserStep
<1>5. \A d \in Closers \ {c} :
        /\ phase'[d] = "waiting" =>
             \A h \in tasks'[d] \ Done' : pc'[h] = "closing" \/ d \in cancelReq'[h]
        /\ phase'[d] \in {"gathering", "unwinding"} =>
             \A h \in pending'[d] \ Done' : pc'[h] = "closing" /\ d \in cancelReq'[h]
  BY <1>1, <1>2, <1>3, OthersCancelInv
<1>. QED BY <1>4, <1>5 DEF CancelInv

LEMMA NextCancelInv == TypeOK /\ CancelInv /\ [Next]_vars => CancelInv'
<1> SUFFICES ASSUME TypeOK, CancelInv, [Next]_vars PROVE CancelInv'
  OBVIOUS
<1>1. CASE EnterLifespan
  BY <1>1 DEF EnterLifespan, CancelInv, TypeOK, Done, handlerVars
<1>2. CASE \E h \in Handlers : HandlerStep(h)
  BY <1>2, HandlerCancelInv
<1>3. CASE \E c \in Closers : CloserStep(c)
  BY <1>3, CloserCancelInv
<1>4. CASE UNCHANGED vars
  BY <1>4 DEF CancelInv, Done, vars, handlerVars, closerVars
<1>. QED BY <1>1, <1>2, <1>3, <1>4 DEF Next, Exited

\* After its second cancel close_all waits for nobody who does not end at his
\* next step, for any number of handlers and of callers that cancel the same
\* ones: the safety half of CloseAllEnds.
THEOREM SecondCancelSuffices == Spec => []GatherCannotHang
<1>1. Init => CancelInv
  BY DEF Init, CancelInv
<1>2. CancelInv => GatherCannotHang
  BY DEF CancelInv, GatherCannotHang
<1>. QED BY <1>1, <1>2, NextCancelInv, TypeCorrect, PTL DEF Spec

-----------------------------------------------------------------------------
(* The registry is accurate.                                               *)

\* A handler has an id once it has registered, and only then.
SessionInv ==
  \A h \in Handlers :
    /\ pc[h] = "new" => connId[h] = None
    /\ Live(h) => connId[h] # None
    /\ frame[h] = "interrupted" => pc[h] = "done"

\* An entry of the registry is held under the id of its handler.
EntryInv ==
  \A i \in ConnIds : connections[i] # None => connId[connections[i]] = i

\* No two handlers were given the same id.
DistinctIds ==
  UniqueIds => \A g, h \in Handlers : connId[g] # None /\ connId[g] = connId[h] => g = h

RegistryInv == SessionInv /\ EntryInv /\ DistinctIds /\ RegistryAccurate

\* A handler that leaves the finally block with its own entry removed.
LEMMA CloseDoneRegistryInv ==
  ASSUME TypeOK, RegistryInv, NEW h \in Handlers, Live(h), CloseDone(h),
         UNCHANGED <<connId, phase, tasks>>
  PROVE  RegistryInv'
<1> USE ConstantsAssumption DEF TypeOK, RegistryInv, CloseDone, Deregister
<1>1. connId[h] \in ConnIds
  BY DEF SessionInv
<1>2. SessionInv'
  BY DEF SessionInv, Live
<1>3. EntryInv'
  BY DEF EntryInv
<1>4. DistinctIds'
  BY DEF DistinctIds
<1>5. RegistryAccurate'
  <2>1. SUFFICES ASSUME ~Cleared, NEW g \in Handlers, SoleOwner(g)
                 PROVE  connections'[connId[g]] = g <=>
                          (Live(g)' \/ frame'[g] = "interrupted")
    BY DEF RegistryAccurate, Cleared, SoleOwner
  <2>2. CASE g = h
    BY <1>1, <2>2 DEF Live
  <2>3. CASE g # h
    <3>1. connId[g] # connId[h] /\ connId[g] # None
      BY <2>1, <2>3 DEF SoleOwner
    <3>2. connections[connId[g]] = g <=> Live(g) \/ frame[g] = "interrupted"
      BY <2>1 DEF RegistryAccurate
    <3>3. connections'[connId[g]] = connections[connId[g]]
      BY <1>1, <2>1, <3>1
    <3>4. pc'[g] = pc[g] /\ frame'[g] = frame[g]
      BY <2>3
    <3>. QED BY <3>2, <3>3, <3>4 DEF Live
  <2>. QED BY <2>2, <2>3
<1>. QED BY <1>2, <1>3, <1>4, <1>5

\* A handler that moves on without touching its entry.
LEMMA EnterFinallyRegistryInv ==
  ASSUME TypeOK, RegistryInv, NEW h \in Handlers, pc[h] = "receive", EnterFinally(h),
         UNCHANGED <<connId, phase, tasks>>
  PROVE  RegistryInv'
<1>1. CASE CloseDone(h)
  BY <1>1, CloseDoneRegistryInv DEF Live
<1>2. CASE /\ pc' = [pc EXCEPT ![h] = "closing"]
           /\ UNCHANGED <<frame, connections>>
  <2>1. \A g \in Handlers : Live(g)' <=> Live(g)
    BY <1>2 DEF Live, TypeOK
  <2>2. SessionInv'
    BY <1>2, <2>1 DEF SessionInv, RegistryInv, TypeOK, Live
  <2>3. EntryInv' /\ DistinctIds'
    BY <1>2 DEF EntryInv, DistinctIds, RegistryInv
  <2>4. RegistryAccurate'
    BY <1>2, <2>1 DEF RegistryAccurate, Cleared, SoleOwner, RegistryInv
  <2>. QED BY <2>2, <2>3, <2>4 DEF RegistryInv
<1>. QED BY <1>1, <1>2 DEF EnterFinally

LEMMA StartHandlerRegistryInv ==
  ASSUME TypeOK, RegistryInv, NEW h \in Handlers, StartHandler(h)
  PROVE  RegistryInv'
<1> USE ConstantsAssumption DEF TypeOK, RegistryInv
<1>1. PICK i \in NewIds : /\ connId' = [connId EXCEPT ![h] = i]
                          /\ connections' = [connections EXCEPT ![i] = h]
  BY DEF StartHandler
<1>2. /\ pc[h] = "new"
      /\ pc' = [pc EXCEPT ![h] = "receive"]
      /\ UNCHANGED <<frame, phase, tasks>>
  BY DEF StartHandler, closerVars
<1>3. i \in ConnIds /\ i # None /\ connId[h] = None
  BY <1>2 DEF NewIds, SessionInv
<1>4. SessionInv'
  BY <1>1, <1>2, <1>3 DEF SessionInv, Live
<1>5. EntryInv'
  BY <1>1, <1>3 DEF EntryInv
<1>6. UniqueIds => \A g \in Handlers : connId[g] # i
  BY DEF NewIds
<1>7. DistinctIds'
  BY <1>1, <1>3, <1>6 DEF DistinctIds
<1>8. RegistryAccurate'
  <2>1. SUFFICES ASSUME ~Cleared, NEW g \in Handlers, SoleOwner(g)'
                 PROVE  connections'[connId'[g]] = g <=>
                          (Live(g)' \/ frame'[g] = "interrupted")
    BY <1>2 DEF RegistryAccurate, Cleared
  <2>2. CASE g = h
    BY <1>1, <1>2, <1>3, <2>2 DEF Live
  <2>3. CASE g # h
    <3>1. connId'[g] = connId[g] /\ connId[g] # i /\ connId[g] \in ConnIds /\ SoleOwner(g)
      <4>1. connId'[g] # None /\ \A f \in Handlers \ {g} : connId'[f] # connId'[g]
        BY <2>1 DEF SoleOwner
      <4>2. connId'[g] = connId[g] /\ connId'[h] = i
        BY <1>1, <2>3
      <4>3. connId[g] # i
        BY <2>3, <4>1, <4>2
      <4>4. \A f \in Handlers \ {g} : connId[f] # connId[g]
        BY <1>1, <1>3, <4>1, <4>2
      <4>. QED BY <4>1, <4>2, <4>3, <4>4 DEF SoleOwner
    <3>2. connections[connId[g]] = g <=> Live(g) \/ frame[g] = "interrupted"
      BY <2>1, <3>1 DEF RegistryAccurate
    <3>3. connections'[connId[g]] = connections[connId[g]]
      BY <1>1, <1>3, <3>1
    <3>4. pc'[g] = pc[g] /\ frame'[g] = frame[g]
      BY <1>2, <2>3
    <3>. QED BY <3>1, <3>2, <3>3, <3>4 DEF Live
  <2>. QED BY <2>2, <2>3
<1>. QED BY <1>4, <1>5, <1>7, <1>8

LEMMA HandlerRegistryInv ==
  ASSUME TypeOK, RegistryInv, NEW h \in Handlers, HandlerStep(h)
  PROVE  RegistryInv'
<1>1. CASE StartHandler(h)
  BY <1>1, StartHandlerRegistryInv
<1>2. CASE RejectHandler(h)
  <2>1. /\ pc[h] = "new"
        /\ pc' = [pc EXCEPT ![h] = "done"]
        /\ UNCHANGED <<connections, connId, frame, phase, tasks>>
    BY <1>2 DEF RejectHandler, registryVars, closerVars
  <2>2. \A g \in Handlers : Live(g)' <=> Live(g)
    BY <2>1 DEF Live, TypeOK
  <2>3. SessionInv' /\ EntryInv' /\ DistinctIds'
    BY <2>1, <2>2 DEF RegistryInv, SessionInv, EntryInv, DistinctIds, TypeOK
  <2>4. RegistryAccurate'
    BY <2>1, <2>2 DEF RegistryInv, RegistryAccurate, Cleared, SoleOwner
  <2>. QED BY <2>3, <2>4 DEF RegistryInv
<1>3. CASE LeaveLoop(h)
  BY <1>3, EnterFinallyRegistryInv DEF LeaveLoop, closerVars
<1>4. CASE CancelLoop(h)
  BY <1>4, EnterFinallyRegistryInv DEF CancelLoop, closerVars
<1>5. CASE FinishClose(h)
  BY <1>5, CloseDoneRegistryInv DEF FinishClose, closerVars, Live
<1>6. CASE CancelClose(h)
  <2>1. /\ pc[h] = "closing"
        /\ pc' = [pc EXCEPT ![h] = "done"]
        /\ frame' = [frame EXCEPT ![h] = "interrupted"]
        /\ UNCHANGED <<connections, connId, phase, tasks>>
    BY <1>6 DEF CancelClose, registryVars, closerVars
  <2>2. \A g \in Handlers : (Live(g) \/ frame[g] = "interrupted")' <=>
                              Live(g) \/ frame[g] = "interrupted"
    BY <2>1 DEF Live, TypeOK
  <2>3. SessionInv' /\ EntryInv' /\ DistinctIds'
    BY <2>1 DEF RegistryInv, SessionInv, EntryInv, DistinctIds, TypeOK, Live
  <2>4. RegistryAccurate'
    BY <2>1, <2>2 DEF RegistryInv, RegistryAccurate, Cleared, SoleOwner
  <2>. QED BY <2>3, <2>4 DEF RegistryInv
<1>. QED BY <1>1, <1>2, <1>3, <1>4, <1>5, <1>6 DEF HandlerStep

\* A close_all that does not clear the registry, and does not forget that
\* another one did, leaves it as accurate as it was.
LEMMA UntouchedRegistryInv ==
  ASSUME RegistryInv, Cleared => Cleared', UNCHANGED <<connections, pc, connId, frame>>
  PROVE  RegistryInv'
<1>1. SessionInv' /\ EntryInv' /\ DistinctIds'
  BY DEF RegistryInv, SessionInv, EntryInv, DistinctIds, Live
<1>2. RegistryAccurate'
  BY DEF RegistryInv, RegistryAccurate, Live, SoleOwner
<1>. QED BY <1>1, <1>2 DEF RegistryInv

LEMMA ClearRegistryInv ==
  ASSUME TypeOK, DrainInv, RegistryInv, NEW c \in Closers,
         phase[c] \in {"waiting", "gathering"}, ClearAndReturn(c)
  PROVE  RegistryInv'
<1>1. /\ connections' = NoConnections
      /\ phase' = [phase EXCEPT ![c] = "returned"]
      /\ UNCHANGED <<pc, connId, frame, tasks>>
  BY DEF ClearAndReturn, ReturnFromCloseAll, handlerVars
<1>2. Cleared'
  BY <1>1 DEF Cleared, DrainInv, TypeOK
<1>3. SessionInv' /\ DistinctIds'
  BY <1>1 DEF RegistryInv, SessionInv, DistinctIds, Live
<1>4. EntryInv'
  BY <1>1 DEF EntryInv, NoConnections
<1>. QED BY <1>2, <1>3, <1>4 DEF RegistryInv, RegistryAccurate

LEMMA CloserRegistryInv ==
  ASSUME TypeOK, DrainInv, RegistryInv, NEW c \in Closers, CloserStep(c)
  PROVE  RegistryInv'
<1>1. CASE BeginCloseAll(c)
  <2>1. phase[c] = "idle" /\ UNCHANGED <<connections, pc, connId, frame>>
    BY <1>1 DEF BeginCloseAll
  <2>2. \A d \in Closers : d # c => phase'[d] = phase[d] /\ tasks'[d] = tasks[d]
    BY <1>1 DEF BeginCloseAll, ReturnFromCloseAll, TypeOK
  <2>3. Cleared => Cleared'
    BY <2>1, <2>2 DEF Cleared
  <2>. QED BY <2>1, <2>3, UntouchedRegistryInv
<1>2. CASE DrainCompletes(c)
  BY <1>2, ClearRegistryInv DEF DrainCompletes
<1>3. CASE GatherCompletes(c)
  BY <1>3, ClearRegistryInv DEF GatherCompletes
<1>4. CASE DrainTimesOut(c) \/ AbortCloseAll(c) \/ UnwindCompletes(c)
  <2>1. phase[c] # "returned" /\ UNCHANGED <<connections, pc, connId, frame, tasks>>
    BY <1>4 DEF DrainTimesOut, AbortCloseAll, UnwindCompletes, registryVars, handlerVars
  <2>2. \A d \in Closers : d # c => phase'[d] = phase[d]
    BY <1>4 DEF DrainTimesOut, AbortCloseAll, UnwindCompletes, TypeOK
  <2>3. Cleared => Cleared'
    BY <2>1, <2>2 DEF Cleared
  <2>. QED BY <2>1, <2>3, UntouchedRegistryInv
<1>. QED BY <1>1, <1>2, <1>3, <1>4 DEF CloserStep

LEMMA InitRegistryInv == Init => RegistryInv
  BY DEF Init, RegistryInv, SessionInv, EntryInv, DistinctIds, RegistryAccurate,
         SoleOwner, NoConnections, Live

LEMMA NextRegistryInv ==
  TypeOK /\ DrainInv /\ RegistryInv /\ [Next]_vars => RegistryInv'
<1> SUFFICES ASSUME TypeOK, DrainInv, RegistryInv, [Next]_vars PROVE RegistryInv'
  OBVIOUS
<1>1. CASE EnterLifespan
  <2>1. UNCHANGED <<connections, pc, connId, frame, tasks>>
    BY <1>1 DEF EnterLifespan, handlerVars
  <2>2. Cleared => Cleared'
    BY <1>1, ConstantsAssumption DEF EnterLifespan, Cleared, TypeOK
  <2>. QED BY <2>1, <2>2, UntouchedRegistryInv
<1>2. CASE \E h \in Handlers : HandlerStep(h)
  BY <1>2, HandlerRegistryInv
<1>3. CASE \E c \in Closers : CloserStep(c)
  BY <1>3, CloserRegistryInv
<1>4. CASE UNCHANGED vars
  BY <1>4, UntouchedRegistryInv DEF vars, registryVars, handlerVars, closerVars, Cleared
<1>. QED BY <1>1, <1>2, <1>3, <1>4 DEF Next, Exited

LEMMA RegistryInvariant == Spec => []RegistryInv
  BY InitRegistryInv, NextRegistryInv, DrainInvariant, TypeCorrect, PTL DEF Spec

\* Until close_all clears it, the registry holds the handlers that share no id
\* exactly while they run, and those of them whose deregister a cancel skipped.
THEOREM RegistryIsAccurate == Spec => []RegistryAccurate
<1>1. RegistryInv => RegistryAccurate
  BY DEF RegistryInv
<1>. QED BY <1>1, RegistryInvariant, PTL

-----------------------------------------------------------------------------
(* Clean exits.                                                            *)

PromptInv ==
  \A h \in Handlers \ Suspending :
    /\ pc[h] # "closing"
    /\ pc[h] = "done" => EndedCleanly(h)

LEMMA HandlerPromptInv ==
  ASSUME TypeOK, RegistryInv, PromptInv, NEW h \in Handlers, HandlerStep(h)
  PROVE  PromptInv'
<1> SUFFICES ASSUME NEW g \in Handlers \ Suspending
             PROVE  pc'[g] # "closing" /\ (pc'[g] = "done" => EndedCleanly(g)')
  BY DEF PromptInv
<1> USE ConstantsAssumption DEF TypeOK
<1>1. pc[g] # "closing" /\ (pc[g] = "done" => EndedCleanly(g))
  BY DEF PromptInv
<1>2. CASE StartHandler(h)
  <2>1. PICK i \in ConnIds : /\ connId' = [connId EXCEPT ![h] = i]
                             /\ connections' = [connections EXCEPT ![i] = h]
    BY <1>2 DEF StartHandler, NewIds
  <2>2. pc[h] = "new" /\ pc' = [pc EXCEPT ![h] = "receive"] /\ frame' = frame
    BY <1>2 DEF StartHandler
  <2>3. CASE g = h
    BY <2>2, <2>3
  <2>4. CASE g # h
    BY <1>1, <2>1, <2>2, <2>4 DEF EndedCleanly
  <2>. QED BY <2>3, <2>4
<1>3. CASE RejectHandler(h)
  <2>1. /\ pc[h] = "new" /\ pc' = [pc EXCEPT ![h] = "done"]
        /\ UNCHANGED <<connections, connId, frame>>
    BY <1>3 DEF RejectHandler, registryVars
  <2>2. connId[h] = None /\ frame[h] # "interrupted"
    BY <2>1 DEF RegistryInv, SessionInv
  <2>. QED BY <1>1, <2>1, <2>2 DEF EndedCleanly
<1>4. ASSUME Live(h), CloseDone(h), connId' = connId
      PROVE  pc'[g] # "closing" /\ (pc'[g] = "done" => EndedCleanly(g)')
  <2>1. connId[h] \in ConnIds
    BY <1>4 DEF RegistryInv, SessionInv
  <2>2. CASE g = h
    BY <1>4, <2>1, <2>2 DEF CloseDone, Deregister, EndedCleanly
  <2>3. CASE g # h
    BY <1>1, <1>4, <2>1, <2>3 DEF CloseDone, Deregister, EndedCleanly
  <2>. QED BY <2>2, <2>3
<1>5. CASE LeaveLoop(h) \/ CancelLoop(h)
  <2>1. pc[h] = "receive" /\ EnterFinally(h) /\ connId' = connId
    BY <1>5 DEF LeaveLoop, CancelLoop
  <2>2. CASE CloseDone(h)
    BY <1>4, <2>1, <2>2 DEF Live
  <2>3. CASE /\ h \in Suspending
             /\ pc' = [pc EXCEPT ![h] = "closing"]
             /\ UNCHANGED <<frame, connections>>
    BY <1>1, <2>1, <2>3 DEF EndedCleanly
  <2>. QED BY <2>1, <2>2, <2>3 DEF EnterFinally
<1>6. CASE FinishClose(h)
  BY <1>4, <1>6 DEF FinishClose, Live
<1>7. CASE CancelClose(h)
  <2>1. /\ pc[h] = "closing" /\ pc' = [pc EXCEPT ![h] = "done"]
        /\ frame' = [frame EXCEPT ![h] = "interrupted"]
        /\ UNCHANGED <<connections, connId>>
    BY <1>7 DEF CancelClose, registryVars
  <2>2. g # h
    BY <1>1, <2>1
  <2>. QED BY <1>1, <2>1, <2>2 DEF EndedCleanly
<1>. QED BY <1>2, <1>3, <1>5, <1>6, <1>7 DEF HandlerStep

LEMMA NextPromptInv ==
  TypeOK /\ RegistryInv /\ PromptInv /\ [Next]_vars => PromptInv'
<1> SUFFICES ASSUME TypeOK, RegistryInv, PromptInv, [Next]_vars PROVE PromptInv'
  OBVIOUS
<1>1. CASE UNCHANGED <<pc, connId, frame>> /\ connections' \in {connections, NoConnections}
  BY <1>1, ConstantsAssumption DEF PromptInv, EndedCleanly, NoConnections, TypeOK
<1>2. CASE \E h \in Handlers : HandlerStep(h)
  BY <1>2, HandlerPromptInv
<1>3. ASSUME NEW c \in Closers, CloserStep(c)
      PROVE  UNCHANGED <<pc, connId, frame>> /\ connections' \in {connections, NoConnections}
  BY <1>3 DEF CloserStep, BeginCloseAll, DrainCompletes, DrainTimesOut, GatherCompletes,
              AbortCloseAll, UnwindCompletes, ClearAndReturn, registryVars, handlerVars
<1>4. EnterLifespan \/ UNCHANGED vars => UNCHANGED <<pc, connId, frame, connections>>
  BY DEF EnterLifespan, vars, registryVars, handlerVars
<1>. QED BY <1>1, <1>2, <1>3, <1>4 DEF Next, Exited

\* A handler whose close() does not suspend always sends its close frame and
\* always deregisters, even when ids collide.
THEOREM PromptCloseIsClean == Spec => []PromptCloseEndsCleanly
<1>1. Init => PromptInv
  BY DEF Init, PromptInv
<1>2. PromptInv => PromptCloseEndsCleanly
  BY DEF PromptInv, PromptCloseEndsCleanly, Done
<1>. QED BY <1>1, <1>2, NextPromptInv, RegistryInvariant, TypeCorrect, PTL DEF Spec

-----------------------------------------------------------------------------
(* Refinement of ShutdownContract.                                         *)

LEMMA InitContract == Init => Contract!ContractInit
<1> SUFFICES ASSUME Init PROVE Contract!ContractInit
  OBVIOUS
<1>1. {h \in Handlers : connId[h] # None} = {} /\ {h \in Handlers : Live(h)} = {}
  BY DEF Init, Live
<1>2. \A c \in Closers : ContractPhase(phase[c]) = "idle"
  BY DEF Init, ContractPhase
<1>3. tasks = [c \in Closers |-> {}]
  BY DEF Init
<1>. QED BY <1>1, <1>2, <1>3 DEF Contract!ContractInit

\* The abstract state, named.
Joined == {h \in Handlers : connId[h] # None}
LiveSessions == {h \in Handlers : Live(h)}
AbstractPhase == [c \in Closers |-> ContractPhase(phase[c])]

\* A step that shows nothing of itself to the contract.
LEMMA ContractStutter ==
  ASSUME Joined' = Joined, LiveSessions' = LiveSessions,
         AbstractPhase' = AbstractPhase, tasks' = tasks
  PROVE  UNCHANGED Contract!contractVars
  BY DEF Joined, LiveSessions, AbstractPhase, Contract!contractVars

LEMMA JoinStep ==
  ASSUME NEW h \in Handlers, h \notin Joined, Joined' = Joined \cup {h},
         LiveSessions' = LiveSessions \cup {h}, UNCHANGED <<phase, tasks>>
  PROVE  Contract!ContractNext
<1>1. Contract!Join(h)
  BY DEF Contract!Join, Joined, LiveSessions
<1>. QED BY <1>1 DEF Contract!ContractNext

LEMMA LeaveStep ==
  ASSUME NEW h \in LiveSessions, LiveSessions' = LiveSessions \ {h},
         UNCHANGED <<connId, phase, tasks>>
  PROVE  Contract!ContractNext
<1>1. Contract!Leave(h)
  BY DEF Contract!Leave, LiveSessions
<1>2. h \in Handlers
  BY DEF LiveSessions
<1>. QED BY <1>1, <1>2 DEF Contract!ContractNext

\* What a handler does in its finally block is a Leave, or invisible.
LEMMA EnterFinallyContract ==
  ASSUME TypeOK, NEW h \in Handlers, pc[h] = "receive", EnterFinally(h),
         UNCHANGED <<connId, phase, tasks>>
  PROVE  Contract!ContractNext \/ UNCHANGED Contract!contractVars
<1>1. CASE pc' = [pc EXCEPT ![h] = "done"]
  <2>1. h \in LiveSessions /\ LiveSessions' = LiveSessions \ {h}
    BY <1>1 DEF LiveSessions, Live, TypeOK
  <2>. QED BY <2>1, LeaveStep
<1>2. CASE pc' = [pc EXCEPT ![h] = "closing"]
  <2>1. LiveSessions' = LiveSessions /\ Joined' = Joined /\ AbstractPhase' = AbstractPhase
    BY <1>2 DEF LiveSessions, Joined, AbstractPhase, Live, TypeOK
  <2>. QED BY <2>1, ContractStutter
<1>. QED BY <1>1, <1>2 DEF EnterFinally, CloseDone

LEMMA HandlerContract ==
  ASSUME TypeOK, RegistryInv, NEW h \in Handlers, HandlerStep(h)
  PROVE  Contract!ContractNext \/ UNCHANGED Contract!contractVars
<1>1. CASE StartHandler(h)
  <2>1. PICK i \in ConnIds : connId' = [connId EXCEPT ![h] = i]
    BY <1>1 DEF StartHandler, NewIds
  <2>2. /\ pc[h] = "new"
        /\ pc' = [pc EXCEPT ![h] = "receive"]
        /\ UNCHANGED <<phase, tasks>>
    BY <1>1 DEF StartHandler, closerVars
  <2>3. connId[h] = None
    BY <2>2 DEF RegistryInv, SessionInv
  <2>4. h \notin Joined /\ Joined' = Joined \cup {h}
    BY <2>1, <2>3, ConstantsAssumption DEF Joined, TypeOK
  <2>5. LiveSessions' = LiveSessions \cup {h}
    BY <2>2 DEF LiveSessions, Live, TypeOK
  <2>. QED BY <2>2, <2>4, <2>5, JoinStep
<1>2. CASE RejectHandler(h)
  <2>1. /\ pc[h] = "new" /\ pc' = [pc EXCEPT ![h] = "done"]
        /\ UNCHANGED <<connId, phase, tasks>>
    BY <1>2 DEF RejectHandler, closerVars
  <2>2. LiveSessions' = LiveSessions /\ Joined' = Joined /\ AbstractPhase' = AbstractPhase
    BY <2>1 DEF LiveSessions, Joined, AbstractPhase, Live, TypeOK
  <2>. QED BY <2>1, <2>2, ContractStutter
<1>3. CASE LeaveLoop(h)
  BY <1>3, EnterFinallyContract DEF LeaveLoop, closerVars
<1>4. CASE CancelLoop(h)
  BY <1>4, EnterFinallyContract DEF CancelLoop, closerVars
<1>5. CASE FinishClose(h) \/ CancelClose(h)
  <2>1. /\ pc[h] = "closing" /\ pc' = [pc EXCEPT ![h] = "done"]
        /\ UNCHANGED <<connId, phase, tasks>>
    BY <1>5 DEF FinishClose, CancelClose, CloseDone, closerVars
  <2>2. h \in LiveSessions /\ LiveSessions' = LiveSessions \ {h}
    BY <2>1 DEF LiveSessions, Live, TypeOK
  <2>. QED BY <2>1, <2>2, LeaveStep
<1>. QED BY <1>1, <1>2, <1>3, <1>4, <1>5 DEF HandlerStep

\* The sessions a close_all finds are the registered ones: all the live ones,
\* as long as ids do not collide and nothing has cleared the registry.
LEMMA RegisteredSessions ==
  ASSUME TypeOK, RegistryInv
  PROVE  /\ Registered \subseteq Joined
         /\ UniqueIds /\ ~Cleared => LiveSessions \subseteq Registered
<1>1. Registered \subseteq Joined
  BY ConstantsAssumption DEF Registered, Joined, RegistryInv, EntryInv, TypeOK
<1>2. ASSUME UniqueIds, ~Cleared, NEW h \in LiveSessions
      PROVE  h \in Registered
  <2>1. h \in Handlers /\ connId[h] \in ConnIds /\ connId[h] # None
    BY <1>2 DEF LiveSessions, RegistryInv, SessionInv, TypeOK
  <2>2. SoleOwner(h)
    BY <1>2, <2>1 DEF RegistryInv, DistinctIds, SoleOwner
  <2>3. connections[connId[h]] = h
    BY <1>2, <2>1, <2>2 DEF RegistryInv, RegistryAccurate, LiveSessions
  <2>. QED BY <2>1, <2>3, ConstantsAssumption DEF Registered
<1>. QED BY <1>1, <1>2

LEMMA CloserContract ==
  ASSUME TypeOK, DrainInv, RegistryInv, UniqueIds, NEW c \in Closers, CloserStep(c)
  PROVE  Contract!ContractNext \/ UNCHANGED Contract!contractVars
<1>. DEFINE Shows(p) == AbstractPhase' = [AbstractPhase EXCEPT ![c] = p]
<1>1. CASE BeginCloseAll(c)
  <2>1. /\ phase[c] = "idle" /\ AbstractPhase[c] = "idle" /\ tasks[c] = {}
        /\ UNCHANGED <<connId, pc>>
    BY <1>1 DEF BeginCloseAll, AbstractPhase, ContractPhase, DrainInv
  <2>2. Joined' = Joined /\ LiveSessions' = LiveSessions
    BY <2>1 DEF Joined, LiveSessions, Live
  <2>3. tasks' = [tasks EXCEPT ![c] = Registered]
    BY <1>1, <2>1 DEF BeginCloseAll, TypeOK
  <2>4. phase' = [phase EXCEPT ![c] = IF Registered = {} THEN "returned" ELSE "waiting"]
    BY <1>1 DEF BeginCloseAll, ReturnFromCloseAll
  <2>5. Shows(IF Registered = {} THEN "ended" ELSE "draining")
    BY <2>4 DEF AbstractPhase, ContractPhase, TypeOK
  <2>6. (\A d \in Closers : AbstractPhase[d] # "ended" \/ tasks[d] = {})
          => LiveSessions \subseteq Registered
    BY RegisteredSessions DEF Cleared, AbstractPhase, ContractPhase
  <2>7. Contract!Begin(c)
    BY <2>1, <2>2, <2>3, <2>5, <2>6, RegisteredSessions
       DEF Contract!Begin, Joined, LiveSessions, AbstractPhase
  <2>. QED BY <2>7 DEF Contract!ContractNext
<1>2. CASE DrainCompletes(c) \/ GatherCompletes(c)
  <2>1. /\ phase[c] \in {"waiting", "gathering"}
        /\ phase' = [phase EXCEPT ![c] = "returned"]
        /\ UNCHANGED <<connId, pc, tasks>>
    BY <1>2 DEF DrainCompletes, GatherCompletes, ClearAndReturn, ReturnFromCloseAll, handlerVars
  <2>2. tasks[c] \subseteq Done
    BY <1>2 DEF DrainCompletes, GatherCompletes, DrainInv
  <2>3. tasks[c] \cap LiveSessions = {}
    BY <2>2 DEF Done, LiveSessions, Live
  <2>4. Joined' = Joined /\ LiveSessions' = LiveSessions
    BY <2>1 DEF Joined, LiveSessions, Live
  <2>5. AbstractPhase[c] = "draining" /\ Shows("ended")
    BY <2>1 DEF AbstractPhase, ContractPhase, TypeOK
  <2>6. Contract!End(c)
    BY <2>1, <2>3, <2>4, <2>5 DEF Contract!End, Joined, LiveSessions, AbstractPhase
  <2>. QED BY <2>6 DEF Contract!ContractNext
<1>3. CASE DrainTimesOut(c) \/ (AbortCloseAll(c) /\ phase[c] = "gathering")
  <2>1. /\ phase[c] \in {"waiting", "gathering"}
        /\ \E p \in {"gathering", "unwinding"} : phase' = [phase EXCEPT ![c] = p]
        /\ UNCHANGED <<connId, pc, tasks>>
    BY <1>3 DEF DrainTimesOut, AbortCloseAll, handlerVars
  <2>2. Joined' = Joined /\ LiveSessions' = LiveSessions
    BY <2>1 DEF Joined, LiveSessions, Live
  <2>3. AbstractPhase' = AbstractPhase
    BY <2>1 DEF AbstractPhase, ContractPhase, TypeOK
  <2>. QED BY <2>1, <2>2, <2>3, ContractStutter
<1>4. CASE (AbortCloseAll(c) /\ phase[c] = "waiting") \/ UnwindCompletes(c)
  <2>1. /\ phase[c] \in {"waiting", "unwinding"}
        /\ phase' = [phase EXCEPT ![c] = "aborted"]
        /\ UNCHANGED <<connId, pc, tasks>>
    BY <1>4 DEF AbortCloseAll, UnwindCompletes, handlerVars
  <2>2. Joined' = Joined /\ LiveSessions' = LiveSessions
    BY <2>1 DEF Joined, LiveSessions, Live
  <2>3. AbstractPhase[c] = "draining" /\ Shows("aborted")
    BY <2>1 DEF AbstractPhase, ContractPhase, TypeOK
  <2>4. Contract!Abort(c)
    BY <2>1, <2>2, <2>3 DEF Contract!Abort, Joined, LiveSessions, AbstractPhase
  <2>. QED BY <2>4 DEF Contract!ContractNext
<1>. QED BY <1>1, <1>2, <1>3, <1>4 DEF CloserStep, AbortCloseAll

LEMMA NextContract ==
  ASSUME TypeOK, DrainInv, RegistryInv, UniqueIds, [Next]_vars
  PROVE  [Contract!ContractNext]_(Contract!contractVars)
<1>1. CASE EnterLifespan
  <2>1. Joined' = Joined /\ LiveSessions' = LiveSessions /\ tasks' = tasks
    BY <1>1 DEF EnterLifespan, handlerVars, Joined, LiveSessions, Live
  <2>2. AbstractPhase' = AbstractPhase
    BY <1>1, ConstantsAssumption DEF EnterLifespan, AbstractPhase, ContractPhase, TypeOK
  <2>. QED BY <2>1, <2>2, ContractStutter
<1>2. CASE \E h \in Handlers : HandlerStep(h)
  BY <1>2, HandlerContract
<1>3. CASE \E c \in Closers : CloserStep(c)
  BY <1>3, CloserContract
<1>4. CASE UNCHANGED vars
  <2>1. Joined' = Joined /\ LiveSessions' = LiveSessions /\ tasks' = tasks
    BY <1>4 DEF vars, handlerVars, closerVars, Joined, LiveSessions, Live
  <2>2. AbstractPhase' = AbstractPhase
    BY <1>4 DEF vars, closerVars, AbstractPhase
  <2>. QED BY <2>1, <2>2, ContractStutter
<1>. QED BY <1>1, <1>2, <1>3, <1>4 DEF Next, Exited

\* The registry, its handlers and close_all implement the contract of a graceful
\* shutdown, provided make_connection_id never returns the same id twice.
THEOREM ImplementsContract == UniqueIds /\ Spec => KeepsContract
<1> SUFFICES ASSUME UniqueIds PROVE Spec => KeepsContract
  OBVIOUS
<1>1. Init => Contract!ContractInit
  BY InitContract
<1>2. TypeOK /\ DrainInv /\ RegistryInv /\ [Next]_vars
        => [Contract!ContractNext]_(Contract!contractVars)
  BY NextContract
<1>. QED BY <1>1, <1>2, TypeCorrect, DrainInvariant, RegistryInvariant, PTL
     DEF Spec, KeepsContract, Contract!ContractSpec

-----------------------------------------------------------------------------
(* What the contract is worth, said of handlers and of close_all.          *)

Worth == INSTANCE ShutdownContractProofs WITH
  Sessions <- Handlers,
  Drains <- Closers,
  joined <- Joined,
  live <- LiveSessions,
  phase <- AbstractPhase,
  target <- tasks

\* h serves a connection, and no close_all has begun.
ServesBefore(h) == Live(h) /\ \A c \in Closers : phase[c] \in {"entering", "idle"}

LEMMA SameContract ==
  /\ Contract!ContractInit => Worth!ContractInit
  /\ [Contract!ContractNext]_(Contract!contractVars) => [Worth!ContractNext]_(Worth!contractVars)
  BY DEF Contract!ContractInit, Worth!ContractInit, Contract!ContractNext, Worth!ContractNext,
         Contract!contractVars, Worth!contractVars, Contract!Join, Worth!Join,
         Contract!Leave, Worth!Leave, Contract!Begin, Worth!Begin, Contract!End, Worth!End,
         Contract!Abort, Worth!Abort, Joined, LiveSessions, AbstractPhase

\* Whoever was being served when the first close_all began is gone when a
\* close_all, that one or any other, returns: only handlers that started later
\* can outlive a shutdown, as NoHandlerOutlivesShutdown shows they do.
THEOREM ShutdownDrainsTheServed ==
  \A h \in Handlers : \A c \in Closers :
    UniqueIds /\ Spec => [](ServesBefore(h) => [](phase[c] = "returned" => ~Live(h)))
<1> TAKE h \in Handlers
<1> TAKE c \in Closers
<1> SUFFICES ASSUME UniqueIds
             PROVE  Spec => [](ServesBefore(h) => [](phase[c] = "returned" => ~Live(h)))
  OBVIOUS
<1>1. Init => Worth!ContractInv
  BY InitContract, SameContract, Worth!InitContractInv
<1>2. TypeOK /\ DrainInv /\ RegistryInv /\ [Next]_vars
        => [Worth!ContractNext]_(Worth!contractVars)
  BY NextContract, SameContract
<1>3. Worth!ContractInv /\ [Worth!ContractNext]_(Worth!contractVars) => Worth!ContractInv'
  BY Worth!NextContractInv
<1>4. Worth!ContractInv /\ ServesBefore(h) => Worth!Covered(h)
  <2>1. ServesBefore(h) => Worth!Early(h)
    BY DEF ServesBefore, Worth!Early, LiveSessions, AbstractPhase, ContractPhase
  <2>. QED BY <2>1, Worth!EarlyIsCovered
<1>5. Worth!ContractInv /\ Worth!Covered(h) /\ [Worth!ContractNext]_(Worth!contractVars)
        => Worth!Covered(h)'
  BY Worth!NextCovered
<1>6. Worth!ContractInv /\ Worth!Covered(h) => (phase[c] = "returned" => ~Live(h))
  <2> SUFFICES ASSUME Worth!ContractInv, Worth!Covered(h), phase[c] = "returned"
               PROVE  ~Live(h)
    OBVIOUS
  <2>1. AbstractPhase[c] = "ended"
    BY DEF AbstractPhase, ContractPhase
  <2>2. h \notin LiveSessions
    BY <2>1, Worth!CoveredIsDrained
  <2>. QED BY <2>2 DEF LiveSessions
<1>. QED BY <1>1, <1>2, <1>3, <1>4, <1>5, <1>6, TypeCorrect, DrainInvariant, RegistryInvariant,
            PTL DEF Spec
=============================================================================
