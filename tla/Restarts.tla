------------------------------ MODULE Restarts ------------------------------
(***************************************************************************)
(* Lifespans that follow one another, or overlap, in one process or across *)
(* crashes (create_lifespan, get_registry), and the clients that come back *)
(* to whatever is running as their ReconnectPolicy tells them.             *)
(*                                                                         *)
(* A handler is one step here and close_all a wait for the handlers it     *)
(* found: GracefulShutdown has the detail of both.  The loop around the    *)
(* policy belongs to the client: attempts count from 0 after every         *)
(* connection, and delay_for(n) is slept before attempt n.                 *)
(***************************************************************************)
EXTENDS ReconnectPolicy

CONSTANTS
  Lifespans,  \* the calls of create_lifespan, in one or several processes
  Clients,
  Limits      \* the values of max_attempts

ASSUME LimitsAssumption == Limits \subseteq Nat

VARIABLES
  registry,    \* _registry: {}, or the lifespan whose registry it is
  phase,       \* where each lifespan is
  draining,    \* the handlers its close_all still waits for
  home,        \* per client, the lifespan its handler registered with, or {}
  client,      \* what each client does
  attempt,     \* its reconnection attempts since it was last connected
  wait,        \* ticks left of its delay
  limit,       \* its max_attempts
  overlapped   \* history: was the last lifespan entered inside another?

serverVars == <<registry, phase, draining, home, overlapped>>
clientVars == <<client, attempt, wait, limit>>
vars == <<serverVars, clientVars>>

-----------------------------------------------------------------------------
(* The server.                                                             *)

Running(l) == phase[l] \in {"open", "closing"}

Registered(l) == {c \in Clients : home[c] = {l}}

\* Mutant: without `global`, the assignment makes a local variable.
EnterLocally(l) ==
  /\ phase[l] = "new"
  /\ phase' = [phase EXCEPT ![l] = "open"]
  /\ overlapped' = \E k \in Lifespans : Running(k)
  /\ UNCHANGED <<registry, draining, home, clientVars>>

Enter(l) ==
  /\ phase[l] = "new"
  /\ registry' = {l}
  /\ phase' = [phase EXCEPT ![l] = "open"]
  /\ overlapped' = \E k \in Lifespans : Running(k)
  /\ UNCHANGED <<draining, home, clientVars>>

\* Mutant: _registry is left alone.
LeaveRegistry(l) ==
  /\ phase' = [phase EXCEPT ![l] = "over"]
  /\ UNCHANGED registry

\* close_all has returned: `_registry = None`, whoever put it there.
Leave(l) ==
  /\ phase' = [phase EXCEPT ![l] = "over"]
  /\ registry' = {}

\* The lifespan ends: close_all cancels the handlers it finds and waits for
\* them, or returns at once when there are none.
BeginShutdown(l) ==
  /\ phase[l] = "open"
  /\ IF Registered(l) = {}
       THEN Leave(l) /\ UNCHANGED draining
       ELSE /\ phase' = [phase EXCEPT ![l] = "closing"]
            /\ draining' = [draining EXCEPT ![l] = Registered(l)]
            /\ UNCHANGED registry
  /\ UNCHANGED <<home, overlapped, clientVars>>

EndShutdown(l) ==
  /\ phase[l] = "closing"
  /\ draining[l] = {}
  /\ Leave(l)
  /\ UNCHANGED <<draining, home, overlapped, clientVars>>

\* close_all is cancelled: the registry of a lifespan that is over stays.
AbortShutdown(l) ==
  /\ phase[l] = "closing"
  /\ phase' = [phase EXCEPT ![l] = "aborted"]
  /\ draining' = [draining EXCEPT ![l] = {}]
  /\ UNCHANGED <<registry, home, overlapped, clientVars>>

\* The process dies; the next lifespan runs in a new one.
Crash ==
  /\ \E l \in Lifespans : Running(l)
  /\ registry' = {}
  /\ phase' = [l \in Lifespans |-> IF Running(l) THEN "over" ELSE phase[l]]
  /\ draining' = [l \in Lifespans |-> {}]
  /\ home' = [c \in Clients |-> {}]
  /\ overlapped' = FALSE
  /\ UNCHANGED clientVars

\* The client left, or close_all has cancelled its handler.
HandlerEnds(c) ==
  /\ home[c] # {}
  /\ home' = [home EXCEPT ![c] = {}]
  /\ draining' = [l \in Lifespans |-> draining[l] \ {c}]
  /\ UNCHANGED <<registry, phase, overlapped, clientVars>>

-----------------------------------------------------------------------------
(* The clients.                                                            *)

Tick ==
  /\ \E c \in Clients : wait[c] > 0
  /\ wait' = [c \in Clients |-> IF wait[c] > 0 THEN wait[c] - 1 ELSE 0]
  /\ UNCHANGED <<serverVars, client, attempt, limit>>

\* The policy is asked for another attempt and for its delay.
Retry(c) ==
  /\ \/ /\ ~ShouldRetry(limit[c], attempt[c])
        /\ client' = [client EXCEPT ![c] = "gone"]
        /\ UNCHANGED <<attempt, wait>>
     \/ /\ ShouldRetry(limit[c], attempt[c])
        /\ Overflows(attempt[c])
        /\ client' = [client EXCEPT ![c] = "failed"]
        /\ UNCHANGED <<attempt, wait>>
     \/ /\ ShouldRetry(limit[c], attempt[c])
        /\ ~Overflows(attempt[c])
        /\ client' = [client EXCEPT ![c] = "waiting"]
        /\ attempt' = [attempt EXCEPT ![c] = @ + 1]
        /\ \E d \in DelayFor(attempt[c]) : wait' = [wait EXCEPT ![c] = d]
  /\ UNCHANGED limit

\* The connection is gone: refused by get_registry(), or lost.
NoticeLoss(c) ==
  /\ client[c] = "connected"
  /\ home[c] = {}
  /\ Retry(c)
  /\ UNCHANGED serverVars

\* get_registry() raises RuntimeError, or there is no process to connect to.
ConnectRefused(c) ==
  /\ client[c] = "waiting" /\ wait[c] = 0
  /\ registry = {}
  /\ Retry(c)
  /\ UNCHANGED serverVars

\* The handler registers with the registry it finds, whatever its state.
Connect(c) ==
  /\ client[c] = "waiting" /\ wait[c] = 0
  /\ registry # {}
  /\ home' = [home EXCEPT ![c] = registry]
  /\ client' = [client EXCEPT ![c] = "connected"]
  /\ attempt' = [attempt EXCEPT ![c] = 0]
  /\ UNCHANGED <<registry, phase, draining, overlapped, wait, limit>>

-----------------------------------------------------------------------------
Init ==
  /\ registry = {}
  /\ phase = [l \in Lifespans |-> "new"]
  /\ draining = [l \in Lifespans |-> {}]
  /\ home = [c \in Clients |-> {}]
  /\ client = [c \in Clients |-> "waiting"]
  /\ attempt = [c \in Clients |-> 0]
  /\ wait = [c \in Clients |-> 0]
  /\ limit \in [Clients -> Limits]
  /\ overlapped = FALSE

LifespanStep(l) ==
  Enter(l) \/ BeginShutdown(l) \/ EndShutdown(l) \/ AbortShutdown(l)

ClientStep(c) ==
  HandlerEnds(c) \/ NoticeLoss(c) \/ ConnectRefused(c) \/ Connect(c)

Next ==
  \/ \E l \in Lifespans : LifespanStep(l)
  \/ Crash \/ Tick
  \/ \E c \in Clients : ClientStep(c)

Spec == Init /\ [][Next]_vars

\* Time passes, and a client does what is due.  Nobody has to leave, and no
\* server has to come or go.
Fairness ==
  /\ WF_vars(Tick)
  /\ \A c \in Clients : WF_vars(NoticeLoss(c) \/ ConnectRefused(c) \/ Connect(c))

FairSpec == Spec /\ Fairness

-----------------------------------------------------------------------------
(* Properties.                                                             *)

MaxWait == MaxDelay + Jitter(MaxDelay)

\* Every variable has its type; no delay exceeds the cap and its jitter.
TypeOK ==
  /\ registry \in {{}} \cup {{l} : l \in Lifespans}
  /\ phase \in [Lifespans -> {"new", "open", "closing", "over", "aborted"}]
  /\ draining \in [Lifespans -> SUBSET Clients]
  /\ home \in [Clients -> {{}} \cup {{l} : l \in Lifespans}]
  /\ client \in [Clients -> {"waiting", "connected", "gone", "failed"}]
  /\ attempt \in [Clients -> 0..(MaxExponent + 1)]
  /\ wait \in [Clients -> 0..MaxWait]
  /\ limit \in [Clients -> Limits]
  /\ overlapped \in BOOLEAN

\* Unless it was entered inside another one, the lifespan that runs has its
\* registry served to the end of its drain; what get_registry() returns when
\* none runs is nothing, or what an aborted shutdown left behind.
RegistryIsCurrent ==
  /\ ~overlapped => \A l \in Lifespans : Running(l) => registry = {l}
  /\ \A l \in Lifespans : registry = {l} => Running(l) \/ phase[l] = "aborted"

\* A client that still waits for an attempt while a lifespan runs gets
\* connected, however many restarts and refusals came before, unless that
\* lifespan ends first or another one took its registry away.
WaitersGetServed ==
  \A c \in Clients :
    (\E l \in Lifespans : Running(l)) /\ ~overlapped /\ client[c] = "waiting"
      ~> \/ client[c] = "connected"
         \/ overlapped \/ \A l \in Lifespans : ~Running(l)

\* Clients are lost for ever only after as many consecutive failures as their
\* max_attempts, or when the power overflows: a success starts the count again,
\* and max_attempts = 0 ("0 = infinite") ends at the overflow too.
StopsAtLimit ==
  \A c \in Clients :
    /\ client[c] = "gone" => limit[c] > 0 /\ attempt[c] = limit[c]
    /\ client[c] = "failed" =>
         attempt[c] = MaxExponent + 1 /\ (limit[c] = 0 \/ attempt[c] < limit[c])
=============================================================================
