------------------------------ MODULE Heartbeat ------------------------------
(***************************************************************************)
(* HeartbeatManager.run() and its ping loop for one connection             *)
(* (patterns/fault_tolerance.py), with the handler that runs inside the    *)
(* context and may be cancelled anywhere in it, the client that answers or *)
(* does not, and a send_fn that may take any time.                         *)
(*                                                                         *)
(* Time passes in ticks.  asyncio.sleep() returns when its timer is over,  *)
(* or later: nothing makes a tick wait for the loop.  ping_count,          *)
(* pong_count and the connection id are read by nobody and left out.       *)
(***************************************************************************)
EXTENDS Naturals

CONSTANTS
  Interval,   \* interval_s, in ticks
  Timeout,    \* timeout_s, in ticks
  MaxMissed   \* max_missed

ASSUME HeartbeatAssumption ==
  /\ Interval \in Nat
  /\ Timeout \in Nat
  /\ MaxMissed \in Nat \ {0}

VARIABLES
  loop,       \* the heartbeat task: "interval" and "timeout" are its two
              \* sleeps, "sending" its send_fn, "done" its end
  timer,      \* ticks left of the sleep
  sincePong,  \* seconds_since_pong(), counted up to Horizon
  late,       \* history: has a timer run out, or a send taken, a tick or more
              \* longer than it had to since the last pong?
  missed,     \* missed_pongs
  alive,      \* tracker.alive
  handler,    \* "open" inside the context, "exiting" while it awaits the
              \* cancelled task, then "exited"
  request,    \* is a cancel() of the handler still to be delivered?
  raising,    \* is a CancelledError on its way out of run()?
  asked       \* history: where the first cancel() met the handler, or "never"

handlerVars == <<handler, request, raising, asked>>
vars == <<loop, timer, sincePong, late, missed, alive, handlerVars>>

Window == Interval + Timeout

\* Beyond this no comparison of the code, or of a property, tells two ages apart.
Horizon == (MaxMissed + 1) * Window + 1

-----------------------------------------------------------------------------
\* A tick finds the task late if its sleep is over or if it is in send_fn, where
\* the timer is that of the sleep it left, 0.
Tick ==
  /\ timer' = IF timer > 0 THEN timer - 1 ELSE timer
  /\ sincePong' = IF sincePong < Horizon THEN sincePong + 1 ELSE sincePong
  /\ late' = (late \/ timer = 0)
  /\ UNCHANGED <<loop, missed, alive, handlerVars>>

\* The first sleep is over: a ping is on its way.
WakeToPing ==
  /\ handler = "open"
  /\ loop = "interval" /\ timer = 0
  /\ loop' = "sending"
  /\ UNCHANGED <<timer, sincePong, late, missed, alive, handlerVars>>

SendCompletes ==
  /\ handler = "open"
  /\ loop = "sending"
  /\ loop' = "timeout" /\ timer' = Timeout
  /\ UNCHANGED <<sincePong, late, missed, alive, handlerVars>>

SendFails ==
  /\ handler = "open"
  /\ loop = "sending"
  /\ loop' = "done"
  /\ alive' = FALSE
  /\ UNCHANGED <<timer, sincePong, late, missed, handlerVars>>

IsMissed == sincePong > Window

\* Mutant: one miss too many is forgiven.
CheckPongLate ==
  /\ handler = "open"
  /\ loop = "timeout" /\ timer = 0
  /\ missed' = IF IsMissed THEN missed + 1 ELSE missed
  /\ alive' = (missed' <= MaxMissed)
  /\ IF alive' THEN loop' = "interval" /\ timer' = Interval
               ELSE loop' = "done" /\ timer' = timer
  /\ UNCHANGED <<sincePong, late, handlerVars>>

\* Mutant: the break belongs to the miss, not to the verdict.
CheckPongBreaks ==
  /\ handler = "open"
  /\ loop = "timeout" /\ timer = 0
  /\ missed' = IF IsMissed THEN missed + 1 ELSE missed
  /\ alive' = ~(IsMissed /\ missed' >= MaxMissed)
  /\ IF IsMissed THEN loop' = "done" /\ timer' = timer
                 ELSE loop' = "interval" /\ timer' = Interval
  /\ UNCHANGED <<sincePong, late, handlerVars>>

\* The second sleep is over: missed_pongs is only ever compared, and the
\* connection declared dead, in a round that counts another miss.
CheckPong ==
  /\ handler = "open"
  /\ loop = "timeout" /\ timer = 0
  /\ missed' = IF IsMissed THEN missed + 1 ELSE missed
  /\ alive' = ~(IsMissed /\ missed' >= MaxMissed)
  /\ IF alive' THEN loop' = "interval" /\ timer' = Interval
               ELSE loop' = "done" /\ timer' = timer
  /\ UNCHANGED <<sincePong, late, handlerVars>>

\* Mutant: misses add up over the life of the connection.
RecordPongKeepsMissed ==
  /\ handler = "open" /\ ~request
  /\ sincePong' = 0 /\ late' = FALSE
  /\ UNCHANGED <<loop, timer, missed, alive, handlerVars>>

\* The handler records a pong, solicited or not, on a dead tracker too.
RecordPong ==
  /\ handler = "open" /\ ~request
  /\ sincePong' = 0 /\ late' = FALSE
  /\ missed' = 0
  /\ UNCHANGED <<loop, timer, alive, handlerVars>>

\* Somebody cancels the handler, for instance close_all.
CancelHandler ==
  /\ handler # "exited"
  /\ request' = TRUE
  /\ asked' = IF asked = "never" THEN handler ELSE asked
  /\ UNCHANGED <<loop, timer, sincePong, late, missed, alive, handler, raising>>

\* Mutant: a finished context does not wait for the task.
BeginExitAtOnce ==
  /\ handler = "open"
  /\ handler' = "exited"
  /\ raising' = request
  /\ request' = FALSE
  /\ UNCHANGED <<loop, timer, sincePong, late, missed, alive, asked>>

\* The body of the context ends, or ends by the CancelledError that is due: the
\* finally block cancels the task and awaits it, unless it is over already.
BeginExit ==
  /\ handler = "open"
  /\ handler' = IF loop = "done" THEN "exited" ELSE "exiting"
  /\ raising' = request
  /\ request' = FALSE
  /\ UNCHANGED <<loop, timer, sincePong, late, missed, alive, asked>>

\* Mutant: suppress() covers the whole context.
EndLoopSuppressesAll ==
  /\ handler = "exiting"
  /\ loop' = "done"
  /\ handler' = "exited"
  /\ request' = FALSE /\ raising' = FALSE
  /\ UNCHANGED <<timer, sincePong, late, missed, alive, asked>>

\* Mutant: the task is awaited and not cancelled.
EndLoopWaits ==
  /\ handler = "exiting" /\ loop = "done"
  /\ handler' = "exited"
  /\ request' = FALSE
  /\ UNCHANGED <<loop, timer, sincePong, late, missed, alive, raising, asked>>

\* CancelledError is the next thing that happens to the task, in either sleep
\* or in send_fn; except Exception does not catch it.  The handler goes on, even
\* if it was cancelled meanwhile: suppress() takes that error for the task's.
\* One that was raised in the body goes on its way.
EndLoop ==
  /\ handler = "exiting"
  /\ loop' = "done"
  /\ handler' = "exited"
  /\ request' = FALSE
  /\ UNCHANGED <<timer, sincePong, late, missed, alive, raising, asked>>

-----------------------------------------------------------------------------
Init ==
  /\ loop = "interval" /\ timer = Interval
  /\ sincePong = 0 /\ late = FALSE /\ missed = 0
  /\ alive = TRUE
  /\ handler = "open"
  /\ request = FALSE /\ raising = FALSE
  /\ asked = "never"

LoopStep == WakeToPing \/ SendCompletes \/ SendFails \/ CheckPong

HandlerStep == RecordPong \/ CancelHandler \/ BeginExit \/ EndLoop

Next == Tick \/ LoopStep \/ HandlerStep

Spec == Init /\ [][Next]_vars

\* Time passes, and the event loop runs the task whose sleep is over, the
\* handler whose CancelledError is due and the one whose task has ended.
\* Nothing obliges send_fn to end, or a handler to leave by itself.
Fairness ==
  /\ WF_vars(Tick)
  /\ WF_vars(WakeToPing \/ CheckPong)
  /\ WF_vars(request /\ BeginExit)
  /\ WF_vars(EndLoop)

FairSpec == Spec /\ Fairness

-----------------------------------------------------------------------------
(* Properties.                                                             *)

\* Every variable has its type; missed_pongs never passes max_missed.
TypeOK ==
  /\ loop \in {"interval", "sending", "timeout", "done"}
  /\ timer \in 0..(Interval + Timeout)
  /\ sincePong \in 0..Horizon
  /\ late \in BOOLEAN
  /\ missed \in 0..MaxMissed
  /\ alive \in BOOLEAN
  /\ handler \in {"open", "exiting", "exited"}
  /\ request \in BOOLEAN
  /\ raising \in BOOLEAN
  /\ asked \in {"never", "open", "exiting"}

\* A connection is marked dead only by a failed send, or after max_missed whole
\* windows of interval_s + timeout_s without any pong: a single pong, however
\* late, buys them all again, and neither a slow send nor a late wakeup of the
\* loop condemns a client sooner.
DeadMeansSilent ==
  [][alive /\ ~alive' => loop = "sending" \/ sincePong > MaxMissed * Window]_vars

\* "Application-level heartbeats detect dead clients in seconds" (the module's
\* docstring): as long as the loop wakes on time and its sends take none, an open
\* connection is marked dead by the check that comes (max_missed + 1) windows
\* after the last pong, wherever in a round that pong came; delays from before it
\* do not count.  One window more than DeadMeansSilent, and no more than one.
DetectionInTime ==
  handler = "open" /\ alive /\ ~late => sincePong <= (MaxMissed + 1) * Window

\* While the context is open the task pings until the connection is dead, and
\* once it is left the task has ended: no ping follows the end of run().
LoopFollowsContext ==
  /\ handler = "open" => (loop = "done" <=> ~alive)
  /\ handler = "exited" => loop = "done"

\* A client that stays silent is marked dead, unless its handler leaves: only a
\* send_fn that never ends, for it has no timeout, keeps the heartbeat from it.
SilentClientDies ==
  \/ <>[](loop = "sending")
  \/ sincePong > 0 /\ handler = "open" ~> ~alive \/ sincePong = 0 \/ handler # "open"

\* A handler that is cancelled gets out of run(), in whatever sleep or hung
\* send_fn the ping task is.
CancelledHandlerLeaves == request ~> handler = "exited"

\* A cancellation that met the handler inside the context comes out of run(),
\* whatever else cancels it on the way.  suppress() hides only one that came
\* first while run() awaited its task.
CancelLostOnlyOnExit == handler = "exited" /\ ~raising => asked # "open"
=============================================================================
