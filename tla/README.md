# Verification of fastapi-websockets-production

This directory holds TLA+ models of the asyncio code under `patterns/` and
`examples/`, the TLC configurations that check them on small instances, and
TLAPS proofs of their safety properties for every value of the constants.
`PROJECT.json` maps every definition to the lines it models and lists the runs,
the mutants that each property rejects, the findings, the hazards and the
theorems.

## 1. The system

A small library for WebSocket servers. Everything runs on one asyncio event
loop: code between two `await`s is atomic, and what makes it hard is what
happens *at* an `await` - another task runs, a timer fires, a `cancel()`
arrives, a callback does not come back.

| Component | Source | State | Operations | Interacts through |
|---|---|---|---|---|
| `ConnectionRegistry` | `patterns/graceful_shutdown.py:70-166` | `_connections` (id to task), `_shutting_down` | `register`, `deregister`, `get`, `active_count`, `close_all` | cancels handler tasks, awaits them |
| `create_lifespan`, `get_registry` | `:173-216` | module global `_registry` | enter, exit (calls `close_all`), lookup | global read by every handler |
| `make_connection_id` | `:219-223` | - | eight hex digits of a uuid4 | ids of registry and controller |
| handlers | `examples/graceful_shutdown_demo.py:84-205` | position in the receive loop or the `finally` block | register, receive, close, deregister | registry, WebSocket |
| `SendQueue` | `patterns/backpressure.py:72-196` | deque or `asyncio.Queue`, `SendStats` | `enqueue` (4 strategies), `drain` | senders blocked in `put()`, drains suspended in `send_fn` |
| `BackpressureController` | `:199-284` | `_queues` (id to queue) | `add_connection`, `remove_connection`, `get_queue`, statistics | owns SendQueues |
| `InMemoryMessageBus`, `Subscriber` | `patterns/pubsub_distributed.py:97-231` | `_channels`, one queue per subscriber | `subscribe`, `unsubscribe`, `publish`, `messages`, `close_channel` | `None` in a queue ends its reader |
| `Message` | `:44-94` | - | `to_json`, `from_json` | payload of the bus |
| `HeartbeatManager`, `HeartbeatTracker` | `patterns/fault_tolerance.py:48-155` | tracker, one task per context | `run`, ping loop, `record_pong` | `send_fn`, handler |
| `ReconnectPolicy` | `:158-206` | - | `delay_for`, `should_retry` | client side |
| `DeadClientDetector`, `ConnectionHealth` | `:209-313` | `_connections` (id to health) | `track`, `untrack`, `find_dead`, `run_sweep_loop` | awaits `on_dead` |
| dashboard | `examples/realtime_dashboard.py` | registry, controller, bus, producer task, client tasks | connect, receive, leave, produce, run | all of the above |
| benchmark | `benchmarks/connection_throughput.py` | client buffers | broadcasts, percentiles | - |
| `RedisPubSubConfig` | `pubsub_distributed.py:234-264` | settings | - | nothing |

What makes each correct:

- **Registry and shutdown.** `close_all` leaves none of the handlers it found
  running; the registry lists a handler exactly while it runs; handlers send
  their close frame and deregister although they are cancelled, twice if need be.
- **Lifespans and reconnection.** The registry served is that of the lifespan
  that runs; a client stops trying only when its policy says so, and is served
  while it tries.
- **SendQueue and controller.** Bounded under every strategy; no lost wakeup among
  senders blocked in `put()`; no message vanishes from the books; a blocked sender
  gets in unless its place is taken each time it is woken, or the queue is
  abandoned; the controller leaves its queues as they are.
- **Bus.** The channel table is right whatever the order of opening and closing;
  a stop signal is last, fits, and ends its reader.
- **Heartbeat.** Only silence or a failed send kills a connection; silence does,
  and in time unless something runs late;
  the ping task does not outlive its context, and does not hold up or hide the
  cancellation of its handler.
- **Detector.** Nobody falls out of the sweep, nobody is called twice, whoever
  stays idle is swept.
- **Dashboard.** The three tables agree; the simulation ends and leaves nothing.

The hazards, line by line, are in `PROJECT.json`.

## 2. Modules

| Module | Models | Actions correspond to |
|---|---|---|
| `GracefulShutdown` | registry, lifespan, `correct_ws_handler`, any number of `close_all` calls | one action per stretch of a task between suspensions: `StartHandler`, `LeaveLoop`/`CancelLoop` (into `finally`), `FinishClose`/`CancelClose` (out of `await ws.close()`), `BeginCloseAll`, `DrainCompletes`/`DrainTimesOut` (the `asyncio.wait`), `GatherCompletes`, `AbortCloseAll`/`UnwindCompletes` (its caller is cancelled) |
| `ShutdownContract` | nothing of the code: what a graceful shutdown promises | `Join`, `Leave`, `Begin`, `End`, `Abort`; `GracefulShutdown!KeepsContract` is the refinement |
| `ReconnectPolicy` | `delay_for`, `should_retry` | operators: `RawDelay`, `Jitter`, `DelayFor` (the set of delays `random()` may give), `ShouldRetry`, `Overflows` |
| `Restarts` (extends `ReconnectPolicy`) | the module global `_registry` over many lifespans, and clients that reconnect by the policy | `Enter`, `BeginShutdown`, `EndShutdown`, `AbortShutdown`, `Crash`; `HandlerEnds`, `NoticeLoss`, `ConnectRefused`, `Connect`, `Tick` |
| `SendQueue` | one queue, its senders and its drains | `Enqueue` (one disjunct per strategy), `ResumeSender`, `CancelPutter`, `CancelWoken`, `StartDrain`, `SendSucceeds`, `SendFails`, `CancelDrain` |
| `BackpressureController` (extends `SendQueue`) | the entry of one id in `_queues`, the queue first put there, and who holds a reference to it | `NamesakeConnects`, `NamesakeLeaves`, `KeeperLeaves`, `GetQueue`, `Drain`, `QueueStep`; `QueueSpec` is the refinement of `SendQueue` |
| `MessageBus` | the bus, its subscribers, the tasks that read | `Subscribe`, `Unsubscribe`, `Publish`, `CloseChannel`, `StartReading`, `Receive`, `StopReading` |
| `Heartbeat` | `run()`, the ping loop of one connection, and the handler inside the context | `Tick`, `WakeToPing`, `SendCompletes`, `SendFails`, `CheckPong`, `RecordPong`, `CancelHandler`, `BeginExit`, `EndLoop` |
| `DeadClientDetector` | the table, its owners, the sweep loop and its callback | `TrackHealth`, `RecordActivity`, `CloseConnection`, `Tick`, `SetClock`, `Sweep`, `OnDeadEnds`, `StopSweeping` |
| `RealtimeDashboard` | the whole example: `ConnectionManager` (registry and controller), the channel, producer, clients, main task | `SpawnClient`, `StartClient`, `DeadlinePasses`, `Receive`, `CancelClient`, `ProducerStep`, `AllSpawned`, `GatherEnds`, `SimulationOver` |
| `*Proofs` | theorems about the module they extend | - |
| `MCGracefulShutdown` | the symmetry of the shutdown instances | - |
| `MCBackpressure` (extends `BackpressureController`) | the view under which TLC compares states of the queue | - |

Conventions. The primed half of an action is everything the task does up to its
next suspension. `Task.cancel()` leaves a request that is delivered when the
task next runs. A definition commented `Mutant:` is no part of a model: it is a
plausible bug, used to see that a property notices it. Variables marked
*history* are read by properties only. A set that is empty or a singleton stands
for a Python value that may be `None`.

Time is abstract in `GracefulShutdown` (a timeout may fire once each task it
waits for has seen its cancel) and counted in ticks in `Heartbeat` and
`DeadClientDetector`, where a sleep may end any time after its timer, so late
wakeups are included. Ages are counted up to a horizon past every value the code
compares them with, or a property does (`Horizon`, `IdleThreshold + 1`), which
loses nothing. The history variable `late` of `Heartbeat` records whether a timer
or a send has run late since the last pong; `DetectionInTime` excepts that. The
heartbeat reads `time.monotonic()`, which only advances; the detector reads
`time.time()`, which `SetClock` sets forward and back, so that `idle_seconds` may
be negative (down to the bound `MaxAhead`). In `Restarts` the clients' delays are
whole ticks and a handler is one step: registering and leaving in detail is
`GracefulShutdown`'s part.

Code outside the repository is modelled by how it is used and marked external:
`asyncio.Queue` (`get` wakes the putter that has waited longest, a woken putter looks
again and lines up anew if it finds the queue full, a cancelled one hands its wakeup
on), `Task.cancel`, `asyncio.gather`, the clocks.

## 3. Runs

| Run | Instance | Shows |
|---|---|---|
| `shutdown_drain` | 3 handlers (one with a `close()` that never suspends), 3 ids that may collide, 2 callers of `close_all` | `CloseAllDrains`, `GatherCannotHang`, `RegistryAccurate`, `PromptCloseEndsCleanly` |
| `shutdown_contract` | unique ids, fairness | refinement of `ShutdownContract`; `CloseAllEnds` although no transport has to complete a `close()` |
| `shutdown_late_handler` | expected violation | a handler that registers during the drain outlives the shutdown |
| `shutdown_interrupted_close` | expected violation | a cancel during `await ws.close()` skips `deregister` |
| `sendqueue` | module `MCBackpressure`: all strategies, `max_size` 2, 1 and 0, batches of 2, 3 senders that call `enqueue()` without end, one drainer that keeps the queue and one that looks it up | `Bounded`, `NoLostWakeup`, `Conservation`, `HighWaterLagsByOne`, `LagReportsHold`, `QueueSpec` (refinement), `SleepersGetServed` |
| `sendqueue_drop_count` | expected violation, `DROP_OLDEST` | the append that fills the queue is counted as a drop |
| `bus` | 2 subscribers, 2 channels, queues of 1, 2 and 5, publishers that skip and that do not | `ChannelsAccurate`, `StopIsLast`, `StopGetsThrough`, `UnfloodedReadersStop` |
| `bus_full_queue` | expected violation, a publisher that does not skip | the stop signal is dropped on a full queue and `messages()` never ends |
| `heartbeat` | interval 3, timeout 2, 2 misses | `DeadMeansSilent`, `DetectionInTime`, `SilentClientDies`, `LoopFollowsContext`, `CancelLostOnlyOnExit`, `CancelledHandlerLeaves` |
| `detector` | 3 connections, 2 ids, threshold 0, sweep every tick, a clock set at any time | `OpenAreWatched`, `CalledAreIdle`, `CalledOnce`, `IdleAreSwept` |
| `dashboard` | 3 clients, 2 ids, queues of 3 | `TablesAgree`, `SummaryIsZero`, `SimulationEnds` |
| `restarts` | 3 lifespans, 2 clients, delays 1, 2, 3 (the cap), 3 with up to half of jitter, overflow at attempt 4 instead of 1024, `max_attempts` 0 and 2 | `RegistryIsCurrent`, `StopsAtLimit`, `WaitersGetServed` |

Bounds and why they are enough. Three handlers give one that is draining, one
that is leaving by itself and one that arrives late; two callers of `close_all`
are the least that interfere. Three senders on a queue of two give one asleep,
one woken and one that barges in. `enqueue()` may be called without end, so the
counters of `SendQueue` grow without end; `sendqueue` therefore compares states by
`QueueView`, which keeps everything a guard reads, and of the counters what the
properties read: the high water mark, the peak, and the balance that `Conservation`
says is zero. States with one view have the same steps up to the view, and every
step that fairness or `SleepersGetServed` counts changes the view, so nothing is
lost, liveness included. `MaxBacklog` bounds only the queue that `max_size` 0 leaves
without a limit, in which nobody ever sleeps. `max_size` 0 is the one size the code
treats unlike the others, and a queue of one is full after every message. One id is enough for the controller, whose entries do not
touch each other, and its namesakes come and go without a bound. Queue sizes 1, 2 and 5 put the lagging
threshold `int(0.8 * n)` at 0, 1 and 4: zero, below size by one, and an exact
product. Two misses are the least at which a pong in between matters. Three
connections with two ids let an id be reused while another connection is on the
sweep's list; with threshold 0 a connection is idle one tick after its last
activity, and both sides of the comparison occur. Three clients with two ids
must collide. Three lifespans give one that overlaps another or was aborted, one
that follows it and one that follows a crash; a limit of two attempts is below
the overflow and none is above it. Deadlock is checked except in `dashboard`, which ends by
design, and in `restarts`, where every client may have given up after the last
lifespan. `Exited` in `GracefulShutdown` is the process after its end.

Fairness. The event loop runs what is ready: the delivery of a cancellation
(`CancelLoop`, `CancelClose`), a fired timer (`DrainTimesOut`, `Sweep`,
`WakeToPing`, `CheckPong`), a woken sender, a reader whose queue is not empty,
the end of a `wait` or a `gather`. Clocks advance. Three assumptions are about
the environment, and are stated where they are used: drainers go on calling
`drain()` on a queue they can find, and their sends end (`BackpressureController`);
`on_dead` ends; a client attempts when its delay is over. Nothing obliges the
heartbeat's `send_fn` to end: `SilentClientDies` names a send that hangs for ever
as its exception, and `CancelledHandlerLeaves` needs none. No client is obliged
to leave, to answer or to be cancelled, no transport to complete a `close()`, no
lifespan to begin or to end, and nobody to leave the clock alone: `IdleAreSwept`
excepts only a clock set back again and again. Nor does anybody stop calling
`enqueue()`: the event loop runs a woken sender some time, and not before the calls
that take its place, so `SleepersGetServed` excepts the sender that finds the queue
full again infinitely often (without the exception TLC shows it starve).

## 4. Proofs

Checked by TLAPS, for any number of handlers, senders, subscribers, connections,
and any sizes and intervals. The assumptions are the named `ASSUME`s of the
modules: `max_queue_size`, `max_missed` and `batch_size` are positive, sets of
tasks are finite where they are counted, and the power of `ReconnectPolicy` is a
number up to `MaxExponent`.

A liveness property is beyond the prover, but most of each is a safety property:
the state in which the last step is enabled is never lost, and what has to be
waited for does not grow. Those halves are stated and proved (marked *(core)*
below); what is left to TLC is that fair steps are taken.

- `GracefulShutdownProofs`. `CloseAllAlwaysDrains`: every task a caller awaits is
  either still in its first set, or in `pending`, or done; the invariant adds
  that what `DrainTimesOut` leaves out of `pending` has ended, and ended is for
  ever. `RegistryIsAccurate`: an entry follows its sole owner from `register` to
  `deregister`; the invariant also says that a handler that has not started has
  no id. `PromptCloseIsClean`: without a suspension in `close()` there is no
  state in which a cancel can be late. `ImplementsContract` (for unique ids): each
  action is a step of the contract or a stutter; the step that needs work is
  `BeginCloseAll`, where `RegistryIsAccurate` shows that the snapshot contains
  every live handler as long as nothing was cleared. `SecondCancelSuffices`
  *(core of `CloseAllEnds`)*: `CancelInv` says that a task `close_all` waits for
  has the first cancel due or has left its receive loop because of it, so that at
  the timeout everyone left is in `ws.close()`, and a cancel there ends him;
  another caller's cancel is absorbed by the same step and takes nothing away.
- `ShutdownContractProofs`. `DrainsEndEarlySessions`, a theorem about the contract
  alone: a session that was live before any drain began is covered by every drain
  begun while it lives, and an ended drain left none of its sessions.
  `GracefulShutdownProofs!ShutdownDrainsTheServed` is its image under the
  refinement: it instantiates the lemmas of the contract with the abstract state of
  the code, and says of `close_all` what `NoHandlerOutlivesShutdown` wrongly says
  without the condition. The condition cannot be weakened: with ids that collide,
  or for a handler that was served only when a second `close_all` began, TLC finds
  a counterexample.
- `SendQueueProofs`. `QueueIsBounded`: the append of `DROP_OLDEST` evicts, and
  every other one follows a check in the same step. `WakeupsAreNotLost`: `depth`
  plus woken senders is at least `max_size` while anyone sleeps; each action that
  lowers `depth` by one wakes one. `MessagesAreConserved` counts
  `Cardinality(Sending)` through each drain step. The invariant under all of them,
  `Line`, keeps the line of sleeping senders without repetition and apart from the
  woken ones; what appending, waking and cancelling do to it are lemmas about
  sequences. `ControllerKeepsQueue`: every
  action of the controller is a step of the queue or leaves it alone, so the
  invariants above are also invariants of the controller; `LagReportsAreRight`
  follows from them (nobody woken and somebody asleep means full) and from the
  arithmetic of the truncated threshold. `DropCountIsOff` bounds the error of
  `messages_dropped`: `DropInv` says that the queue holds at most what was counted
  as queued, plus the one message that filled it, and conservation turns that into
  a bound on the drops. `HighWaterIsOff`, `ControllerTypeCorrect`.
- `MessageBusProofs`. `StopAlwaysGetsThrough` *(core of `UnfloodedReadersStop`)*: a
  subscriber no one published to without `skip_lagging` never holds more than
  `int(0.8 * n)` messages, which is below `n`, so the first stop signal fits;
  `SignalInv` follows it through appends and reads until it stops its reader.
  `NothingFollowsStop`: only dismissed subscribers have seen a stop signal, and
  `CountsAreAccurate` says publishers no longer reach them.
- `HeartbeatProofs`. `DeathNeedsSilence`: `DeadMeansSilent` is not inductive; the
  strengthening `SilenceInv` says that with `missed` misses the silence exceeds
  `missed * (interval + timeout)` plus the time spent since the last check, read
  off the timer. `DetectionIsInTime` *(core of `SilentClientDies`)* is the bound from
  the other side: as long as nothing is late the silence is at most one window for
  the last pong, one for each miss, and the time since the last check
  (`PunctualInv`); the check at the end of window `max_missed + 1` cannot but find
  its miss. `CancelComesOut`: from the moment a cancel met the handler in the
  body, it is either still to be delivered there or on its way out.
  `LoopEndsInTime`, `TypeCorrect`.
- `DeadClientDetectorProofs`. `OpenStayWatched` rests on the table listing
  connections under their own id only; `OneCallbackEach` on the fact that a
  called connection is off the table, is the one being called, or the loop is
  over. `CallbacksHitTheIdle`: time only adds to `idle_seconds`, and what a clock
  set back takes away it takes from the whole list. `SweptAreUntracked` *(core of
  `IdleAreSwept`)* combines the two invariants of the table and of the called.
  `TypeCorrect`.
- `RestartsProofs`. `DelayIsBounded` is the arithmetic of cap and jitter;
  `ClientsPersist` adds to `StopsAtLimit` that a client in the middle of its
  attempts is within its limit and the range of the power.
  `RegistryServesTheRunning` needs that two lifespans run only after an overlap.
  `NobodyIsRefused` *(core of `WaitersGetServed`)*: hence nobody who waits is refused
  while a lifespan runs, and `attempt` and `wait` never grow.
- `RealtimeDashboardProofs`. `TablesAlwaysAgree`, `SummaryIsAlwaysZero`,
  `TypeCorrect`. `ClientsAreFed` *(core of `SimulationEnds`)*: clients look at their
  deadline only after a message, and the producer stops only after all of them
  (`ProducerInv`); with the agreement of the tables, whoever waits is subscribed.
  It needs a queue of more than one place, for a queue of one always lags.

`WakeupsAreNotLost` and `CancelComesOut` are the cores of `SleepersGetServed` and
`CancelledHandlerLeaves` in the same sense.

Only model-checked: the liveness properties themselves (`CloseAllEnds`,
`SleepersGetServed`, `UnfloodedReadersStop`, `SilentClientDies`,
`CancelledHandlerLeaves`, `IdleAreSwept`, `SimulationEnds`, `WaitersGetServed`),
because fairness and `ENABLED` are beyond the proof system. What `multiplier **
attempt` computes is not proved either, only used within its range.

## 5. What was found

Four disagreements are runs of their own and `findings` in `PROJECT.json` (late
handler, interrupted close, drop count, full queue at `unsubscribe`). Read in
the code, and not a run:

- `high_water_mark` is "Peak queue depth observed" (`backpressure.py:53`) but is
  taken before the message is put (`:125`); `HighWaterLagsByOne` states what holds.
- `is_lagging` is "more than 80% full" (`pubsub_distributed.py:120`) but compares
  `>=` with a truncated product (`:121`); a queue of one always lags.
- A late pong counts for the whole window of `interval_s + timeout_s`
  (`fault_tolerance.py:144`), although `timeout_s` is documented as the "Seconds
  to wait for a pong" (`:87`); the usage text reads `tracker.is_alive` (`:21`),
  which does not exist.
- "marked dead — closing" (`:154`) closes nothing.
- The ping loop awaits `send_fn` (`:137`) without a timeout: a transport that hangs
  stops the detection of the very client that hangs it. This is the exception in
  `SilentClientDies`.
- The `suppress` in `run()` (`:128`) also swallows a cancellation of the handler
  that arrives while it awaits the cancelled task: the handler then goes on as if
  nobody had cancelled it. `CancelLostOnlyOnExit` states that no other is lost.
- `create_lifespan` resets `_registry` to `None` whoever put it there
  (`graceful_shutdown.py:216`): of two lifespans that overlap, the one that goes on
  refuses all new handlers; and after a cancelled `close_all` the reset is skipped.
  `RegistryIsCurrent` states what is left.
- `max_attempts = 0` is "infinite" (`fault_tolerance.py:171`), but the power at
  `:191` raises `OverflowError` at attempt 1024 with the defaults.
- A sender that `put()` wakes has no claim on the place it was woken for
  (`backpressure.py:148`): calls of `enqueue()` that run first take it, the sender
  lines up behind everybody else, and with producers that never pause it may do so
  for ever. "Await until space available" (`:39`) is not a promise that it ends.
  `SleepersGetServed` excepts it.
- `remove_connection` wakes nobody (`backpressure.py:250`): senders asleep in a
  queue nobody holds any more sleep for ever, which `SleepersGetServed` excepts.
- `on_dead` is called from a list made before earlier callbacks were awaited
  (`:309-313`), and `untrack` works by id: an active, closed or reconnected client
  may be hit. `CalledAreIdle` and `OpenAreWatched` state the exceptions.
- The jitter of `ReconnectPolicy` is added after the cap (`:191-193`), so delays
  may exceed `max_delay_s`.
- `from_json` raises `KeyError` for missing fields (`pubsub_distributed.py:89-94`)
  where its docstring names `ValueError` (`:82`).

## 6. Not modelled

- `Message.to_json`/`from_json`: conversions without state, which only the tests
  call; the bus passes the objects themselves.
- `broken_ws_handler` (`graceful_shutdown_demo.py:84-109`): the anti-pattern never
  touches the registry and, on the supported Python versions, `except Exception`
  does not catch `CancelledError`, so it ends at its first cancel without a close
  frame: one behaviour and nothing to interleave. (Its docstring and the conclusion
  printed at `:279-283` say it needs to be force-killed.) The two simulations and
  `main` are straight-line scripts around the handlers.
- `BackpressureController.global_stats`, `SendStats.drop_rate` and `_percentile`:
  sums and quotients that nothing acts on.
- `connection_throughput`: measures wall-clock time on in-memory buffers; the one
  thing it does to the system, `get_queue` followed by `enqueue` or `drain`, is
  `GetQueue` and `Drain` in `BackpressureController`.
- `RedisPubSubConfig`: settings nothing reads. Logging, `src/tests`, packaging.

Open for proof: `RealtimeDashboard` against `MessageBus`, whose steps are finer
than its own, and `Restarts` against `GracefulShutdown`, whose handlers it
collapses into one step.
