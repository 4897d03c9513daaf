----------------------------- MODULE SendQueue -----------------------------
(***************************************************************************)
(* SendQueue (patterns/backpressure.py): the bounded queue in front of one *)
(* WebSocket, filled by enqueue() from any number of tasks and emptied by  *)
(* drain(), which several tasks may call at once.                          *)
(*                                                                         *)
(* An action is what one task does between two suspensions.  enqueue()     *)
(* suspends only in asyncio.Queue.put() on a full queue, drain() only in   *)
(* send_fn().  Messages carry no identity: the model counts them.  The     *)
(* asyncio.Queue is outside the repository: get_nowait() wakes the putter  *)
(* that has waited longest, and a putter that wakes up looks again before  *)
(* it puts: if other calls have filled the queue meanwhile, it lines up    *)
(* anew.  enqueue() may be called any number of times.                     *)
(***************************************************************************)
EXTENDS Naturals, FiniteSets, Sequences, SequencesExt

CONSTANTS
  Strategies,  \* the BackpressureStrategy values a queue may be given
  Sizes,       \* the values of max_size
  BatchSize,   \* batch_size of drain
  Senders,     \* tasks that call enqueue
  Drainers,    \* tasks that call drain
  MaxBacklog   \* bound: messages in a queue without a limit

ASSUME QueueAssumption ==
  /\ Strategies \subseteq {"drop_oldest", "drop_newest", "block_sender", "disconnect"}
  /\ Sizes \subseteq Nat
  /\ BatchSize \in Nat \ {0}
  /\ IsFiniteSet(Senders)
  /\ IsFiniteSet(Drainers)
  /\ MaxBacklog \in Nat

VARIABLES
  strategy,  \* _strategy
  size,      \* _max
  depth,     \* depth: the messages in _queue or _async_queue
  putters,   \* _putters: senders asleep in put(), the longest asleep first
  woken,     \* senders get_nowait() has woken and that have not run yet
  batch,     \* per drainer, iterations of its loop left, 0 when not draining
  stats,     \* SendStats
  peak,      \* history: the largest depth there has been
  evicted,   \* history: messages the deque threw out
  lost       \* history: messages whose drain was cancelled in send_fn()

config == <<strategy, size>>
history == <<peak, evicted, lost>>
vars == <<config, depth, putters, woken, batch, stats, history>>

-----------------------------------------------------------------------------
Larger(a, b) == IF a >= b THEN a ELSE b

IsFull == depth >= size

\* full() of the asyncio.Queue: maxsize = 0 is no limit.
AsyncFull == size > 0 /\ depth >= size

\* The drainers suspended in send_fn(), each with one message in its hands.
Sending == {d \in Drainers : batch[d] > 0}

Asleep == ToSet(putters)

Idle(s) == s \notin Asleep \cup woken

\* One more message in the queue; stats is changed by the caller.
Put ==
  /\ depth' = depth + 1
  /\ peak' = Larger(peak, depth + 1)

\* Mutant: the last depth is recorded instead of the largest.
SeenLast == [stats EXCEPT !.hwm = depth]

\* enqueue() begins by recording the depth it finds.
Seen == [stats EXCEPT !.hwm = Larger(stats.hwm, depth)]

-----------------------------------------------------------------------------
(* enqueue.                                                                *)

\* deque(maxlen) makes room by itself; what is counted is the resulting length.
EnqueueDropOldest ==
  /\ strategy = "drop_oldest"
  /\ IF IsFull
       THEN evicted' = evicted + 1 /\ UNCHANGED <<depth, peak>>
       ELSE Put /\ UNCHANGED evicted
  /\ stats' = IF depth' = size
                THEN [Seen EXCEPT !.dropped = @ + 1]
                ELSE [Seen EXCEPT !.queued = @ + 1]
  /\ UNCHANGED putters

EnqueueDropNewest ==
  /\ strategy = "drop_newest"
  /\ IF AsyncFull
       THEN stats' = [Seen EXCEPT !.dropped = @ + 1] /\ UNCHANGED <<depth, peak>>
       ELSE stats' = [Seen EXCEPT !.queued = @ + 1] /\ Put
  /\ UNCHANGED <<putters, evicted>>

EnqueueBlockSender(s) ==
  /\ strategy = "block_sender"
  /\ IF AsyncFull
       THEN /\ putters' = Append(putters, s)
            /\ stats' = Seen
            /\ UNCHANGED <<depth, peak>>
       ELSE /\ Put
            /\ stats' = [Seen EXCEPT !.queued = @ + 1]
            /\ UNCHANGED putters
  /\ UNCHANGED evicted

\* A full queue is reported to the caller and counted nowhere.
EnqueueDisconnect ==
  /\ strategy = "disconnect"
  /\ IF IsFull
       THEN stats' = Seen /\ UNCHANGED <<depth, peak>>
       ELSE stats' = [Seen EXCEPT !.queued = @ + 1] /\ Put
  /\ UNCHANGED <<putters, evicted>>

Enqueue(s) ==
  /\ Idle(s)
  /\ size > 0 \/ depth < MaxBacklog
  /\ \/ EnqueueDropOldest \/ EnqueueDropNewest
     \/ EnqueueBlockSender(s) \/ EnqueueDisconnect
  /\ UNCHANGED <<config, woken, batch, lost>>

\* Mutant: a woken sender puts without looking again.
ResumeSenderBlindly(s) ==
  /\ s \in woken
  /\ woken' = woken \ {s}
  /\ Put
  /\ stats' = [stats EXCEPT !.queued = @ + 1]
  /\ UNCHANGED <<config, putters, batch, evicted, lost>>

\* A woken sender finds room, or, when another call was faster, sleeps again,
\* behind all others.
ResumeSender(s) ==
  /\ s \in woken
  /\ woken' = woken \ {s}
  /\ IF AsyncFull
       THEN putters' = Append(putters, s) /\ UNCHANGED <<depth, peak, stats>>
       ELSE /\ Put
            /\ stats' = [stats EXCEPT !.queued = @ + 1]
            /\ UNCHANGED putters
  /\ UNCHANGED <<config, batch, evicted, lost>>

\* Wake the first putter, if there is one.
WakePutter ==
  IF putters = <<>> THEN UNCHANGED <<putters, woken>>
  ELSE putters' = Tail(putters) /\ woken' = woken \cup {Head(putters)}

\* A sender asleep in put() is cancelled: it just goes away.
CancelPutter(s) ==
  /\ \E i \in DOMAIN putters : putters[i] = s /\ putters' = RemoveAt(putters, i)
  /\ UNCHANGED <<config, depth, woken, batch, stats, history>>

\* A woken sender is cancelled before it runs: put() hands its wakeup on
\* unless the queue is full again.
CancelWoken(s) ==
  /\ s \in woken
  /\ IF AsyncFull \/ putters = <<>>
       THEN woken' = woken \ {s} /\ UNCHANGED putters
       ELSE /\ putters' = Tail(putters)
            /\ woken' = (woken \ {s}) \cup {Head(putters)}
  /\ UNCHANGED <<config, depth, batch, stats, history>>

-----------------------------------------------------------------------------
(* drain.                                                                  *)

\* Mutant: drain reaches into the deque inside the asyncio.Queue.
TakeNextQuietly(d, n) ==
  /\ IF n > 0 /\ depth > 0
       THEN depth' = depth - 1 /\ batch' = [batch EXCEPT ![d] = n]
       ELSE batch' = [batch EXCEPT ![d] = 0] /\ UNCHANGED depth
  /\ UNCHANGED <<putters, woken>>

\* Mutant: get_nowait() on an empty queue is not provided for.
TakeNextUnguarded(d, n) ==
  /\ IF n > 0
       THEN depth' = depth - 1 /\ WakePutter /\ batch' = [batch EXCEPT ![d] = n]
       ELSE batch' = [batch EXCEPT ![d] = 0] /\ UNCHANGED <<depth, putters, woken>>

\* The loop of drain, with n iterations left, up to its next suspension: take
\* a message and send it, or return.
TakeNext(d, n) ==
  IF n > 0 /\ depth > 0
    THEN /\ depth' = depth - 1
         /\ WakePutter
         /\ batch' = [batch EXCEPT ![d] = n]
    ELSE /\ batch' = [batch EXCEPT ![d] = 0]
         /\ UNCHANGED <<depth, putters, woken>>

StartDrain(d) ==
  /\ batch[d] = 0
  /\ depth > 0
  /\ TakeNext(d, BatchSize)
  /\ UNCHANGED <<config, stats, history>>

SendSucceeds(d) ==
  /\ batch[d] > 0
  /\ stats' = [stats EXCEPT !.sent = @ + 1]
  /\ TakeNext(d, batch[d] - 1)
  /\ UNCHANGED <<config, history>>

\* Mutant: an error does not end the batch.
SendFailsGoesOn(d) ==
  /\ batch[d] > 0
  /\ TakeNext(d, batch[d] - 1)
  /\ UNCHANGED <<config, stats, history>>

\* send_fn() raised an Exception: counted, and the end of this drain.
SendFails(d) ==
  /\ batch[d] > 0
  /\ stats' = [stats EXCEPT !.errors = @ + 1]
  /\ batch' = [batch EXCEPT ![d] = 0]
  /\ UNCHANGED <<config, depth, putters, woken, history>>

\* CancelledError is no Exception: it leaves drain, with a message taken from
\* the queue that no counter will mention.
CancelDrain(d) ==
  /\ batch[d] > 0
  /\ batch' = [batch EXCEPT ![d] = 0]
  /\ lost' = lost + 1
  /\ UNCHANGED <<config, depth, putters, woken, stats, peak, evicted>>

-----------------------------------------------------------------------------
\* The counters of a new queue; drop_rate is computed from them and not kept.
NewStats == [queued |-> 0, dropped |-> 0, sent |-> 0, errors |-> 0, hwm |-> 0]

Init ==
  /\ strategy \in Strategies
  /\ size \in Sizes
  /\ depth = 0
  /\ putters = <<>>
  /\ woken = {}
  /\ batch = [d \in Drainers |-> 0]
  /\ stats = NewStats
  /\ peak = 0
  /\ evicted = 0
  /\ lost = 0

SenderStep(s) == Enqueue(s) \/ ResumeSender(s) \/ CancelPutter(s) \/ CancelWoken(s)
DrainerStep(d) == StartDrain(d) \/ SendSucceeds(d) \/ SendFails(d) \/ CancelDrain(d)

Next ==
  \/ \E s \in Senders : SenderStep(s)
  \/ \E d \in Drainers : DrainerStep(d)

Spec == Init /\ [][Next]_vars

-----------------------------------------------------------------------------
(* Properties.                                                             *)

\* Every variable has its type.
TypeOK ==
  /\ strategy \in Strategies
  /\ size \in Sizes
  /\ depth \in Nat
  /\ putters \in Seq(Senders)
  /\ woken \subseteq Senders
  /\ batch \in [Drainers -> 0..BatchSize]
  /\ stats \in [queued : Nat, dropped : Nat, sent : Nat, errors : Nat, hwm : Nat]
  /\ peak \in Nat
  /\ evicted \in Nat
  /\ lost \in Nat

\* The queue never holds more than max_size, whoever put() wakes and whatever
\* barges in; max_size = 0 is no room at all for a deque and no limit at all
\* for an asyncio.Queue.
Bounded == depth <= size \/ (size = 0 /\ strategy \in {"drop_newest", "block_sender"})

\* No sender sleeps in put() while there is room that no woken sender is on
\* its way to: a wakeup is never lost, whatever the order of drains, barging
\* calls and cancellations.
NoLostWakeup == putters # <<>> => depth + Cardinality(woken) >= size

\* The counters lose no message: what enqueue() accepted is still queued, being
\* sent, sent, failed, evicted, or was in the hands of a cancelled drain.
\* (With drop_oldest a message is counted as queued or as dropped, yet enters
\* the queue either way.)
Conservation ==
  LET accepted == stats.queued + (IF strategy = "drop_oldest" THEN stats.dropped ELSE 0)
  IN  accepted = depth + Cardinality(Sending) + stats.sent + stats.errors + evicted + lost

\* high_water_mark is recorded before the message goes in: it is the peak depth
\* or one less, never further off.
HighWaterLagsByOne == stats.hwm <= peak /\ peak <= stats.hwm + 1

\* With DROP_OLDEST, messages_dropped counts the messages dropped ("Messages
\* dropped due to backpressure", SendStats).
DropsAreEvictions == strategy = "drop_oldest" => stats.dropped = evicted
=============================================================================
