----------------------------- MODULE MessageBus -----------------------------
(***************************************************************************)
(* InMemoryMessageBus (patterns/pubsub_distributed.py) with its            *)
(* subscribers and the tasks that iterate over messages().                 *)
(*                                                                         *)
(* Only get() on an empty queue suspends: subscribe, unsubscribe, publish  *)
(* and close_channel are single steps of the event loop.  Messages are not *)
(* told apart, and nothing bounds how many are published.                  *)
(***************************************************************************)
EXTENDS Naturals, Sequences

CONSTANTS
  Channels,
  Subscribers,  \* the Subscriber objects subscribe() may create
  QueueSizes,   \* the values of max_queue_size in use
  SkipLagging   \* the values of skip_lagging publishers pass

ASSUME BusAssumption ==
  /\ QueueSizes \subseteq Nat \ {0}
  /\ SkipLagging \subseteq BOOLEAN

VARIABLES
  channels,  \* _channels: the subscribers of each channel it has a key for
  home,      \* channel of each Subscriber, {} before subscribe() made it
  size,      \* its max_queue_size
  queue,     \* its queue
  reader,    \* the task that iterates over messages(subscriber)
  dismissed, \* history: subscribers for which unsubscribe() was called
  flooded    \* history: subscribers published to with skip_lagging=False

vars == <<channels, home, size, queue, reader, dismissed, flooded>>

-----------------------------------------------------------------------------
Msg == "msg"
Stop == "stop"  \* the None that ends messages()

Created(s) == home[s] # {}

\* self._channels.get(channel, [])
SubscribersOf(c) == IF c \in DOMAIN channels THEN channels[c] ELSE {}

\* Mutant: the threshold is rounded up, as "more than 80% full" suggests.
IsLaggingRoundedUp(s) == Len(queue[s]) >= (4 * size[s] + 4) \div 5

\* is_lagging: int(max_queue_size * 0.8) rounds down.
IsLagging(s) == Len(queue[s]) >= (4 * size[s]) \div 5

\* Mutant: off by one.
HasRoomForOneMore(s) == Len(queue[s]) <= size[s]

HasRoom(s) == Len(queue[s]) < size[s]

\* put_nowait(item) on the queue of every subscriber in S that has room; a
\* QueueFull is swallowed by publish and by unsubscribe.
PutNowait(S, item) ==
  queue' = [s \in Subscribers |-> IF s \in S /\ HasRoom(s)
                                    THEN Append(queue[s], item) ELSE queue[s]]

-----------------------------------------------------------------------------
Subscribe(s, c, n) ==
  /\ ~Created(s)
  /\ home' = [home EXCEPT ![s] = {c}]
  /\ size' = [size EXCEPT ![s] = n]
  /\ channels' = [d \in DOMAIN channels \cup {c} |->
                    SubscribersOf(d) \cup (IF d = c THEN {s} ELSE {})]
  /\ UNCHANGED <<queue, reader, dismissed, flooded>>

\* Mutant: an emptied channel keeps its key.
WithoutKept(c, S) ==
  [d \in DOMAIN channels |-> IF d = c THEN channels[d] \ S ELSE channels[d]]

\* _channels once the subscribers S of channel c are gone.
Without(c, S) ==
  LET rest == SubscribersOf(c) \ S
      kept == IF rest = {} THEN DOMAIN channels \ {c} ELSE DOMAIN channels
  IN  [d \in kept |-> IF d = c THEN rest ELSE channels[d]]

\* Mutant: the stop signal is sent, the subscriber stays in its channel.
UnsubscribeLater(s) ==
  /\ Created(s)
  /\ PutNowait({s}, Stop)
  /\ dismissed' = dismissed \cup {s}
  /\ UNCHANGED <<channels, home, size, reader, flooded>>

\* May be called again for a subscriber that has gone: list.remove() then finds
\* nothing, and another stop signal is sent.
Unsubscribe(s) ==
  /\ Created(s)
  /\ \E c \in home[s] : channels' = Without(c, {s})
  /\ PutNowait({s}, Stop)
  /\ dismissed' = dismissed \cup {s}
  /\ UNCHANGED <<home, size, reader, flooded>>

\* unsubscribe() for every subscriber of the channel.
CloseChannel(c) ==
  /\ channels' = Without(c, SubscribersOf(c))
  /\ PutNowait(SubscribersOf(c), Stop)
  /\ dismissed' = dismissed \cup SubscribersOf(c)
  /\ UNCHANGED <<home, size, reader, flooded>>

Publish(c, skip) ==
  /\ PutNowait({s \in SubscribersOf(c) : ~(skip /\ IsLagging(s))}, Msg)
  /\ flooded' = IF skip THEN flooded ELSE flooded \cup SubscribersOf(c)
  /\ UNCHANGED <<channels, home, size, reader, dismissed>>

\* A task begins to iterate over messages(s).
StartReading(s) ==
  /\ Created(s)
  /\ reader[s] = "none"
  /\ reader' = [reader EXCEPT ![s] = "reading"]
  /\ UNCHANGED <<channels, home, size, queue, dismissed, flooded>>

\* get() returns: the message is yielded, or None ends the generator.
Receive(s) ==
  /\ reader[s] = "reading"
  /\ queue[s] # <<>>
  /\ queue' = [queue EXCEPT ![s] = Tail(@)]
  /\ reader' = [reader EXCEPT ![s] = IF Head(queue[s]) = Stop THEN "stopped" ELSE @]
  /\ UNCHANGED <<channels, home, size, dismissed, flooded>>

\* The task leaves the loop, or is cancelled in get().
StopReading(s) ==
  /\ reader[s] = "reading"
  /\ reader' = [reader EXCEPT ![s] = "left"]
  /\ UNCHANGED <<channels, home, size, queue, dismissed, flooded>>

-----------------------------------------------------------------------------
Init ==
  /\ channels = [c \in {} |-> {}]
  /\ home = [s \in Subscribers |-> {}]
  /\ size = [s \in Subscribers |-> 0]
  /\ queue = [s \in Subscribers |-> <<>>]
  /\ reader = [s \in Subscribers |-> "none"]
  /\ dismissed = {}
  /\ flooded = {}

Next ==
  \/ \E s \in Subscribers, c \in Channels, n \in QueueSizes : Subscribe(s, c, n)
  \/ \E s \in Subscribers :
       Unsubscribe(s) \/ StartReading(s) \/ Receive(s) \/ StopReading(s)
  \/ \E c \in Channels :
       CloseChannel(c) \/ \E skip \in SkipLagging : Publish(c, skip)

Spec == Init /\ [][Next]_vars

\* The event loop runs a task whose get() has something to return.
Fairness == \A s \in Subscribers : WF_vars(Receive(s))

FairSpec == Spec /\ Fairness

-----------------------------------------------------------------------------
(* Properties.                                                             *)

\* Every variable has its type, and no queue outgrows its max_queue_size.
TypeOK ==
  /\ DOMAIN channels \subseteq Channels
  /\ \A c \in DOMAIN channels : channels[c] \subseteq Subscribers
  /\ home \in [Subscribers -> {{}} \cup {{c} : c \in Channels}]
  /\ size \in [Subscribers -> QueueSizes \cup {0}]
  /\ queue \in [Subscribers -> Seq({Msg, Stop})]
  /\ \A s \in Subscribers : Len(queue[s]) <= size[s]
  /\ reader \in [Subscribers -> {"none", "reading", "stopped", "left"}]
  /\ dismissed \subseteq Subscribers
  /\ flooded \subseteq Subscribers

\* _channels has a key exactly for the channels with a subscriber, and each
\* subscriber that is not dismissed is under its own channel and no other: what
\* channel_count and subscriber_count rely on, whatever order channels are
\* opened, emptied, closed and opened again.
ChannelsAccurate ==
  /\ \A c \in DOMAIN channels : channels[c] # {}
  /\ \A s \in Subscribers, c \in Channels :
       s \in SubscribersOf(c) <=> home[s] = {c} /\ s \notin dismissed

\* Nothing but further stop signals follows a stop signal, so messages() leaves
\* no message behind when it ends.
StopIsLast ==
  \A s \in Subscribers :
    /\ \A i, j \in 1..Len(queue[s]) : i < j /\ queue[s][i] = Stop => queue[s][j] = Stop
    /\ reader[s] = "stopped" => \A i \in 1..Len(queue[s]) : queue[s][i] = Stop

\* unsubscribe() drops its stop signal silently on a full queue.  A queue that
\* only saw publishers with skip_lagging=True is never full before it, so the
\* signal gets in, and stays there until it ends messages(): a reader of such a
\* subscriber, even one that begins later, has something left to get.
StopGetsThrough ==
  \A s \in Subscribers : Created(s) /\ s \notin flooded =>
    IF s \in dismissed
      THEN reader[s] = "stopped" \/ \E i \in 1..Len(queue[s]) : queue[s][i] = Stop
      ELSE HasRoom(s)

\* messages() of such a subscriber ends once it is unsubscribed.
UnfloodedReadersStop ==
  \A s \in Subscribers :
    s \in dismissed \ flooded /\ reader[s] = "reading" ~> reader[s] # "reading"

\* messages() ends once its subscriber is unsubscribed ("yields until
\* subscriber is closed", README).
DismissedReadersStop ==
  \A s \in Subscribers :
    s \in dismissed /\ reader[s] = "reading" ~> reader[s] # "reading"
=============================================================================
