-------------------------- MODULE MessageBusProofs --------------------------
(* Theorems about MessageBus, for any channels, subscribers and queue      *)
(* sizes.                                                                  *)
EXTENDS MessageBus, TLAPS

-----------------------------------------------------------------------------
(* Queues.                                                                 *)

LEMMA QueueFacts ==
  ASSUME TypeOK, NEW s \in Subscribers
  PROVE  /\ queue[s] \in Seq({Msg, Stop}) /\ Len(queue[s]) \in Nat
         /\ size[s] \in Nat /\ Len(queue[s]) <= size[s]
<1>1. queue[s] \in Seq({Msg, Stop}) /\ Len(queue[s]) <= size[s]
  BY DEF TypeOK
<1>2. Len(queue[s]) \in Nat
  BY <1>1
<1>3. size[s] \in QueueSizes \cup {0}
  BY DEF TypeOK
<1>4. size[s] \in Nat
  <2>1. QueueSizes \subseteq Nat
    BY Zenon, BusAssumption
  <2>2. CASE size[s] \in QueueSizes
    BY <2>1, <2>2
  <2>3. CASE size[s] = 0
    BY <2>3
  <2>. QED BY <1>3, <2>2, <2>3
<1>. QED BY <1>1, <1>2, <1>4

LEMMA PutType ==
  ASSUME TypeOK, NEW S, NEW item \in {Msg, Stop}, PutNowait(S, item)
  PROVE  queue' \in [Subscribers -> Seq({Msg, Stop})]
<1>1. ASSUME NEW s \in Subscribers
      PROVE  (IF s \in S /\ HasRoom(s) THEN Append(queue[s], item) ELSE queue[s])
               \in Seq({Msg, Stop})
  <2>1. queue[s] \in Seq({Msg, Stop})
    BY DEF TypeOK
  <2>2. Append(queue[s], item) \in Seq({Msg, Stop})
    BY <2>1
  <2>. QED BY <2>1, <2>2
<1>. QED BY <1>1 DEF PutNowait

\* put_nowait appends, or leaves a full queue alone.
LEMMA PutEffect ==
  ASSUME TypeOK, NEW S, NEW item \in {Msg, Stop}, PutNowait(S, item), NEW s \in Subscribers
  PROVE  /\ Len(queue'[s]) <= size[s]
         /\ s \notin S => queue'[s] = queue[s]
         /\ queue'[s] \in {queue[s], Append(queue[s], item)}
<1>1. /\ queue[s] \in Seq({Msg, Stop}) /\ Len(queue[s]) <= size[s]
      /\ size[s] \in Nat
  BY QueueFacts
<1>2. queue'[s] = IF s \in S /\ HasRoom(s) THEN Append(queue[s], item) ELSE queue[s]
  BY DEF PutNowait
<1>3. /\ Append(queue[s], item) \in Seq({Msg, Stop})
      /\ Len(Append(queue[s], item)) = Len(queue[s]) + 1
      /\ Len(queue[s]) \in Nat
  BY <1>1
<1>. QED BY <1>1, <1>2, <1>3 DEF HasRoom

\* The part of Without that concerns one channel at a time.
LEMMA WithoutEffect ==
  ASSUME TypeOK, NEW c, NEW S, channels' = Without(c, S)
  PROVE  /\ DOMAIN channels' \subseteq DOMAIN channels
         /\ \A d \in DOMAIN channels' : channels'[d] = IF d = c THEN channels[d] \ S ELSE channels[d]
         /\ \A d \in DOMAIN channels : d \notin DOMAIN channels' => d = c /\ channels[d] \subseteq S
         /\ c \in DOMAIN channels' => channels'[c] # {}
  BY DEF Without, SubscribersOf

-----------------------------------------------------------------------------
(* Type correctness.                                                       *)

\* A Subscriber that does not exist yet has an empty queue of size 0.
TypeInv ==
  /\ TypeOK
  /\ \A s \in Subscribers : Created(s) <=> size[s] # 0

LEMMA InitTypeInv == Init => TypeInv
<1> SUFFICES ASSUME Init PROVE TypeInv
  OBVIOUS
<1>1. /\ home \in [Subscribers -> {{}} \cup {{d} : d \in Channels}]
      /\ queue \in [Subscribers -> Seq({Msg, Stop})]
      /\ \A s \in Subscribers : Len(queue[s]) <= size[s]
  BY DEF Init
<1>2. /\ DOMAIN channels \subseteq Channels
      /\ \A c \in DOMAIN channels : channels[c] \subseteq Subscribers
      /\ size \in [Subscribers -> QueueSizes \cup {0}]
      /\ reader \in [Subscribers -> {"none", "reading", "stopped", "left"}]
      /\ dismissed \subseteq Subscribers /\ flooded \subseteq Subscribers
      /\ \A s \in Subscribers : Created(s) <=> size[s] # 0
  BY DEF Init, Created
<1>. QED BY <1>1, <1>2 DEF TypeInv, TypeOK

LEMMA DismissTypeOK ==
  ASSUME TypeOK, NEW c \in Channels, NEW S \in SUBSET Subscribers, NEW T,
         channels' = Without(c, T), PutNowait(S, Stop),
         dismissed' = dismissed \cup S, UNCHANGED <<home, size, reader, flooded>>
  PROVE  TypeOK'
<1>1. DOMAIN channels' \subseteq Channels
  BY WithoutEffect DEF TypeOK
<1>2. ASSUME NEW d \in DOMAIN channels' PROVE channels'[d] \subseteq Subscribers
  <2>1. d \in DOMAIN channels /\ channels'[d] \subseteq channels[d]
    BY WithoutEffect
  <2>. QED BY <2>1 DEF TypeOK
<1>3. queue' \in [Subscribers -> Seq({Msg, Stop})]
  BY PutType
<1>4. \A s \in Subscribers : Len(queue'[s]) <= size[s]
  BY PutEffect
<1>. QED BY <1>1, <1>2, <1>3, <1>4 DEF TypeOK

LEMMA NextTypeInv == TypeInv /\ [Next]_vars => TypeInv'
<1> SUFFICES ASSUME TypeInv, [Next]_vars PROVE TypeInv'
  OBVIOUS
<1> USE DEF TypeInv, Created
<1>1. ASSUME NEW s \in Subscribers, NEW c \in Channels, NEW n \in QueueSizes,
             Subscribe(s, c, n)
      PROVE  TypeInv'
  <2>1. /\ DOMAIN channels' \subseteq Channels
        /\ \A d \in DOMAIN channels' : channels'[d] \subseteq Subscribers
    BY <1>1 DEF Subscribe, SubscribersOf, TypeOK
  <2>2. /\ home' \in [Subscribers -> {{}} \cup {{d} : d \in Channels}]
        /\ size' \in [Subscribers -> QueueSizes \cup {0}]
    BY <1>1 DEF Subscribe, TypeOK
  <2>3. Len(queue[s]) <= n /\ n \in Nat
    <3>1. size[s] = 0 /\ Len(queue[s]) <= size[s] /\ n \in Nat /\ queue[s] \in Seq({Msg, Stop})
      BY <1>1, BusAssumption DEF Subscribe, TypeOK
    <3>. QED BY <3>1
  <2>4. \A t \in Subscribers : Len(queue'[t]) <= size'[t]
    BY <1>1, <2>3 DEF Subscribe, TypeOK
  <2>5. \A t \in Subscribers : home'[t] # {} <=> size'[t] # 0
    BY <1>1, BusAssumption DEF Subscribe, TypeOK
  <2>. QED BY <1>1, <2>1, <2>2, <2>4, <2>5 DEF Subscribe, TypeOK
<1>2. ASSUME NEW s \in Subscribers, Unsubscribe(s) PROVE TypeInv'
  <2>1. PICK c \in home[s] : channels' = Without(c, {s})
    BY <1>2 DEF Unsubscribe
  <2>2. c \in Channels
    BY <2>1 DEF TypeOK
  <2>. QED BY <1>2, <2>1, <2>2, DismissTypeOK DEF Unsubscribe
<1>3. ASSUME NEW c \in Channels, CloseChannel(c) PROVE TypeInv'
  <2>1. SubscribersOf(c) \subseteq Subscribers
    BY DEF SubscribersOf, TypeOK
  <2>. QED BY <1>3, <2>1, DismissTypeOK DEF CloseChannel
<1>4. ASSUME NEW c \in Channels, NEW skip, Publish(c, skip) PROVE TypeInv'
  <2>1. queue' \in [Subscribers -> Seq({Msg, Stop})]
    BY <1>4, PutType DEF Publish
  <2>2. \A s \in Subscribers : Len(queue'[s]) <= size[s]
    BY <1>4, PutEffect DEF Publish
  <2>3. SubscribersOf(c) \subseteq Subscribers
    BY DEF SubscribersOf, TypeOK
  <2>4. flooded' \subseteq Subscribers
    BY <1>4, <2>3 DEF Publish, TypeOK
  <2>. QED BY <1>4, <2>1, <2>2, <2>4 DEF Publish, TypeOK
<1>5. ASSUME NEW s \in Subscribers, StartReading(s) \/ StopReading(s) PROVE TypeInv'
  BY <1>5 DEF StartReading, StopReading, TypeOK
<1>6. ASSUME NEW s \in Subscribers, Receive(s) PROVE TypeInv'
  <2>1. /\ queue[s] \in Seq({Msg, Stop}) /\ queue[s] # <<>>
        /\ queue' = [queue EXCEPT ![s] = Tail(queue[s])]
    BY <1>6 DEF Receive, TypeOK
  <2>2. Tail(queue[s]) \in Seq({Msg, Stop}) /\ Len(Tail(queue[s])) = Len(queue[s]) - 1
    BY <2>1
  <2>3. Len(queue[s]) \in Nat
    BY QueueFacts
  <2>4. queue' \in [Subscribers -> Seq({Msg, Stop})]
    BY <2>1, <2>2 DEF TypeOK
  <2>5. ASSUME NEW t \in Subscribers PROVE Len(queue'[t]) <= size[t]
    <3>1. Len(queue[t]) <= size[t] /\ size[t] \in Nat
      BY QueueFacts
    <3>2. queue'[t] = IF t = s THEN Tail(queue[s]) ELSE queue[t]
      BY <2>1 DEF TypeOK
    <3>. QED BY <2>2, <2>3, <3>1, <3>2
  <2>6. reader' \in [Subscribers -> {"none", "reading", "stopped", "left"}]
    BY <1>6 DEF Receive, TypeOK
  <2>. QED BY <1>6, <2>4, <2>5, <2>6 DEF Receive, TypeOK
<1>7. CASE UNCHANGED vars
  BY <1>7 DEF vars, TypeOK
<1>. QED BY <1>1, <1>2, <1>3, <1>4, <1>5, <1>6, <1>7 DEF Next

LEMMA TypeInvariant == Spec => []TypeInv
  BY InitTypeInv, NextTypeInv, PTL DEF Spec

\* Every reachable state of the bus is well typed, and no queue holds more than
\* its max_queue_size.
THEOREM TypeCorrect == Spec => []TypeOK
<1>1. TypeInv => TypeOK
  BY DEF TypeInv
<1>. QED BY <1>1, TypeInvariant, PTL

-----------------------------------------------------------------------------
(* Room for the stop signal.                                               *)

\* Publishers that skip lagging subscribers fill a queue to the threshold of
\* is_lagging at most, and the threshold is below max_queue_size.
ThresholdInv ==
  \A s \in Subscribers :
    Created(s) /\ s \notin dismissed \cup flooded => Len(queue[s]) <= (4 * size[s]) \div 5

LEMMA ThresholdBelowSize ==
  ASSUME NEW n \in Nat \ {0}
  PROVE  (4 * n) \div 5 \in Nat /\ (4 * n) \div 5 < n
  OBVIOUS

LEMMA NextThresholdInv == TypeInv /\ ThresholdInv /\ [Next]_vars => ThresholdInv'
<1> SUFFICES ASSUME TypeInv, ThresholdInv, [Next]_vars,
                    NEW s \in Subscribers, Created(s)', s \notin dismissed' \cup flooded'
             PROVE  Len(queue'[s]) <= (4 * size'[s]) \div 5
  BY DEF ThresholdInv
<1>1. /\ TypeOK /\ queue[s] \in Seq({Msg, Stop}) /\ Len(queue[s]) \in Nat
      /\ size[s] \in Nat /\ Len(queue[s]) <= size[s]
  BY QueueFacts DEF TypeInv
<1>2. Created(s) /\ s \notin dismissed \cup flooded => Len(queue[s]) <= (4 * size[s]) \div 5
  BY DEF ThresholdInv
<1>3. CASE UNCHANGED <<queue, size, home, dismissed, flooded>>
  BY <1>2, <1>3 DEF Created
<1>4. ASSUME NEW t \in Subscribers, NEW c \in Channels, NEW n \in QueueSizes,
             Subscribe(t, c, n)
      PROVE  Len(queue'[s]) <= (4 * size'[s]) \div 5
  <2>1. queue' = queue /\ size' = [size EXCEPT ![t] = n] /\ n \in Nat
        /\ dismissed' = dismissed /\ flooded' = flooded /\ home' = [home EXCEPT ![t] = {c}]
    BY <1>4, BusAssumption DEF Subscribe
  <2>2. CASE s = t
    <3>1. size[s] = 0
      BY <1>4, <2>2 DEF Subscribe, TypeInv
    <3>2. size'[s] = n /\ Len(queue'[s]) = 0
      BY <1>1, <2>1, <2>2, <3>1 DEF TypeOK
    <3>. QED BY <2>1, <3>2
  <2>3. CASE s # t
    BY <1>1, <1>2, <2>1, <2>3 DEF TypeOK, Created
  <2>. QED BY <2>2, <2>3
<1>5. ASSUME NEW t \in Subscribers, Unsubscribe(t)
      PROVE  Len(queue'[s]) <= (4 * size'[s]) \div 5
  <2>1. s # t /\ s \notin dismissed \cup flooded /\ Created(s) /\ size' = size
    BY <1>5 DEF Unsubscribe, Created
  <2>2. queue'[s] = queue[s]
    BY <1>5, <2>1 DEF Unsubscribe, PutNowait
  <2>. QED BY <1>2, <2>1, <2>2
<1>6. ASSUME NEW c \in Channels, CloseChannel(c)
      PROVE  Len(queue'[s]) <= (4 * size'[s]) \div 5
  <2>1. s \notin SubscribersOf(c) /\ s \notin dismissed \cup flooded /\ Created(s) /\ size' = size
    BY <1>6 DEF CloseChannel, Created
  <2>2. queue'[s] = queue[s]
    BY <1>6, <2>1 DEF CloseChannel, PutNowait
  <2>. QED BY <1>2, <2>1, <2>2
<1>7. ASSUME NEW c \in Channels, NEW skip \in BOOLEAN, Publish(c, skip)
      PROVE  Len(queue'[s]) <= (4 * size'[s]) \div 5
  <2>1. s \notin dismissed \cup flooded /\ Created(s) /\ size' = size
    BY <1>7 DEF Publish, Created
  <2>2. CASE IsLagging(s) \/ s \notin SubscribersOf(c)
    <3>1. skip \/ s \notin SubscribersOf(c)
      BY <1>7 DEF Publish
    <3>2. queue'[s] = queue[s]
      BY <1>7, <2>2, <3>1 DEF Publish, PutNowait
    <3>. QED BY <1>2, <2>1, <3>2
  <2>3. CASE ~IsLagging(s)
    <3>1. queue'[s] \in {queue[s], Append(queue[s], Msg)}
      BY <1>7 DEF Publish, PutNowait
    <3>2. Len(queue'[s]) <= Len(queue[s]) + 1 /\ Len(queue'[s]) \in Nat
      BY <1>1, <3>1
    <3>3. Len(queue[s]) < (4 * size[s]) \div 5 /\ (4 * size[s]) \div 5 \in Nat
      BY <1>1, <2>3 DEF IsLagging
    <3>. QED BY <1>1, <2>1, <3>2, <3>3
  <2>. QED BY <2>2, <2>3
<1>8. ASSUME NEW t \in Subscribers, Receive(t)
      PROVE  Len(queue'[s]) <= (4 * size'[s]) \div 5
  <2>1. s \notin dismissed \cup flooded /\ Created(s) /\ size' = size
    BY <1>8 DEF Receive, Created
  <2>2. CASE s = t
    <3>1. queue'[s] = Tail(queue[s]) /\ queue[s] # <<>>
      BY <1>8, <2>2 DEF Receive, TypeInv, TypeOK
    <3>2. Len(queue'[s]) = Len(queue[s]) - 1
      BY <1>1, <3>1
    <3>3. (4 * size[s]) \div 5 \in Nat
      BY <1>1
    <3>. QED BY <1>1, <1>2, <2>1, <3>2, <3>3
  <2>3. CASE s # t
    <3>1. queue'[s] = queue[s]
      BY <1>8, <2>3 DEF Receive, TypeInv, TypeOK
    <3>. QED BY <1>2, <2>1, <3>1
  <2>. QED BY <2>2, <2>3
<1>9. ASSUME NEW t \in Subscribers, StartReading(t) \/ StopReading(t)
      PROVE  UNCHANGED <<queue, size, home, dismissed, flooded>>
  BY <1>9 DEF StartReading, StopReading
<1>10. UNCHANGED vars => UNCHANGED <<queue, size, home, dismissed, flooded>>
  BY DEF vars
<1>11. SkipLagging \subseteq BOOLEAN
  BY Zenon, BusAssumption
<1>. QED BY <1>3, <1>4, <1>5, <1>6, <1>7, <1>8, <1>9, <1>10, <1>11 DEF Next

LEMMA ThresholdInvariant == Spec => []ThresholdInv
<1>1. Init => ThresholdInv
  BY DEF Init, ThresholdInv, Created
<1>. QED BY <1>1, NextThresholdInv, TypeInvariant, PTL DEF Spec

LEMMA BelowThresholdHasRoom ==
  ASSUME TypeInv, ThresholdInv, NEW s \in Subscribers,
         Created(s), s \notin dismissed \cup flooded
  PROVE  HasRoom(s)
<1>1. size[s] \in Nat \ {0} /\ Len(queue[s]) \in Nat
  BY QueueFacts DEF TypeInv
<1>2. Len(queue[s]) <= (4 * size[s]) \div 5
  BY DEF ThresholdInv
<1>. QED BY <1>1, <1>2, ThresholdBelowSize DEF HasRoom

-----------------------------------------------------------------------------
(* The channels.                                                           *)

ChannelInv ==
  /\ ChannelsAccurate
  /\ \A s \in dismissed : Created(s)

LEMMA WithoutSubscribers ==
  ASSUME ChannelsAccurate, NEW c, NEW S, channels' = Without(c, S)
  PROVE  /\ \A d \in DOMAIN channels' : channels'[d] # {}
         /\ \A d : SubscribersOf(d)' = IF d = c THEN SubscribersOf(d) \ S ELSE SubscribersOf(d)
<1> DEFINE rest == SubscribersOf(c) \ S
           kept == IF rest = {} THEN DOMAIN channels \ {c} ELSE DOMAIN channels
<1>1. channels' = [d \in kept |-> IF d = c THEN rest ELSE channels[d]]
  BY DEF Without
<1>2. ASSUME NEW d PROVE SubscribersOf(d)' = IF d = c THEN rest ELSE SubscribersOf(d)
  BY <1>1 DEF SubscribersOf
<1>3. ASSUME NEW d \in DOMAIN channels' PROVE channels'[d] # {}
  BY <1>1, <1>3 DEF ChannelsAccurate
<1>. QED BY <1>2, <1>3

\* Subscribers S of channel c are taken out of it, and no others.
LEMMA DismissChannelInv ==
  ASSUME TypeInv, ChannelInv, NEW c \in Channels, NEW S \in SUBSET Subscribers,
         \A s \in S : home[s] = {c}, channels' = Without(c, S),
         dismissed' = dismissed \cup S, UNCHANGED home
  PROVE  ChannelInv'
<1>1. /\ \A d \in DOMAIN channels' : channels'[d] # {}
      /\ \A d : SubscribersOf(d)' = IF d = c THEN SubscribersOf(d) \ S ELSE SubscribersOf(d)
  BY WithoutSubscribers DEF ChannelInv
<1>2. ASSUME NEW s \in Subscribers, NEW d \in Channels
      PROVE  s \in SubscribersOf(d)' <=> home'[s] = {d} /\ s \notin dismissed'
  <2>1. s \in SubscribersOf(d) <=> home[s] = {d} /\ s \notin dismissed
    BY DEF ChannelInv, ChannelsAccurate
  <2>2. s \in S /\ home[s] = {d} => d = c
    OBVIOUS
  <2>. QED BY <1>1, <2>1, <2>2
<1>3. \A s \in dismissed' : Created(s)'
  BY DEF ChannelInv, Created
<1>. QED BY <1>1, <1>2, <1>3 DEF ChannelInv, ChannelsAccurate

LEMMA NextChannelInv == TypeInv /\ ChannelInv /\ [Next]_vars => ChannelInv'
<1> SUFFICES ASSUME TypeInv, ChannelInv, [Next]_vars PROVE ChannelInv'
  OBVIOUS
<1>1. CASE UNCHANGED <<channels, home, dismissed>>
  BY <1>1 DEF ChannelInv, ChannelsAccurate, SubscribersOf, Created
<1>2. ASSUME NEW s \in Subscribers, NEW c \in Channels, NEW n \in QueueSizes,
             Subscribe(s, c, n)
      PROVE  ChannelInv'
  <2>1. /\ home[s] = {} /\ home' = [home EXCEPT ![s] = {c}] /\ dismissed' = dismissed
        /\ s \notin dismissed
    BY <1>2 DEF Subscribe, Created, ChannelInv
  <2>2. channels' = [d \in DOMAIN channels \cup {c} |->
                       SubscribersOf(d) \cup (IF d = c THEN {s} ELSE {})]
    BY <1>2 DEF Subscribe
  <2>3. \A d : SubscribersOf(d)' = SubscribersOf(d) \cup (IF d = c THEN {s} ELSE {})
    BY <2>2 DEF SubscribersOf
  <2>4. ASSUME NEW d \in DOMAIN channels' PROVE channels'[d] # {}
    BY <2>2, <2>4 DEF ChannelInv, ChannelsAccurate, SubscribersOf
  <2>5. ASSUME NEW t \in Subscribers, NEW d \in Channels
        PROVE  t \in SubscribersOf(d)' <=> home'[t] = {d} /\ t \notin dismissed'
    <3>1. t \in SubscribersOf(d) <=> home[t] = {d} /\ t \notin dismissed
      BY DEF ChannelInv, ChannelsAccurate
    <3>2. home'[t] = IF t = s THEN {c} ELSE home[t]
      BY <2>1 DEF TypeInv, TypeOK
    <3>3. CASE t = s
      BY <2>1, <2>3, <3>1, <3>2, <3>3
    <3>4. CASE t # s
      BY <2>1, <2>3, <3>1, <3>2, <3>4
    <3>. QED BY <3>3, <3>4
  <2>6. \A t \in dismissed' : Created(t)'
    BY <2>1 DEF ChannelInv, Created, TypeInv, TypeOK
  <2>. QED BY <2>4, <2>5, <2>6 DEF ChannelInv, ChannelsAccurate
<1>3. ASSUME NEW s \in Subscribers, Unsubscribe(s) PROVE ChannelInv'
  <2>1. PICK c \in home[s] : channels' = Without(c, {s})
    BY <1>3 DEF Unsubscribe
  <2>2. c \in Channels /\ home[s] = {c}
    BY <2>1 DEF TypeInv, TypeOK
  <2>. QED BY <1>3, <2>1, <2>2, DismissChannelInv DEF Unsubscribe
<1>4. ASSUME NEW c \in Channels, CloseChannel(c) PROVE ChannelInv'
  <2>1. SubscribersOf(c) \subseteq Subscribers
    BY DEF SubscribersOf, TypeInv, TypeOK
  <2>2. \A s \in SubscribersOf(c) : home[s] = {c}
    BY <2>1 DEF ChannelInv, ChannelsAccurate
  <2>. QED BY <1>4, <2>1, <2>2, DismissChannelInv DEF CloseChannel
<1>5. ASSUME NEW c \in Channels, NEW skip, Publish(c, skip)
      PROVE  UNCHANGED <<channels, home, dismissed>>
  BY <1>5 DEF Publish
<1>6. ASSUME NEW s \in Subscribers, StartReading(s) \/ StopReading(s) \/ Receive(s)
      PROVE  UNCHANGED <<channels, home, dismissed>>
  BY <1>6 DEF StartReading, StopReading, Receive
<1>7. UNCHANGED vars => UNCHANGED <<channels, home, dismissed>>
  BY DEF vars
<1>. QED BY <1>1, <1>2, <1>3, <1>4, <1>5, <1>6, <1>7 DEF Next

LEMMA ChannelInvariant == Spec => []ChannelInv
<1>1. Init => ChannelInv
  BY DEF Init, ChannelInv, ChannelsAccurate, SubscribersOf
<1>. QED BY <1>1, NextChannelInv, TypeInvariant, PTL DEF Spec

\* channel_count and subscriber_count tell the truth in every reachable state.
THEOREM CountsAreAccurate == Spec => []ChannelsAccurate
<1>1. ChannelInv => ChannelsAccurate
  BY DEF ChannelInv
<1>. QED BY <1>1, ChannelInvariant, PTL

-----------------------------------------------------------------------------
(* The stop signal is last.                                                *)

NoStop(q) == \A i \in 1..Len(q) : q[i] # Stop
OnlyStops(q) == \A i \in 1..Len(q) : q[i] = Stop
StopsLast(q) == \A i, j \in 1..Len(q) : i < j /\ q[i] = Stop => q[j] = Stop

\* Only dismissed subscribers have seen a stop signal.
StopInv ==
  \A s \in Subscribers :
    /\ StopsLast(queue[s])
    /\ reader[s] = "stopped" => OnlyStops(queue[s])
    /\ s \notin dismissed => NoStop(queue[s]) /\ reader[s] # "stopped"

LEMMA AppendMsg ==
  ASSUME NEW q \in Seq({Msg, Stop}), NoStop(q)
  PROVE  NoStop(Append(q, Msg)) /\ StopsLast(Append(q, Msg))
<1>1. Len(Append(q, Msg)) = Len(q) + 1 /\ Len(q) \in Nat
  OBVIOUS
<1>2. \A i \in 1..Len(q) + 1 : Append(q, Msg)[i] = IF i <= Len(q) THEN q[i] ELSE Msg
  OBVIOUS
<1>3. NoStop(Append(q, Msg))
  BY <1>1, <1>2 DEF NoStop, Msg, Stop
<1>. QED BY <1>3 DEF NoStop, StopsLast

LEMMA AppendStop ==
  ASSUME NEW q \in Seq({Msg, Stop}), StopsLast(q)
  PROVE  StopsLast(Append(q, Stop)) /\ (OnlyStops(q) => OnlyStops(Append(q, Stop)))
<1>1. Len(Append(q, Stop)) = Len(q) + 1 /\ Len(q) \in Nat
  OBVIOUS
<1>2. \A i \in 1..Len(q) + 1 : Append(q, Stop)[i] = IF i <= Len(q) THEN q[i] ELSE Stop
  OBVIOUS
<1>. QED BY <1>1, <1>2 DEF StopsLast, OnlyStops

LEMMA TailStops ==
  ASSUME NEW q \in Seq({Msg, Stop}), q # <<>>, StopsLast(q)
  PROVE  /\ StopsLast(Tail(q))
         /\ NoStop(q) => NoStop(Tail(q)) /\ Head(q) # Stop
         /\ OnlyStops(q) => OnlyStops(Tail(q))
         /\ Head(q) = Stop => OnlyStops(Tail(q))
<1>1. /\ Len(q) \in Nat \ {0} /\ Len(Tail(q)) = Len(q) - 1
      /\ \A i \in 1..Len(Tail(q)) : Tail(q)[i] = q[i + 1]
      /\ Head(q) = q[1]
  OBVIOUS
<1>2. \A i \in 1..Len(Tail(q)) : i + 1 \in 1..Len(q) /\ 1 < i + 1
  BY <1>1
<1>3. 1 \in 1..Len(q)
  BY <1>1
<1>4. StopsLast(Tail(q))
  BY <1>1, <1>2 DEF StopsLast
<1>5. NoStop(q) => NoStop(Tail(q)) /\ Head(q) # Stop
  BY <1>1, <1>2, <1>3 DEF NoStop
<1>6. OnlyStops(q) => OnlyStops(Tail(q))
  BY <1>1, <1>2 DEF OnlyStops
<1>7. Head(q) = Stop => OnlyStops(Tail(q))
  BY <1>1, <1>2, <1>3 DEF StopsLast, OnlyStops
<1>. QED BY <1>4, <1>5, <1>6, <1>7

\* Sending stop signals to S, all of whom are dismissed afterwards.
LEMMA DismissStopInv ==
  ASSUME TypeInv, StopInv, NEW S, PutNowait(S, Stop), S \subseteq dismissed',
         dismissed \subseteq dismissed', UNCHANGED reader
  PROVE  StopInv'
<1> SUFFICES ASSUME NEW s \in Subscribers
             PROVE  /\ StopsLast(queue'[s])
                    /\ reader[s] = "stopped" => OnlyStops(queue'[s])
                    /\ s \notin dismissed' => NoStop(queue'[s]) /\ reader[s] # "stopped"
  BY DEF StopInv, StopsLast, OnlyStops, NoStop
<1>1. /\ queue[s] \in Seq({Msg, Stop}) /\ StopsLast(queue[s])
      /\ reader[s] = "stopped" => OnlyStops(queue[s])
      /\ s \notin dismissed => NoStop(queue[s]) /\ reader[s] # "stopped"
  BY QueueFacts DEF TypeInv, StopInv
<1>2. CASE queue'[s] = queue[s]
  BY <1>1, <1>2
<1>3. CASE queue'[s] = Append(queue[s], Stop) /\ s \in S
  BY <1>1, <1>3, AppendStop
<1>4. \/ queue'[s] = queue[s]
      \/ queue'[s] = Append(queue[s], Stop) /\ s \in S
  BY DEF PutNowait
<1>. QED BY <1>2, <1>3, <1>4

LEMMA PublishStopInv ==
  ASSUME TypeInv, ChannelInv, StopInv, NEW c \in Channels, NEW skip, Publish(c, skip)
  PROVE  StopInv'
<1> SUFFICES ASSUME NEW s \in Subscribers
             PROVE  /\ StopsLast(queue'[s])
                    /\ reader[s] = "stopped" => OnlyStops(queue'[s])
                    /\ s \notin dismissed => NoStop(queue'[s]) /\ reader[s] # "stopped"
  BY DEF StopInv, Publish, StopsLast, OnlyStops, NoStop
<1>1. /\ queue[s] \in Seq({Msg, Stop}) /\ StopsLast(queue[s])
      /\ reader[s] = "stopped" => OnlyStops(queue[s])
      /\ s \notin dismissed => NoStop(queue[s]) /\ reader[s] # "stopped"
  BY QueueFacts DEF TypeInv, StopInv
<1>2. CASE queue'[s] = queue[s]
  BY <1>1, <1>2
<1>3. CASE queue'[s] = Append(queue[s], Msg) /\ s \in SubscribersOf(c)
  <2>1. s \notin dismissed
    BY <1>3 DEF ChannelInv, ChannelsAccurate
  <2>. QED BY <1>1, <1>3, <2>1, AppendMsg
<1>4. \/ queue'[s] = queue[s]
      \/ queue'[s] = Append(queue[s], Msg) /\ s \in SubscribersOf(c)
  BY DEF Publish, PutNowait
<1>. QED BY <1>2, <1>3, <1>4

LEMMA ReceiveStopInv ==
  ASSUME TypeInv, StopInv, NEW t \in Subscribers, Receive(t)
  PROVE  StopInv'
<1> SUFFICES ASSUME NEW s \in Subscribers
             PROVE  /\ StopsLast(queue'[s])
                    /\ reader'[s] = "stopped" => OnlyStops(queue'[s])
                    /\ s \notin dismissed => NoStop(queue'[s]) /\ reader'[s] # "stopped"
  BY DEF StopInv, Receive, StopsLast, OnlyStops, NoStop
<1>1. /\ queue[s] \in Seq({Msg, Stop}) /\ StopsLast(queue[s])
      /\ reader[s] = "stopped" => OnlyStops(queue[s])
      /\ s \notin dismissed => NoStop(queue[s]) /\ reader[s] # "stopped"
  BY QueueFacts DEF TypeInv, StopInv
<1>2. CASE s # t
  <2>1. queue'[s] = queue[s] /\ reader'[s] = reader[s]
    BY <1>2 DEF Receive, TypeInv, TypeOK
  <2>. QED BY <1>1, <2>1
<1>3. CASE s = t
  <2>1. /\ queue[s] # <<>> /\ queue'[s] = Tail(queue[s]) /\ reader[s] = "reading"
        /\ reader'[s] = IF Head(queue[s]) = Stop THEN "stopped" ELSE reader[s]
    BY <1>3 DEF Receive, TypeInv, TypeOK
  <2>. QED BY <1>1, <2>1, TailStops
<1>. QED BY <1>2, <1>3

LEMMA NextStopInv == TypeInv /\ ChannelInv /\ StopInv /\ [Next]_vars => StopInv'
<1> SUFFICES ASSUME TypeInv, ChannelInv, StopInv, [Next]_vars PROVE StopInv'
  OBVIOUS
<1>1. ASSUME NEW s \in Subscribers, NEW c \in Channels, NEW n \in QueueSizes,
             Subscribe(s, c, n)
      PROVE  StopInv'
  BY <1>1 DEF Subscribe, StopInv, StopsLast, OnlyStops, NoStop
<1>2. ASSUME NEW s \in Subscribers, Unsubscribe(s) PROVE StopInv'
  BY <1>2, DismissStopInv DEF Unsubscribe
<1>3. ASSUME NEW c \in Channels, CloseChannel(c) PROVE StopInv'
  BY <1>3, DismissStopInv DEF CloseChannel
<1>4. ASSUME NEW c \in Channels, NEW skip, Publish(c, skip) PROVE StopInv'
  BY <1>4, PublishStopInv
<1>5. ASSUME NEW s \in Subscribers, Receive(s) PROVE StopInv'
  BY <1>5, ReceiveStopInv
<1>6. ASSUME NEW s \in Subscribers, StartReading(s) \/ StopReading(s) PROVE StopInv'
  <2>1. /\ UNCHANGED <<queue, dismissed>>
        /\ \A t \in Subscribers : reader'[t] = "stopped" => reader[t] = "stopped"
    BY <1>6 DEF StartReading, StopReading, TypeInv, TypeOK
  <2>. QED BY <2>1 DEF StopInv, StopsLast, OnlyStops, NoStop
<1>7. CASE UNCHANGED vars
  BY <1>7 DEF vars, StopInv, StopsLast, OnlyStops, NoStop
<1>. QED BY <1>1, <1>2, <1>3, <1>4, <1>5, <1>6, <1>7 DEF Next

\* messages() never ends with a message left behind: a stop signal is followed
\* by nothing but stop signals, even when unsubscribe() is called twice.
THEOREM NothingFollowsStop == Spec => []StopIsLast
<1>1. Init => StopInv
  BY DEF Init, StopInv, StopsLast, OnlyStops, NoStop
<1>2. StopInv => StopIsLast
  BY DEF StopInv, StopIsLast, StopsLast, OnlyStops
<1>. QED BY <1>1, <1>2, NextStopInv, ChannelInvariant, TypeInvariant, PTL DEF Spec

-----------------------------------------------------------------------------
(* The stop signal gets through.                                           *)

HasStop(q) == \E i \in 1..Len(q) : q[i] = Stop

\* A dismissed subscriber has its stop signal, or had it.
SignalInv ==
  \A s \in dismissed \ flooded : reader[s] = "stopped" \/ HasStop(queue[s])

LEMMA AppendKeepsStop ==
  ASSUME NEW q \in Seq({Msg, Stop})
  PROVE  HasStop(Append(q, Stop)) /\ (HasStop(q) => \A x \in {Msg, Stop} : HasStop(Append(q, x)))
<1>1. \A x \in {Msg, Stop} : /\ Len(Append(q, x)) = Len(q) + 1
                            /\ \A i \in 1..Len(q) : Append(q, x)[i] = q[i]
                            /\ Append(q, x)[Len(q) + 1] = x
  OBVIOUS
<1>2. Len(q) \in Nat /\ Len(q) + 1 \in 1..(Len(q) + 1) /\ 1..Len(q) \subseteq 1..(Len(q) + 1)
  OBVIOUS
<1>. QED BY <1>1, <1>2 DEF HasStop

LEMMA TailKeepsStop ==
  ASSUME NEW q \in Seq({Msg, Stop}), q # <<>>, HasStop(q), Head(q) # Stop
  PROVE  HasStop(Tail(q))
<1>1. /\ Len(q) \in Nat \ {0} /\ Len(Tail(q)) = Len(q) - 1
      /\ \A i \in 1..Len(Tail(q)) : Tail(q)[i] = q[i + 1]
      /\ Head(q) = q[1]
  OBVIOUS
<1>2. PICK i \in 1..Len(q) : q[i] = Stop
  BY DEF HasStop
<1>3. i - 1 \in 1..Len(Tail(q)) /\ (i - 1) + 1 = i
  BY <1>1, <1>2
<1>4. Tail(q)[i - 1] = Stop
  BY <1>1, <1>2, <1>3
<1>. QED BY <1>3, <1>4 DEF HasStop

\* Subscribers that exist are sent the signal: it fits the first time, and later
\* ones take nothing away.
LEMMA DismissSignalInv ==
  ASSUME TypeInv, ThresholdInv, SignalInv, NEW S \in SUBSET Subscribers,
         \A s \in S : Created(s), PutNowait(S, Stop), dismissed' = dismissed \cup S,
         UNCHANGED <<reader, flooded>>
  PROVE  SignalInv'
<1> SUFFICES ASSUME NEW s \in dismissed' \ flooded
             PROVE  reader[s] = "stopped" \/ HasStop(queue'[s])
  BY DEF SignalInv, HasStop
<1>1. s \in Subscribers /\ queue[s] \in Seq({Msg, Stop})
  BY QueueFacts DEF TypeInv, TypeOK
<1>2. queue'[s] = IF s \in S /\ HasRoom(s) THEN Append(queue[s], Stop) ELSE queue[s]
  BY <1>1 DEF PutNowait
<1>3. CASE s \in dismissed
  BY <1>1, <1>2, <1>3, AppendKeepsStop DEF SignalInv
<1>4. CASE s \notin dismissed
  <2>1. s \in S /\ HasRoom(s)
    BY <1>1, <1>4, BelowThresholdHasRoom
  <2>. QED BY <1>1, <1>2, <2>1, AppendKeepsStop
<1>. QED BY <1>3, <1>4

LEMMA NextSignalInv ==
  TypeInv /\ ThresholdInv /\ ChannelInv /\ SignalInv /\ [Next]_vars => SignalInv'
<1> SUFFICES ASSUME TypeInv, ThresholdInv, ChannelInv, SignalInv, [Next]_vars PROVE SignalInv'
  OBVIOUS
<1>1. ASSUME NEW s \in Subscribers, NEW c \in Channels, NEW n \in QueueSizes,
             Subscribe(s, c, n)
      PROVE  SignalInv'
  BY <1>1 DEF Subscribe, SignalInv, HasStop
<1>2. ASSUME NEW s \in Subscribers, Unsubscribe(s) PROVE SignalInv'
  BY <1>2, DismissSignalInv DEF Unsubscribe
<1>3. ASSUME NEW c \in Channels, CloseChannel(c) PROVE SignalInv'
  <2>1. SubscribersOf(c) \subseteq Subscribers
    BY DEF SubscribersOf, TypeInv, TypeOK
  <2>2. \A s \in SubscribersOf(c) : Created(s)
    BY <2>1 DEF ChannelInv, ChannelsAccurate, Created
  <2>. QED BY <1>3, <2>1, <2>2, DismissSignalInv DEF CloseChannel
<1>4. ASSUME NEW c \in Channels, NEW skip, Publish(c, skip) PROVE SignalInv'
  <2>1. \A s \in dismissed : queue'[s] = queue[s]
    <3>1. dismissed \subseteq Subscribers /\ \A s \in dismissed : s \notin SubscribersOf(c)
      BY DEF ChannelInv, ChannelsAccurate, TypeInv, TypeOK
    <3>. QED BY <1>4, <3>1 DEF Publish, PutNowait
  <2>2. dismissed' = dismissed /\ flooded \subseteq flooded' /\ reader' = reader
    BY <1>4 DEF Publish
  <2>. QED BY <2>1, <2>2 DEF SignalInv, HasStop
<1>5. ASSUME NEW t \in Subscribers, Receive(t) PROVE SignalInv'
  <2> SUFFICES ASSUME NEW s \in dismissed \ flooded
               PROVE  reader'[s] = "stopped" \/ HasStop(queue'[s])
    BY <1>5 DEF SignalInv, HasStop, Receive
  <2>1. s \in Subscribers /\ (reader[s] = "stopped" \/ HasStop(queue[s]))
    BY DEF SignalInv, TypeInv, TypeOK
  <2>2. CASE s # t
    BY <1>5, <2>1, <2>2 DEF Receive, TypeInv, TypeOK
  <2>3. CASE s = t
    <3>1. /\ queue[s] # <<>> /\ queue'[s] = Tail(queue[s]) /\ queue[s] \in Seq({Msg, Stop})
          /\ reader[s] = "reading"
          /\ reader'[s] = IF Head(queue[s]) = Stop THEN "stopped" ELSE reader[s]
      BY <1>5, <2>3 DEF Receive, TypeInv, TypeOK
    <3>. QED BY <2>1, <3>1, TailKeepsStop
  <2>. QED BY <2>2, <2>3
<1>6. ASSUME NEW t \in Subscribers, StartReading(t) \/ StopReading(t) PROVE SignalInv'
  <2>1. /\ UNCHANGED <<queue, dismissed, flooded>>
        /\ \A s \in Subscribers : reader[s] = "stopped" => reader'[s] = "stopped"
    BY <1>6 DEF StartReading, StopReading, TypeInv, TypeOK
  <2>. QED BY <2>1 DEF SignalInv, HasStop, TypeInv, TypeOK
<1>7. CASE UNCHANGED vars
  BY <1>7 DEF vars, SignalInv, HasStop
<1>. QED BY <1>1, <1>2, <1>3, <1>4, <1>5, <1>6, <1>7 DEF Next

\* A subscriber whose publishers all skip it when it lags has room for the stop
\* signal when unsubscribe() comes and keeps it until its reader ends, whatever
\* the queue sizes: the safety half of UnfloodedReadersStop.
THEOREM StopAlwaysGetsThrough == Spec => []StopGetsThrough
<1>1. Init => SignalInv
  BY DEF Init, SignalInv
<1>2. TypeInv /\ ThresholdInv /\ SignalInv => StopGetsThrough
  BY BelowThresholdHasRoom DEF StopGetsThrough, SignalInv, HasStop
<1>. QED BY <1>1, <1>2, NextSignalInv, ThresholdInvariant, ChannelInvariant,
            TypeInvariant, PTL DEF Spec
=============================================================================
