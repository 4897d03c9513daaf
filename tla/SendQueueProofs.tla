-------------------------- MODULE SendQueueProofs --------------------------
(* Theorems about SendQueue, for any max_size, any number of senders and   *)
(* drainers and any number of calls.                                       *)
EXTENDS BackpressureController, FiniteSetTheorems, SequenceTheorems, TLAPS

-----------------------------------------------------------------------------
(* The line of sleeping senders.                                           *)

LEMMA AppendToLine ==
  ASSUME NEW S, NEW q \in Seq(S), IsInjective(q), NEW e \in S, e \notin ToSet(q)
  PROVE  /\ Append(q, e) \in Seq(S) /\ IsInjective(Append(q, e))
         /\ Append(q, e) # <<>>
         /\ ToSet(Append(q, e)) = ToSet(q) \cup {e}
<1>1. /\ Append(q, e) \in Seq(S) /\ Append(q, e) # <<>>
      /\ Len(Append(q, e)) = Len(q) + 1
      /\ \A i \in 1..Len(q) : Append(q, e)[i] = q[i]
      /\ Append(q, e)[Len(q) + 1] = e
  BY AppendProperties
<1>. QED BY <1>1 DEF IsInjective, ToSet

LEMMA TailOfLine ==
  ASSUME NEW S, NEW q \in Seq(S), IsInjective(q), q # <<>>
  PROVE  /\ Tail(q) \in Seq(S) /\ IsInjective(Tail(q))
         /\ Head(q) \in ToSet(q) /\ Head(q) \in S
         /\ ToSet(Tail(q)) = ToSet(q) \ {Head(q)}
<1>1. /\ Head(q) \in S /\ Tail(q) \in Seq(S) /\ Len(Tail(q)) = Len(q) - 1
      /\ \A i \in 1..Len(Tail(q)) : Tail(q)[i] = q[i + 1]
  BY HeadTailProperties
<1>2. Head(q) = q[1] /\ Len(q) \in Nat \ {0}
  OBVIOUS
<1>3. IsInjective(Tail(q)) /\ Head(q) \in ToSet(q)
  BY <1>1, <1>2 DEF IsInjective, ToSet
<1>4. ToSet(Tail(q)) \subseteq ToSet(q) \ {Head(q)}
  BY <1>1, <1>2 DEF IsInjective, ToSet
<1>5. ASSUME NEW i \in 1..Len(q), q[i] # Head(q) PROVE q[i] \in ToSet(Tail(q))
  <2>1. i - 1 \in 1..Len(Tail(q)) /\ Tail(q)[i - 1] = q[i]
    BY <1>1, <1>2, <1>5
  <2>. QED BY <1>1, <2>1 DEF ToSet
<1>. QED BY <1>1, <1>3, <1>4, <1>5 DEF ToSet

LEMMA RemovedFromLine ==
  ASSUME NEW S, NEW q \in Seq(S), IsInjective(q), NEW i \in DOMAIN q
  PROVE  /\ RemoveAt(q, i) \in Seq(S) /\ IsInjective(RemoveAt(q, i))
         /\ ToSet(RemoveAt(q, i)) = ToSet(q) \ {q[i]}
<1> DEFINE before == SubSeq(q, 1, i - 1)
           after == SubSeq(q, i + 1, Len(q))
           rest == RemoveAt(q, i)
<1>1. i \in 1..Len(q) /\ Len(q) \in Nat /\ \A j \in 1..Len(q) : q[j] \in S
  OBVIOUS
<1>2. /\ before \in Seq(S) /\ Len(before) = i - 1
      /\ \A j \in 1..i - 1 : before[j] = q[j]
  BY <1>1, SubSeqProperties
<1>3. /\ after \in Seq(S) /\ Len(after) = Len(q) - i
      /\ \A j \in 1..Len(q) - i : after[j] = q[i + j]
  <2>1. /\ after \in Seq(S) /\ Len(after) = IF i + 1 <= Len(q) THEN Len(q) - (i + 1) + 1 ELSE 0
        /\ \A j \in 1..Len(q) - (i + 1) + 1 : after[j] = q[(i + 1) + j - 1]
    BY <1>1, SubSeqProperties
  <2>. QED BY <1>1, <2>1
<1>4. rest = before \o after
  BY DEF RemoveAt
<1> HIDE DEF before, after, rest
<1>5. /\ rest \in Seq(S) /\ Len(rest) = Len(q) - 1
      /\ \A j \in 1..Len(q) - 1 : rest[j] = IF j < i THEN q[j] ELSE q[j + 1]
  <2>1. /\ rest \in Seq(S) /\ Len(rest) = Len(before) + Len(after)
        /\ \A j \in 1..Len(before) + Len(after) :
             rest[j] = IF j <= Len(before) THEN before[j] ELSE after[j - Len(before)]
    BY <1>2, <1>3, <1>4, ConcatProperties
  <2>2. ASSUME NEW j \in 1..Len(q) - 1
        PROVE  rest[j] = IF j < i THEN q[j] ELSE q[j + 1]
    <3>1. CASE j < i
      BY <1>1, <1>2, <1>3, <2>1, <3>1
    <3>2. CASE ~(j < i)
      <4>1. j - (i - 1) \in 1..Len(q) - i /\ i + (j - (i - 1)) = j + 1
        BY <1>1, <3>2
      <4>2. j \in 1..Len(before) + Len(after) /\ ~(j <= Len(before))
        BY <1>1, <1>2, <1>3, <3>2
      <4>3. rest[j] = after[j - (i - 1)]
        BY <1>2, <2>1, <4>2
      <4>. QED BY <1>3, <3>2, <4>1, <4>3
    <3>. QED BY <3>1, <3>2
  <2>. QED BY <1>1, <1>2, <1>3, <2>1, <2>2
<1>6. IsInjective(rest)
  <2> SUFFICES ASSUME NEW j \in 1..Len(q) - 1, NEW k \in 1..Len(q) - 1, rest[j] = rest[k]
               PROVE  j = k
    BY <1>1, <1>5 DEF IsInjective
  <2> DEFINE from(m) == IF m < i THEN m ELSE m + 1
  <2>1. /\ from(j) \in 1..Len(q) /\ rest[j] = q[from(j)]
        /\ from(k) \in 1..Len(q) /\ rest[k] = q[from(k)]
    BY <1>1, <1>5
  <2>2. from(j) = from(k) => j = k
    BY <1>1
  <2> HIDE DEF from
  <2>3. DOMAIN q = 1..Len(q)
    OBVIOUS
  <2>4. from(j) = from(k)
    BY <2>1, <2>3 DEF IsInjective
  <2>. QED BY <2>2, <2>4
<1>7. ToSet(rest) \subseteq ToSet(q) \ {q[i]}
  BY <1>1, <1>5 DEF IsInjective, ToSet
<1>8. ASSUME NEW j \in 1..Len(q), q[j] # q[i] PROVE q[j] \in ToSet(rest)
  <2>1. CASE j < i
    <3>1. j \in 1..Len(q) - 1 /\ rest[j] = q[j]
      BY <1>1, <1>5, <2>1
    <3>. QED BY <1>5, <3>1 DEF ToSet
  <2>2. CASE ~(j < i)
    <3>1. j - 1 \in 1..Len(q) - 1 /\ rest[j - 1] = q[j]
      BY <1>1, <1>5, <1>8, <2>2
    <3>. QED BY <1>5, <3>1 DEF ToSet
  <2>. QED BY <2>1, <2>2
<1>9. ASSUME NEW e \in ToSet(q) \ {q[i]} PROVE e \in ToSet(rest)
  <2>1. PICK j \in 1..Len(q) : e = q[j]
    BY <1>1 DEF ToSet
  <2>. QED BY <1>8, <2>1
<1>. QED BY <1>5, <1>6, <1>7, <1>9 DEF rest

-----------------------------------------------------------------------------
(* What the steps have in common.                                          *)

Unlimited == size = 0 /\ strategy \in {"drop_newest", "block_sender"}

Numbers ==
  /\ strategy \in Strategies
  /\ size \in Sizes
  /\ depth \in Nat
  /\ batch \in [Drainers -> 0..BatchSize]
  /\ stats \in [queued : Nat, dropped : Nat, sent : Nat, errors : Nat, hwm : Nat]
  /\ peak \in Nat
  /\ evicted \in Nat
  /\ lost \in Nat

\* A task is asleep or woken, never both, in line once, and only where put()
\* has a limit.
Line ==
  /\ putters \in Seq(Senders)
  /\ woken \subseteq Senders
  /\ IsInjective(putters)
  /\ Asleep \cap woken = {}
  /\ Asleep \cup woken # {} => size > 0

TypeInv == Numbers /\ Line

LEMMA WokenFinite ==
  ASSUME TypeInv
  PROVE  IsFiniteSet(woken) /\ Cardinality(woken) \in Nat
  BY QueueAssumption, FS_Subset, FS_CardinalityType DEF TypeInv, Line

LEMMA SendingFinite == IsFiniteSet(Sending) /\ Cardinality(Sending) \in Nat
  BY QueueAssumption, FS_Subset, FS_CardinalityType DEF Sending

\* Every call of enqueue puts one message in the queue, waits for room, or
\* leaves a full queue full.
LEMMA EnqueueEffect ==
  ASSUME TypeInv, NEW s \in Senders, Enqueue(s)
  PROVE  /\ \/ (~IsFull \/ Unlimited) /\ Put /\ UNCHANGED putters
            \/ IsFull /\ UNCHANGED <<depth, peak>>
               /\ putters' \in {putters, Append(putters, s)}
         /\ putters' # putters => size > 0
         /\ stats'.hwm = Larger(stats.hwm, depth)
         /\ UNCHANGED <<strategy, size, woken, batch, lost>>
         /\ s \notin Asleep \cup woken
<1>1. s \notin Asleep \cup woken /\ UNCHANGED <<strategy, size, woken, batch, lost>>
  BY DEF Enqueue, Idle, config
<1>2. /\ \/ (~IsFull \/ Unlimited) /\ Put /\ UNCHANGED putters
         \/ IsFull /\ UNCHANGED <<depth, peak>>
            /\ putters' \in {putters, Append(putters, s)}
      /\ putters' # putters => size > 0
  BY QueueAssumption
     DEF Enqueue, EnqueueDropOldest, EnqueueDropNewest, EnqueueBlockSender,
         EnqueueDisconnect, IsFull, AsyncFull, Unlimited, TypeInv, Numbers
<1>3. stats'.hwm = Larger(stats.hwm, depth)
  <2>1. /\ Seen.hwm = Larger(stats.hwm, depth)
        /\ Seen \in [queued : Nat, dropped : Nat, sent : Nat, errors : Nat, hwm : Nat]
    BY DEF TypeInv, Numbers, Seen, Larger
  <2>2. stats' \in {Seen, [Seen EXCEPT !.queued = @ + 1], [Seen EXCEPT !.dropped = @ + 1]}
    BY DEF Enqueue, EnqueueDropOldest, EnqueueDropNewest, EnqueueBlockSender,
           EnqueueDisconnect
  <2>. QED BY <2>1, <2>2
<1>. QED BY <1>1, <1>2, <1>3

\* drain's loop takes a message and wakes a sender, or ends the drain.
LEMMA TakeNextEffect ==
  ASSUME TypeInv, NEW d \in Drainers, NEW n \in 0..BatchSize, TakeNext(d, n)
  PROVE  \/ /\ n > 0 /\ depth > 0 /\ depth' = depth - 1
            /\ batch' = [batch EXCEPT ![d] = n]
            /\ \/ putters = <<>> /\ UNCHANGED <<putters, woken>>
               \/ /\ putters # <<>> /\ putters' = Tail(putters)
                  /\ woken' = woken \cup {Head(putters)}
         \/ batch' = [batch EXCEPT ![d] = 0] /\ UNCHANGED <<depth, putters, woken>>
  BY DEF TakeNext, WakePutter

\* Waking the first of the line moves it from the one set to the other.
LEMMA WakeEffect ==
  ASSUME TypeInv, putters # <<>>, putters' = Tail(putters)
  PROVE  /\ Head(putters) \in Asleep /\ Head(putters) \in Senders \ woken
         /\ putters' \in Seq(Senders) /\ IsInjective(putters')
         /\ Asleep' = Asleep \ {Head(putters)}
<1>1. putters \in Seq(Senders) /\ IsInjective(putters) /\ Asleep \cap woken = {}
  BY DEF TypeInv, Line
<1>. QED BY <1>1, TailOfLine DEF Asleep

LEMMA TakeNextType ==
  ASSUME TypeInv, NEW d \in Drainers, NEW n \in 0..BatchSize, TakeNext(d, n)
  PROVE  /\ depth' \in Nat /\ batch' \in [Drainers -> 0..BatchSize]
         /\ putters' \in Seq(Senders) /\ IsInjective(putters') /\ woken' \subseteq Senders
         /\ Asleep' \cup woken' = Asleep \cup woken
         /\ Asleep' \cap woken' = {}
<1>1. /\ depth \in Nat /\ batch \in [Drainers -> 0..BatchSize]
      /\ putters \in Seq(Senders) /\ IsInjective(putters) /\ woken \subseteq Senders
      /\ Asleep \cap woken = {}
  BY DEF TypeInv, Numbers, Line
<1>2. depth' \in Nat /\ batch' \in [Drainers -> 0..BatchSize]
  BY <1>1, TakeNextEffect, QueueAssumption
<1>3. CASE putters # <<>> /\ putters' = Tail(putters) /\ woken' = woken \cup {Head(putters)}
  BY <1>1, <1>2, <1>3, WakeEffect
<1>4. CASE UNCHANGED <<putters, woken>>
  BY <1>1, <1>2, <1>4 DEF Asleep
<1>. QED BY <1>3, <1>4, TakeNextEffect

-----------------------------------------------------------------------------
(* Type correctness.                                                       *)

LEMMA InitTypeInv == Init => TypeInv
  BY QueueAssumption DEF Init, NewStats, TypeInv, Numbers, Line, Asleep, ToSet, IsInjective

LEMMA EnqueueTypeInv ==
  ASSUME TypeInv, NEW s \in Senders, Enqueue(s)
  PROVE  TypeInv'
<1>1. UNCHANGED <<strategy, size, woken, batch, lost>> /\ s \notin Asleep \cup woken
  BY EnqueueEffect
<1>2. Numbers'
  <2> USE DEF TypeInv, Numbers
  <2>1. depth' \in Nat /\ peak' \in Nat
    BY EnqueueEffect, QueueAssumption DEF Put, Larger
  <2>2. evicted' \in Nat
    BY DEF Enqueue, EnqueueDropOldest, EnqueueDropNewest, EnqueueBlockSender, EnqueueDisconnect
  <2>3. stats' \in [queued : Nat, dropped : Nat, sent : Nat, errors : Nat, hwm : Nat]
    <3>1. Seen \in [queued : Nat, dropped : Nat, sent : Nat, errors : Nat, hwm : Nat]
      BY DEF Seen, Larger
    <3>2. stats' \in {Seen, [Seen EXCEPT !.queued = @ + 1], [Seen EXCEPT !.dropped = @ + 1]}
      BY DEF Enqueue, EnqueueDropOldest, EnqueueDropNewest, EnqueueBlockSender,
             EnqueueDisconnect
    <3>. QED BY <3>1, <3>2
  <2>. QED BY <1>1, <2>1, <2>2, <2>3
<1>3. Line'
  <2> USE DEF TypeInv, Line
  <2>1. CASE putters' = putters
    BY <1>1, <2>1 DEF Asleep
  <2>2. CASE putters' = Append(putters, s) /\ size > 0
    <3>1. /\ putters' \in Seq(Senders) /\ IsInjective(putters')
          /\ Asleep' = Asleep \cup {s}
      BY <1>1, <2>2, AppendToLine DEF Asleep
    <3>. QED BY <1>1, <2>2, <3>1
  <2>. QED BY <2>1, <2>2, EnqueueEffect
<1>. QED BY <1>2, <1>3 DEF TypeInv

LEMMA ResumeTypeInv ==
  ASSUME TypeInv, NEW s \in Senders, ResumeSender(s)
  PROVE  TypeInv'
<1>1. /\ s \in woken /\ woken' = woken \ {s}
      /\ UNCHANGED <<strategy, size, batch, evicted, lost>>
  BY DEF ResumeSender, config
<1>2. Numbers'
  <2> USE DEF TypeInv, Numbers
  <2>1. \/ UNCHANGED <<depth, peak, stats>>
        \/ Put /\ stats' = [stats EXCEPT !.queued = @ + 1]
    BY DEF ResumeSender
  <2>2. depth' \in Nat /\ peak' \in Nat
    BY <2>1 DEF Put, Larger
  <2>3. stats' \in [queued : Nat, dropped : Nat, sent : Nat, errors : Nat, hwm : Nat]
    BY <2>1
  <2>. QED BY <1>1, <2>2, <2>3
<1>3. Line'
  <2> USE DEF TypeInv, Line
  <2>1. CASE putters' = Append(putters, s)
    <3>1. /\ putters' \in Seq(Senders) /\ IsInjective(putters')
          /\ Asleep' = Asleep \cup {s}
      BY <1>1, <2>1, AppendToLine DEF Asleep
    <3>. QED BY <1>1, <3>1
  <2>2. CASE putters' = putters
    BY <1>1, <2>2 DEF Asleep
  <2>. QED BY <2>1, <2>2 DEF ResumeSender
<1>. QED BY <1>2, <1>3 DEF TypeInv

LEMMA CancelTypeInv ==
  ASSUME TypeInv, NEW s \in Senders, CancelPutter(s) \/ CancelWoken(s)
  PROVE  TypeInv'
<1>1. UNCHANGED <<strategy, size, depth, batch, stats, peak, evicted, lost>>
  BY DEF CancelPutter, CancelWoken, config, history
<1>2. Numbers'
  BY <1>1 DEF TypeInv, Numbers
<1>3. Line'
  <2> USE DEF TypeInv, Line
  <2>1. CASE CancelPutter(s)
    <3>1. PICK i \in DOMAIN putters : putters[i] = s /\ putters' = RemoveAt(putters, i)
      BY <2>1 DEF CancelPutter
    <3>2. /\ putters' \in Seq(Senders) /\ IsInjective(putters')
          /\ Asleep' = Asleep \ {s} /\ woken' = woken
      BY <2>1, <3>1, RemovedFromLine DEF Asleep, CancelPutter
    <3>. QED BY <1>1, <3>2
  <2>2. CASE woken' = woken \ {s} /\ UNCHANGED putters
    BY <1>1, <2>2 DEF Asleep
  <2>3. CASE /\ putters # <<>> /\ putters' = Tail(putters) /\ s \in woken
             /\ woken' = (woken \ {s}) \cup {Head(putters)}
    BY <1>1, <2>3, WakeEffect
  <2>. QED BY <2>1, <2>2, <2>3 DEF CancelWoken
<1>. QED BY <1>2, <1>3 DEF TypeInv

LEMMA DrainerTypeInv ==
  ASSUME TypeInv, NEW d \in Drainers, DrainerStep(d)
  PROVE  TypeInv'
<1>1. PICK n \in 0..BatchSize :
         TakeNext(d, n) \/ (batch' = [batch EXCEPT ![d] = n] /\ UNCHANGED <<depth, putters, woken>>)
  <2>1. BatchSize \in 0..BatchSize /\ 0 \in 0..BatchSize
    BY QueueAssumption
  <2>2. batch[d] > 0 => batch[d] - 1 \in 0..BatchSize
    BY QueueAssumption DEF TypeInv, Numbers
  <2>. QED BY <2>1, <2>2 DEF DrainerStep, StartDrain, SendSucceeds, SendFails, CancelDrain
<1>2. /\ UNCHANGED <<strategy, size, peak, evicted>>
      /\ lost' \in {lost, lost + 1}
      /\ stats' \in {stats, [stats EXCEPT !.sent = @ + 1], [stats EXCEPT !.errors = @ + 1]}
  BY DEF DrainerStep, StartDrain, SendSucceeds, SendFails, CancelDrain, config, history
<1>3. Numbers'
  <2>1. depth' \in Nat /\ batch' \in [Drainers -> 0..BatchSize]
    BY <1>1, TakeNextType DEF TypeInv, Numbers
  <2>. QED BY <1>2, <2>1 DEF TypeInv, Numbers
<1>4. Line'
  <2>1. CASE TakeNext(d, n)
    BY <1>2, <2>1, TakeNextType DEF TypeInv, Line
  <2>2. CASE UNCHANGED <<putters, woken>>
    BY <1>2, <2>2 DEF TypeInv, Line, Asleep
  <2>. QED BY <1>1, <2>1, <2>2
<1>. QED BY <1>3, <1>4 DEF TypeInv

LEMMA NextTypeInv == TypeInv /\ [Next]_vars => TypeInv'
<1> SUFFICES ASSUME TypeInv, [Next]_vars PROVE TypeInv'
  OBVIOUS
<1>1. CASE UNCHANGED vars
  BY <1>1 DEF vars, config, history, TypeInv, Numbers, Line, Asleep
<1>. QED BY <1>1, EnqueueTypeInv, ResumeTypeInv, CancelTypeInv, DrainerTypeInv
     DEF Next, SenderStep

LEMMA TypeInvariant == Spec => []TypeInv
  BY InitTypeInv, NextTypeInv, PTL DEF Spec

\* Every reachable state of the queue is well typed.
THEOREM TypeCorrect == Spec => []TypeOK
<1>1. TypeInv => TypeOK
  BY DEF TypeInv, Numbers, Line, TypeOK
<1>. QED BY <1>1, TypeInvariant, PTL

-----------------------------------------------------------------------------
(* The limit.                                                              *)

LEMMA NextBounded == TypeInv /\ Bounded /\ [Next]_vars => Bounded'
<1> SUFFICES ASSUME TypeInv, Bounded, [Next]_vars PROVE Bounded'
  OBVIOUS
<1> USE DEF Bounded, config
<1>1. depth \in Nat /\ size \in Nat
  BY QueueAssumption DEF TypeInv, Numbers
<1>2. ASSUME NEW s \in Senders, Enqueue(s) PROVE Bounded'
  <2>1. strategy' = strategy /\ size' = size
    BY <1>2, EnqueueEffect
  <2>2. CASE Unlimited
    BY <2>1, <2>2 DEF Unlimited
  <2>3. CASE ~Unlimited
    <3>1. \/ ~IsFull /\ Put
          \/ depth' = depth
      BY <1>2, <2>3, EnqueueEffect
    <3>. QED BY <1>1, <2>1, <3>1 DEF Put, IsFull
  <2>. QED BY <2>2, <2>3
<1>3. ASSUME NEW s \in Senders, ResumeSender(s) PROVE Bounded'
  <2>1. size > 0
    BY <1>1, <1>3 DEF ResumeSender, TypeInv, Line
  <2>. QED BY <1>1, <1>3, <2>1 DEF ResumeSender, AsyncFull, Put
<1>4. ASSUME NEW s \in Senders, CancelPutter(s) \/ CancelWoken(s) PROVE Bounded'
  BY <1>4 DEF CancelPutter, CancelWoken
<1>5. ASSUME NEW d \in Drainers, DrainerStep(d) PROVE Bounded'
  <2>1. depth' \in {depth, depth - 1} /\ strategy' = strategy /\ size' = size
    BY <1>5 DEF DrainerStep, StartDrain, SendSucceeds, SendFails, CancelDrain, TakeNext
  <2>. QED BY <1>1, <2>1
<1>6. CASE UNCHANGED vars
  BY <1>6 DEF vars
<1>. QED BY <1>2, <1>3, <1>4, <1>5, <1>6 DEF Next, SenderStep

\* No strategy lets the queue grow past max_size, for any max_size but the 0
\* that an asyncio.Queue takes for no limit.
THEOREM QueueIsBounded == Spec => []Bounded
<1>1. Init => Bounded
  BY QueueAssumption DEF Init, Bounded
<1>. QED BY <1>1, NextBounded, TypeInvariant, PTL DEF Spec

-----------------------------------------------------------------------------
(* No wakeup is lost.                                                      *)

\* A drain that takes a message makes room for one sender and wakes one.
LEMMA TakeNextNoLostWakeup ==
  ASSUME TypeInv, NoLostWakeup, NEW d \in Drainers, NEW n \in 0..BatchSize, TakeNext(d, n),
         UNCHANGED config
  PROVE  NoLostWakeup'
<1> USE DEF NoLostWakeup, config
<1>1. CASE /\ depth > 0 /\ depth' = depth - 1
           /\ putters = <<>> /\ UNCHANGED <<putters, woken>>
  BY <1>1
<1>2. CASE /\ depth > 0 /\ depth' = depth - 1
           /\ putters # <<>> /\ putters' = Tail(putters)
           /\ woken' = woken \cup {Head(putters)}
  <2>1. putters # <<>> /\ woken' = woken \cup {Head(putters)}
    BY <1>2
  <2>2. Head(putters) \notin woken
    BY <1>2, WakeEffect
  <2>3. Cardinality(woken') = Cardinality(woken) + 1
    BY <2>1, <2>2, WokenFinite, FS_AddElement
  <2>4. depth + Cardinality(woken) >= size
    BY <2>1
  <2>. QED BY <1>2, <2>3, <2>4, WokenFinite, QueueAssumption DEF TypeInv, Numbers
<1>3. CASE UNCHANGED <<depth, putters, woken>>
  BY <1>3
<1>. QED BY <1>1, <1>2, <1>3, TakeNextEffect

LEMMA SenderNoLostWakeup ==
  ASSUME TypeInv, NoLostWakeup, NEW s \in Senders, SenderStep(s)
  PROVE  NoLostWakeup'
<1> USE DEF NoLostWakeup, config
<1>1. /\ depth \in Nat /\ size \in Nat /\ Cardinality(woken) \in Nat
      /\ IsFiniteSet(woken) /\ size' = size
  BY WokenFinite, QueueAssumption
     DEF TypeInv, Numbers, SenderStep, Enqueue, ResumeSender, CancelPutter, CancelWoken
<1>2. CASE Enqueue(s)
  <2>1. CASE Put /\ UNCHANGED putters
    <3>1. depth' = depth + 1 /\ putters' = putters /\ woken' = woken
      BY <1>2, <2>1, EnqueueEffect DEF Put
    <3>. QED BY <1>1, <3>1
  <2>2. CASE IsFull /\ UNCHANGED depth
    <3>1. depth >= size /\ depth' = depth /\ woken' = woken
      BY <1>1, <1>2, <2>2, EnqueueEffect DEF IsFull
    <3>2. depth + Cardinality(woken) >= size
      BY <1>1, <3>1
    <3>. QED BY <1>1, <3>1, <3>2
  <2>. QED BY <1>2, <2>1, <2>2, EnqueueEffect
<1>3. CASE ResumeSender(s)
  <2>1. Cardinality(woken') = Cardinality(woken) - 1
    BY <1>1, <1>3, FS_RemoveElement DEF ResumeSender
  <2>2. CASE AsyncFull
    <3>1. Cardinality(woken') \in Nat
      BY <1>1, <1>3, FS_RemoveElement, FS_CardinalityType DEF ResumeSender
    <3>2. depth' >= size /\ depth' = depth
      BY <1>3, <2>2 DEF ResumeSender, AsyncFull
    <3>. QED BY <1>1, <3>1, <3>2
  <2>3. CASE ~AsyncFull
    BY <1>1, <1>3, <2>1, <2>3 DEF ResumeSender, AsyncFull, Put
  <2>. QED BY <2>2, <2>3
<1>4. CASE CancelPutter(s)
  BY <1>4 DEF CancelPutter
<1>5. CASE CancelWoken(s)
  <2>1. Cardinality(woken \ {s}) = Cardinality(woken) - 1 /\ IsFiniteSet(woken \ {s})
    BY <1>1, <1>5, FS_RemoveElement DEF CancelWoken
  <2>2. depth' = depth
    BY <1>5 DEF CancelWoken
  <2>3. CASE AsyncFull
    <3>1. woken' = woken \ {s}
      BY <1>5, <2>3 DEF CancelWoken
    <3>2. Cardinality(woken') \in Nat
      BY <2>1, <3>1, FS_CardinalityType
    <3>3. depth' >= size
      BY <2>2, <2>3 DEF AsyncFull
    <3>. QED BY <1>1, <2>2, <3>2, <3>3
  <2>4. CASE putters = <<>>
    BY <1>5, <2>4 DEF CancelWoken
  <2>5. CASE ~AsyncFull /\ putters # <<>>
    <3>1. putters' = Tail(putters) /\ woken' = (woken \ {s}) \cup {Head(putters)}
      BY <1>5, <2>5 DEF CancelWoken
    <3>2. Head(putters) \notin woken \ {s}
      BY <2>5, <3>1, WakeEffect
    <3>3. Cardinality(woken') = Cardinality(woken) - 1 + 1
      BY <2>1, <3>1, <3>2, FS_AddElement
    <3>4. Cardinality(woken') = Cardinality(woken)
      BY <1>1, <3>3
    <3>. QED BY <1>1, <2>2, <2>5, <3>4
  <2>. QED BY <2>3, <2>4, <2>5
<1>. QED BY <1>2, <1>3, <1>4, <1>5 DEF SenderStep

LEMMA DrainerNoLostWakeup ==
  ASSUME TypeInv, NoLostWakeup, NEW d \in Drainers, DrainerStep(d)
  PROVE  NoLostWakeup'
<1>1. CASE StartDrain(d)
  BY <1>1, TakeNextNoLostWakeup, QueueAssumption DEF StartDrain
<1>2. CASE SendSucceeds(d)
  <2>1. TakeNext(d, batch[d] - 1) /\ batch[d] - 1 \in 0..BatchSize
    BY <1>2, QueueAssumption DEF SendSucceeds, TypeInv, Numbers
  <2>. QED BY <1>2, <2>1, TakeNextNoLostWakeup DEF SendSucceeds
<1>3. CASE SendFails(d) \/ CancelDrain(d)
  BY <1>3 DEF SendFails, CancelDrain, NoLostWakeup, config
<1>. QED BY <1>1, <1>2, <1>3 DEF DrainerStep

\* A sender blocked by BLOCK_SENDER is never forgotten: while any sleeps in
\* put(), the free places are all promised to senders already woken.
THEOREM WakeupsAreNotLost == Spec => []NoLostWakeup
<1>1. Init => NoLostWakeup
  BY DEF Init, NewStats, NoLostWakeup
<1>2. TypeInv /\ NoLostWakeup /\ [Next]_vars => NoLostWakeup'
  <2> SUFFICES ASSUME TypeInv, NoLostWakeup, [Next]_vars PROVE NoLostWakeup'
    OBVIOUS
  <2>1. CASE UNCHANGED vars
    BY <2>1 DEF vars, config, NoLostWakeup
  <2>. QED BY <2>1, SenderNoLostWakeup, DrainerNoLostWakeup DEF Next
<1>. QED BY <1>1, <1>2, TypeInvariant, PTL DEF Spec

-----------------------------------------------------------------------------
(* The high water mark.                                                    *)

\* A blocked sender recorded a full queue before it went to sleep.
HighWaterInv ==
  /\ HighWaterLagsByOne
  /\ depth <= peak
  /\ putters # <<>> \/ woken # {} => stats.hwm >= size

LEMMA NextHighWaterInv == TypeInv /\ HighWaterInv /\ [Next]_vars => HighWaterInv'
<1> SUFFICES ASSUME TypeInv, HighWaterInv, [Next]_vars PROVE HighWaterInv'
  OBVIOUS
<1> USE DEF HighWaterInv, HighWaterLagsByOne, config
<1>1. /\ depth \in Nat /\ peak \in Nat /\ size \in Nat /\ stats.hwm \in Nat
      /\ stats \in [queued : Nat, dropped : Nat, sent : Nat, errors : Nat, hwm : Nat]
  BY QueueAssumption DEF TypeInv, Numbers
<1>2. ASSUME NEW s \in Senders, Enqueue(s) PROVE HighWaterInv'
  <2>1. stats'.hwm = Larger(stats.hwm, depth) /\ UNCHANGED <<size, woken>>
    BY <1>2, EnqueueEffect
  <2>2. CASE (~IsFull \/ Unlimited) /\ Put /\ UNCHANGED putters
    BY <1>1, <2>1, <2>2 DEF Put, Larger, IsFull, Unlimited
  <2>3. CASE IsFull /\ UNCHANGED <<depth, peak>>
    BY <1>1, <2>1, <2>3 DEF IsFull, Larger
  <2>. QED BY <1>2, <2>2, <2>3, EnqueueEffect
<1>3. ASSUME NEW s \in Senders, ResumeSender(s) PROVE HighWaterInv'
  <2>1. stats'.hwm = stats.hwm /\ stats.hwm >= size /\ size' = size
    BY <1>1, <1>3 DEF ResumeSender
  <2>2. CASE AsyncFull
    BY <1>1, <1>3, <2>1, <2>2 DEF ResumeSender
  <2>3. CASE ~AsyncFull
    <3>1. size > 0 /\ depth < size
      BY <1>1, <1>3, <2>3 DEF ResumeSender, AsyncFull, TypeInv, Line
    <3>. QED BY <1>1, <1>3, <2>1, <2>3, <3>1 DEF ResumeSender, Put, Larger
  <2>. QED BY <2>2, <2>3
<1>4. ASSUME NEW s \in Senders, CancelPutter(s) \/ CancelWoken(s) PROVE HighWaterInv'
  <2>1. UNCHANGED <<depth, peak, stats, size>> /\ (putters # <<>> \/ woken # {})
    BY <1>4 DEF CancelPutter, CancelWoken, history
  <2>. QED BY <2>1
<1>5. ASSUME NEW d \in Drainers, DrainerStep(d) PROVE HighWaterInv'
  <2>1. stats'.hwm = stats.hwm /\ UNCHANGED <<peak, size>>
    BY <1>1, <1>5
       DEF DrainerStep, StartDrain, SendSucceeds, SendFails, CancelDrain, history
  <2>2. /\ depth' \in {depth, depth - 1}
        /\ putters' # <<>> \/ woken' # {} => putters # <<>> \/ woken # {}
    BY <1>5 DEF DrainerStep, StartDrain, SendSucceeds, SendFails, CancelDrain, TakeNext,
                WakePutter
  <2>. QED BY <1>1, <2>1, <2>2
<1>6. CASE UNCHANGED vars
  BY <1>6 DEF vars, history
<1>. QED BY <1>2, <1>3, <1>4, <1>5, <1>6 DEF Next, SenderStep

\* The recorded high water mark is the peak depth or one less.
THEOREM HighWaterIsOff == Spec => []HighWaterLagsByOne
<1>1. Init => HighWaterInv
  BY DEF Init, NewStats, HighWaterInv, HighWaterLagsByOne
<1>2. HighWaterInv => HighWaterLagsByOne
  BY DEF HighWaterInv
<1>. QED BY <1>1, <1>2, NextHighWaterInv, TypeInvariant, PTL DEF Spec

-----------------------------------------------------------------------------
(* Conservation.                                                           *)

Accepted == stats.queued + (IF strategy = "drop_oldest" THEN stats.dropped ELSE 0)

\* One call of enqueue: what it adds to the accepted messages it adds to the
\* queue or to the evicted ones.
LEMMA EnqueueConserves ==
  ASSUME TypeInv, NEW s \in Senders, Enqueue(s)
  PROVE  /\ Accepted' - Accepted = (depth' - depth) + (evicted' - evicted)
         /\ stats'.sent = stats.sent /\ stats'.errors = stats.errors
<1> USE DEF TypeInv, Numbers
<1>1. /\ Seen \in [queued : Nat, dropped : Nat, sent : Nat, errors : Nat, hwm : Nat]
      /\ Seen.queued = stats.queued /\ Seen.dropped = stats.dropped
      /\ Seen.sent = stats.sent /\ Seen.errors = stats.errors
  BY DEF Seen, Larger
<1>2. strategy' = strategy /\ depth \in Nat /\ size \in Nat
  BY QueueAssumption DEF Enqueue, config
<1>3. CASE EnqueueDropOldest
  <2>1. /\ depth' - depth + (evicted' - evicted) = 1
        /\ strategy = "drop_oldest"
        /\ stats' \in {[Seen EXCEPT !.dropped = @ + 1], [Seen EXCEPT !.queued = @ + 1]}
    BY <1>2, <1>3 DEF EnqueueDropOldest, Put
  <2>. QED BY <1>1, <1>2, <2>1 DEF Accepted
<1>4. CASE EnqueueDropNewest \/ EnqueueBlockSender(s) \/ EnqueueDisconnect
  <2>1. strategy # "drop_oldest" /\ evicted' = evicted
    BY <1>4 DEF EnqueueDropNewest, EnqueueBlockSender, EnqueueDisconnect
  <2>2. \/ depth' = depth /\ stats' \in {Seen, [Seen EXCEPT !.dropped = @ + 1]}
        \/ depth' = depth + 1 /\ stats' = [Seen EXCEPT !.queued = @ + 1]
    BY <1>4 DEF EnqueueDropNewest, EnqueueBlockSender, EnqueueDisconnect, Put
  <2>. QED BY <1>1, <1>2, <2>1, <2>2 DEF Accepted
<1>. QED BY <1>3, <1>4 DEF Enqueue

\* The loop of drain moves a message from the queue into the hands of d.
LEMMA TakeNextConserves ==
  ASSUME TypeInv, NEW d \in Drainers, NEW n \in 0..BatchSize, TakeNext(d, n)
  PROVE  /\ depth' + Cardinality(Sending')
              = depth + Cardinality(Sending) - (IF d \in Sending THEN 1 ELSE 0)
         /\ depth' \in Nat /\ Cardinality(Sending') \in Nat
<1> USE DEF TypeInv, Numbers
<1>1. /\ Cardinality(Sending \ {d}) = Cardinality(Sending) - (IF d \in Sending THEN 1 ELSE 0)
      /\ IsFiniteSet(Sending \ {d}) /\ Cardinality(Sending) \in Nat
      /\ Cardinality(Sending \ {d}) \in Nat
  BY SendingFinite, FS_RemoveElement, FS_CardinalityType
<1>2. CASE /\ n > 0 /\ depth > 0 /\ depth' = depth - 1
           /\ batch' = [batch EXCEPT ![d] = n]
  <2>1. Sending' = (Sending \ {d}) \cup {d}
    BY <1>2, QueueAssumption DEF Sending
  <2>2. Cardinality(Sending') = Cardinality(Sending \ {d}) + 1
    BY <1>1, <2>1, FS_AddElement
  <2>. QED BY <1>1, <1>2, <2>2
<1>3. CASE batch' = [batch EXCEPT ![d] = 0] /\ UNCHANGED depth
  <2>1. Sending' = Sending \ {d}
    BY <1>3, QueueAssumption DEF Sending
  <2>. QED BY <1>1, <1>3, <2>1
<1>. QED BY <1>2, <1>3, TakeNextEffect

LEMMA DrainerConserves ==
  ASSUME TypeInv, Conservation, NEW d \in Drainers, DrainerStep(d)
  PROVE  Conservation'
<1> USE DEF TypeInv, Numbers
<1>1. /\ depth \in Nat /\ lost \in Nat /\ evicted \in Nat
      /\ Cardinality(Sending) \in Nat /\ IsFiniteSet(Sending)
      /\ strategy' = strategy /\ evicted' = evicted
  BY SendingFinite DEF DrainerStep, StartDrain, SendSucceeds, SendFails, CancelDrain, history, config
<1>2. Accepted = depth + Cardinality(Sending) + stats.sent + stats.errors + evicted + lost
  BY DEF Conservation, Accepted
<1>3. SUFFICES Accepted' = depth' + Cardinality(Sending') + stats'.sent + stats'.errors
                           + evicted' + lost'
  BY DEF Conservation, Accepted
<1>4. CASE StartDrain(d)
  <2>1. TakeNext(d, BatchSize) /\ BatchSize \in 0..BatchSize /\ d \notin Sending
    BY <1>4, QueueAssumption DEF StartDrain, Sending
  <2>2. UNCHANGED <<stats, lost>> /\ Accepted' = Accepted
    BY <1>1, <1>4 DEF StartDrain, history, Accepted
  <2>3. depth' + Cardinality(Sending') = depth + Cardinality(Sending)
    BY <1>1, <2>1, TakeNextConserves
  <2>4. depth' \in Nat /\ Cardinality(Sending') \in Nat
    BY <2>1, TakeNextConserves
  <2>. QED BY <1>1, <1>2, <2>2, <2>3, <2>4
<1>5. CASE SendSucceeds(d)
  <2>1. TakeNext(d, batch[d] - 1) /\ batch[d] - 1 \in 0..BatchSize /\ d \in Sending
    BY <1>5, QueueAssumption DEF SendSucceeds, Sending
  <2>2. /\ stats' = [stats EXCEPT !.sent = @ + 1] /\ lost' = lost
        /\ Accepted' = Accepted
    BY <1>1, <1>5 DEF SendSucceeds, history, Accepted
  <2>3. depth' + Cardinality(Sending') = depth + Cardinality(Sending) - 1
    BY <1>1, <2>1, TakeNextConserves
  <2>4. depth' \in Nat /\ Cardinality(Sending') \in Nat
    BY <2>1, TakeNextConserves
  <2>. QED BY <1>1, <1>2, <2>2, <2>3, <2>4
<1>6. CASE SendFails(d) \/ CancelDrain(d)
  <2>1. batch' = [batch EXCEPT ![d] = 0] /\ d \in Sending /\ depth' = depth
    BY <1>6 DEF SendFails, CancelDrain, Sending
  <2>2. Sending' = Sending \ {d}
    BY <2>1 DEF Sending
  <2>3. Cardinality(Sending') = Cardinality(Sending) - 1
    BY <1>1, <2>1, <2>2, FS_RemoveElement
  <2>4. /\ stats'.sent = stats.sent /\ Accepted' = Accepted
        /\ stats'.errors + lost' = stats.errors + lost + 1
        /\ stats'.errors \in Nat /\ lost' \in Nat
    BY <1>1, <1>6 DEF SendFails, CancelDrain, history, Accepted
  <2>. QED BY <1>1, <1>2, <2>1, <2>3, <2>4
<1>. QED BY <1>4, <1>5, <1>6 DEF DrainerStep

LEMMA SenderConserves ==
  ASSUME TypeInv, Conservation, NEW s \in Senders, SenderStep(s)
  PROVE  Conservation'
<1> USE DEF TypeInv, Numbers
<1>1. /\ depth \in Nat /\ lost \in Nat /\ evicted \in Nat
      /\ Cardinality(Sending) \in Nat /\ Sending' = Sending /\ strategy' = strategy
      /\ lost' = lost
  BY SendingFinite
     DEF SenderStep, Enqueue, ResumeSender, CancelPutter, CancelWoken, history, config, Sending
<1>2. Accepted = depth + Cardinality(Sending) + stats.sent + stats.errors + evicted + lost
  BY DEF Conservation, Accepted
<1>3. SUFFICES Accepted' = depth' + Cardinality(Sending') + stats'.sent + stats'.errors
                           + evicted' + lost'
  BY DEF Conservation, Accepted
<1>4. Accepted \in Nat
  BY DEF Accepted
<1>5. CASE Enqueue(s)
  <2>1. TypeInv'
    BY <1>5, EnqueueTypeInv
  <2>2. Accepted' \in Nat /\ depth' \in Nat /\ evicted' \in Nat
    BY <2>1 DEF Accepted
  <2>3. /\ Accepted' - Accepted = (depth' - depth) + (evicted' - evicted)
        /\ stats'.sent = stats.sent /\ stats'.errors = stats.errors
    BY <1>5, EnqueueConserves
  <2>4. stats.sent \in Nat /\ stats.errors \in Nat
    OBVIOUS
  <2>. QED BY <1>1, <1>2, <1>4, <2>2, <2>3, <2>4
<1>6. CASE ResumeSender(s)
  <2>1. evicted' = evicted
    BY <1>6 DEF ResumeSender
  <2>2. \/ UNCHANGED <<depth, stats>>
        \/ depth' = depth + 1 /\ stats' = [stats EXCEPT !.queued = @ + 1]
    BY <1>6 DEF ResumeSender, Put
  <2>3. /\ Accepted' - Accepted = depth' - depth
        /\ stats'.sent = stats.sent /\ stats'.errors = stats.errors
    BY <1>1, <2>2 DEF Accepted
  <2>4. Accepted' \in Nat /\ depth' \in Nat
    BY <1>1, <2>2 DEF Accepted
  <2>5. stats.sent \in Nat /\ stats.errors \in Nat
    OBVIOUS
  <2>. QED BY <1>1, <1>2, <1>4, <2>1, <2>3, <2>4, <2>5
<1>7. CASE CancelPutter(s) \/ CancelWoken(s)
  BY <1>1, <1>2, <1>7 DEF CancelPutter, CancelWoken, history, Accepted
<1>. QED BY <1>5, <1>6, <1>7 DEF SenderStep

\* No message accepted by enqueue() disappears from the books, except in the
\* hands of a cancelled drain.
THEOREM MessagesAreConserved == Spec => []Conservation
<1>1. Init => Conservation
  <2> SUFFICES ASSUME Init PROVE Conservation
    OBVIOUS
  <2>1. Sending = {}
    BY DEF Init, NewStats, Sending
  <2>2. Cardinality(Sending) = 0
    BY <2>1, FS_EmptySet
  <2>. QED BY <2>2 DEF Init, NewStats, Conservation
<1>2. TypeInv /\ Conservation /\ [Next]_vars => Conservation'
  <2> SUFFICES ASSUME TypeInv, Conservation, [Next]_vars PROVE Conservation'
    OBVIOUS
  <2>1. CASE UNCHANGED vars
    BY <2>1 DEF vars, config, history, Conservation, Sending
  <2>. QED BY <2>1, SenderConserves, DrainerConserves DEF Next
<1>. QED BY <1>1, <1>2, TypeInvariant, PTL DEF Spec

-----------------------------------------------------------------------------
(* What messages_dropped says.                                             *)

\* Messages that left the queue for a drain.
Taken == Cardinality(Sending) + stats.sent + stats.errors + lost

\* With DROP_OLDEST messages_dropped hides no eviction, and it overstates them
\* by one for each time the queue was filled, which takes a drain each but the
\* first.
DropsAreOverstated ==
  strategy = "drop_oldest" =>
    /\ evicted <= stats.dropped
    /\ stats.dropped <= evicted + Taken + (IF depth = size THEN 1 ELSE 0)

\* The call that fills the queue is the only one that is counted as a drop and
\* evicts nothing, and the only one that is queued without being counted so.
DropInv ==
  strategy = "drop_oldest" =>
    /\ evicted <= stats.dropped
    /\ depth <= stats.queued + (IF depth = size THEN 1 ELSE 0)

LEMMA NextDropInv == TypeInv /\ Bounded /\ DropInv /\ [Next]_vars => DropInv'
<1> SUFFICES ASSUME TypeInv, Bounded, DropInv, [Next]_vars, strategy' = "drop_oldest"
             PROVE  DropInv'
  BY DEF DropInv
<1>1. /\ strategy = "drop_oldest" /\ size' = size
      /\ depth \in Nat /\ size \in Nat /\ evicted \in Nat
      /\ stats \in [queued : Nat, dropped : Nat, sent : Nat, errors : Nat, hwm : Nat]
  <2>1. UNCHANGED <<strategy, size>>
    BY DEF Next, SenderStep, Enqueue, ResumeSender, CancelPutter, CancelWoken, DrainerStep,
           StartDrain, SendSucceeds, SendFails, CancelDrain, config, vars
  <2>. QED BY <2>1, QueueAssumption DEF TypeInv, Numbers
<1>2. depth <= size /\ evicted <= stats.dropped
      /\ depth <= stats.queued + (IF depth = size THEN 1 ELSE 0)
  BY <1>1 DEF Bounded, DropInv
<1>3. ASSUME NEW s \in Senders, Enqueue(s) PROVE DropInv'
  <2>1. EnqueueDropOldest
    BY <1>1, <1>3 DEF Enqueue, EnqueueDropNewest, EnqueueBlockSender, EnqueueDisconnect
  <2>2. /\ Seen \in [queued : Nat, dropped : Nat, sent : Nat, errors : Nat, hwm : Nat]
        /\ Seen.queued = stats.queued /\ Seen.dropped = stats.dropped
    BY <1>1 DEF Seen, Larger
  <2>3. CASE depth = size
    BY <1>1, <1>2, <2>1, <2>2, <2>3 DEF EnqueueDropOldest, IsFull, DropInv
  <2>4. CASE depth < size
    BY <1>1, <1>2, <2>1, <2>2, <2>4 DEF EnqueueDropOldest, IsFull, Put, DropInv
  <2>. QED BY <1>1, <1>2, <2>3, <2>4
<1>4. ASSUME NEW s \in Senders, ResumeSender(s) PROVE DropInv'
  BY <1>1, <1>2, <1>4 DEF ResumeSender, AsyncFull, Put, TypeInv, DropInv
<1>5. ASSUME NEW s \in Senders, CancelPutter(s) \/ CancelWoken(s) PROVE DropInv'
  BY <1>1, <1>2, <1>5 DEF CancelPutter, CancelWoken, history, DropInv
<1>6. ASSUME NEW d \in Drainers, DrainerStep(d) PROVE DropInv'
  <2>1. depth' = depth \/ depth' = depth - 1
    BY <1>6 DEF DrainerStep, StartDrain, SendSucceeds, SendFails, CancelDrain, TakeNext
  <2>2. evicted' = evicted /\ stats'.queued = stats.queued /\ stats'.dropped = stats.dropped
    BY <1>1, <1>6
       DEF DrainerStep, StartDrain, SendSucceeds, SendFails, CancelDrain, history
  <2>. QED BY <1>1, <1>2, <2>1, <2>2 DEF DropInv
<1>7. CASE UNCHANGED vars
  BY <1>1, <1>2, <1>7 DEF vars, history, DropInv
<1>. QED BY <1>3, <1>4, <1>5, <1>6, <1>7 DEF Next, SenderStep

\* How wrong messages_dropped can be, where DropsAreEvictions fails: never too
\* small, and never by more than the messages that were taken, plus one.
THEOREM DropCountIsOff == Spec => []DropsAreOverstated
<1>1. Init => DropInv
  BY QueueAssumption DEF Init, NewStats, DropInv
<1>2. TypeInv /\ Conservation /\ DropInv => DropsAreOverstated
  BY SendingFinite DEF TypeInv, Numbers, Conservation, DropInv, Taken, DropsAreOverstated
<1>. QED BY <1>1, <1>2, NextDropInv, QueueIsBounded, MessagesAreConserved, TypeInvariant, PTL
         DEF Spec

-----------------------------------------------------------------------------
(* The controller.                                                         *)

LEMMA QueueSteps == [ControllerNext]_controllerVars => [Next]_vars
<1> SUFFICES ASSUME [ControllerNext]_controllerVars PROVE [Next]_vars
  OBVIOUS
<1>1. CASE QueueStep
  BY <1>1 DEF QueueStep, Next, DrainerStep
<1>2. ASSUME NEW d \in Drainers, KeeperLeaves(d) \/ GetQueue(d) \/ Drain(d)
      PROVE  [Next]_vars
  BY <1>2 DEF KeeperLeaves, RemoveConnection, GetQueue, Drain, Next, DrainerStep
<1>3. CASE NamesakeLeaves \/ NamesakeConnects
  BY <1>3 DEF NamesakeLeaves, RemoveConnection, NamesakeConnects
<1>4. CASE UNCHANGED controllerVars
  BY <1>4 DEF controllerVars
<1>. QED BY <1>1, <1>2, <1>3, <1>4 DEF ControllerNext

\* Whatever add_connection and remove_connection do to the entries, and
\* whoever calls drain() on which reference, each queue behaves as SendQueue
\* says: every theorem about Spec is one about the controller's queues.
THEOREM ControllerKeepsQueue == ControllerSpec => QueueSpec
<1>1. ControllerInit => Init
  BY DEF ControllerInit
<1>. QED BY <1>1, QueueSteps, PTL DEF ControllerSpec, QueueSpec, Spec

\* Every reachable state of the controller is well typed.
THEOREM ControllerTypeCorrect == ControllerSpec => []ControllerTypeOK
<1> DEFINE Entries == entry \in {"ours", "another", "none"} /\ holders \subseteq Drainers
<1>1. ControllerInit => Entries
  BY ControllerAssumption DEF ControllerInit
<1>2. Entries /\ [ControllerNext]_controllerVars => Entries'
  BY DEF ControllerNext, QueueStep, KeeperLeaves, RemoveConnection, GetQueue, Drain,
         NamesakeLeaves, NamesakeConnects, controllerVars
<1>3. TypeOK /\ Entries => ControllerTypeOK
  BY DEF ControllerTypeOK
<1>. QED BY <1>1, <1>2, <1>3, ControllerKeepsQueue, TypeCorrect, PTL
         DEF ControllerSpec, QueueSpec

LEMMA ThresholdType ==
  /\ size \in Nat => (size * WarnPercent) \div 100 \in Nat
  /\ size \in Nat => /\ (size * WarnPercent) \div 100 <= size
                     /\ 100 * ((size * WarnPercent) \div 100) <= size * WarnPercent
                     /\ size * WarnPercent < 100 * ((size * WarnPercent) \div 100) + 100
<1> SUFFICES ASSUME size \in Nat
             PROVE  /\ (size * WarnPercent) \div 100 \in Nat
                    /\ (size * WarnPercent) \div 100 <= size
                    /\ 100 * ((size * WarnPercent) \div 100) <= size * WarnPercent
                    /\ size * WarnPercent < 100 * ((size * WarnPercent) \div 100) + 100
  OBVIOUS
<1> DEFINE p == size * WarnPercent
<1>1. p \in Nat /\ p <= size * 100
  <2>1. WarnPercent \in Nat /\ 100 - WarnPercent \in Nat
    BY ControllerAssumption
  <2>2. size * (100 - WarnPercent) \in Nat /\ size * WarnPercent \in Nat
    BY <2>1
  <2>3. size * (100 - WarnPercent) = size * 100 - size * WarnPercent
    BY <2>1
  <2>. QED BY <2>1, <2>2, <2>3
<1> HIDE DEF p
<1>2. p \div 100 \in Nat /\ 100 * (p \div 100) <= p /\ p < 100 * (p \div 100) + 100
  BY <1>1
<1>. QED BY <1>1, <1>2 DEF p

\* While nobody has been woken, a queue with a sender asleep is full, so the
\* threshold, which is at most max_size, reports it; truncating the threshold
\* reports queues less than one message short of the fraction.
THEOREM LagReportsAreRight == ControllerSpec => []LagReportsHold
<1>1. TypeOK /\ NoLostWakeup => LagReportsHold
  <2> SUFFICES ASSUME TypeOK, NoLostWakeup PROVE LagReportsHold
    OBVIOUS
  <2> DEFINE threshold == (size * WarnPercent) \div 100
  <2>1. depth \in Nat /\ size \in Nat
    BY QueueAssumption DEF TypeOK
  <2>2. threshold \in Nat /\ threshold <= size
        /\ size * WarnPercent < 100 * threshold + 100 /\ size * WarnPercent \in Nat
    BY <2>1, ThresholdType, ControllerAssumption
  <2> HIDE DEF threshold
  <2>3. IsLagging <=> entry = "ours" /\ depth >= threshold
    BY DEF IsLagging, threshold
  <2>4. ASSUME putters # <<>>, woken = {} PROVE depth >= threshold
    <3>1. Cardinality(woken) = 0
      BY <2>4, FS_EmptySet
    <3>. QED BY <2>1, <2>2, <2>4, <3>1 DEF NoLostWakeup
  <2>5. ASSUME depth >= threshold PROVE (depth + 1) * 100 >= size * WarnPercent
    BY <2>1, <2>2, <2>5
  <2>. QED BY <2>3, <2>4, <2>5 DEF LagReportsHold
<1>. QED BY <1>1, ControllerKeepsQueue, TypeCorrect, WakeupsAreNotLost, PTL DEF QueueSpec
=============================================================================
