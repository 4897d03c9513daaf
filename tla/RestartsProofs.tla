--------------------------- MODULE RestartsProofs ---------------------------
(* Theorems about ReconnectPolicy and Restarts, for any policy, lifespans  *)
(* and clients.                                                            *)
EXTENDS Restarts, TLAPS

-----------------------------------------------------------------------------
(* delay_for.                                                              *)

LEMMA ProductMonotone ==
  ASSUME NEW a \in Nat, NEW b \in Nat, a <= b, NEW k \in Nat
  PROVE  a * k \in Nat /\ b * k \in Nat /\ a * k <= b * k
<1>1. PICK d \in Nat : b = a + d
  <2>1. b - a \in Nat /\ b = a + (b - a)
    OBVIOUS
  <2>. QED BY <2>1
<1>2. a * k \in Nat /\ d * k \in Nat
  BY <1>1
<1>3. b * k = a * k + d * k
  BY <1>1
<1>. QED BY <1>2, <1>3

\* The jitter is no larger than the delay, and grows with it.
LEMMA JitterBounds ==
  ASSUME NEW r \in Nat, r <= MaxDelay
  PROVE  /\ Jitter(r) \in Nat /\ Jitter(MaxDelay) \in Nat
         /\ Jitter(r) <= r
         /\ Jitter(r) <= Jitter(MaxDelay)
<1>1. MaxDelay \in Nat /\ JitterPercent \in Nat /\ JitterPercent <= 100
  BY PolicyAssumption
<1>2. r * JitterPercent \in Nat /\ MaxDelay * JitterPercent \in Nat
      /\ r * JitterPercent <= MaxDelay * JitterPercent
  BY <1>1, ProductMonotone
<1>3. JitterPercent * r <= 100 * r
  BY <1>1, ProductMonotone
<1>4. r * JitterPercent = JitterPercent * r
  BY <1>1
<1>. QED BY <1>1, <1>2, <1>3, <1>4 DEF Jitter

LEMMA MaxWaitType == MaxDelay \in Nat /\ Jitter(MaxDelay) \in Nat /\ MaxWait \in Nat
<1>1. MaxDelay \in Nat /\ MaxDelay <= MaxDelay
  BY PolicyAssumption
<1>2. Jitter(MaxDelay) \in Nat
  BY <1>1, JitterBounds
<1>. QED BY <1>1, <1>2 DEF MaxWait

\* delay_for never returns a negative delay, and exceeds max_delay_s by no more
\* than the jitter of max_delay_s; for every attempt whose power is a float.
THEOREM DelayIsBounded ==
  ASSUME NEW a \in 0..MaxExponent
  PROVE  DelayFor(a) \subseteq 0..MaxWait
<1> DEFINE raw == RawDelay(a)
<1>1. raw \in Nat /\ raw <= MaxDelay
  BY PolicyAssumption DEF RawDelay
<1> HIDE DEF raw
<1>2. /\ Jitter(raw) \in Nat /\ Jitter(MaxDelay) \in Nat
      /\ Jitter(raw) <= raw /\ Jitter(raw) <= Jitter(MaxDelay)
  BY <1>1, JitterBounds
<1>3. MaxDelay \in Nat
  BY PolicyAssumption
<1>4. (raw - Jitter(raw)) .. (raw + Jitter(raw)) \subseteq 0..MaxWait
  BY <1>1, <1>2, <1>3 DEF MaxWait
<1>. QED BY <1>4 DEF DelayFor, raw

-----------------------------------------------------------------------------
(* Type correctness, and when a client stops.                              *)

\* A client that is still trying has attempts left to be refused.
LimitInv ==
  \A c \in Clients :
    client[c] \in {"waiting", "connected"} /\ limit[c] > 0 => attempt[c] <= limit[c]

LEMMA ExponentType == MaxExponent \in Nat
  BY Zenon, PolicyAssumption DEF PolicyAssumption

ClientInv == TypeOK /\ StopsAtLimit /\ LimitInv

LEMMA InitClientInv == Init => ClientInv
<1> SUFFICES ASSUME Init PROVE ClientInv
  OBVIOUS
<1>1. MaxWait \in Nat
  BY MaxWaitType
<1>2. MaxExponent \in Nat
  BY ExponentType
<1>3. 0 \in 0..(MaxExponent + 1) /\ 0 \in 0..MaxWait
  BY <1>1, <1>2
<1>4. home \in [Clients -> {{}} \cup {{l} : l \in Lifespans}]
  BY DEF Init
<1>5. TypeOK
  BY <1>3, <1>4 DEF Init, TypeOK
<1>6. \A c \in Clients : client[c] = "waiting" /\ attempt[c] = 0 /\ limit[c] \in Nat
  BY LimitsAssumption DEF Init
<1>7. StopsAtLimit /\ LimitInv
  BY <1>6 DEF StopsAtLimit, LimitInv
<1>. QED BY <1>5, <1>7 DEF ClientInv

LEMMA RetryKeepsClientInv ==
  ASSUME ClientInv, NEW c \in Clients, client[c] \in {"waiting", "connected"},
         Retry(c), UNCHANGED serverVars
  PROVE  ClientInv'
<1>0. attempt[c] \in 0..(MaxExponent + 1) /\ limit[c] \in Limits
  BY DEF ClientInv, TypeOK
<1>1. /\ attempt[c] \in Nat /\ attempt[c] <= MaxExponent + 1
      /\ limit[c] \in Nat /\ MaxExponent \in Nat
      /\ limit[c] > 0 => attempt[c] <= limit[c]
  <2>1. attempt[c] \in Nat /\ attempt[c] <= MaxExponent + 1 /\ MaxExponent \in Nat
    BY <1>0, ExponentType
  <2>2. limit[c] \in Nat
    BY <1>0, LimitsAssumption DEF LimitsAssumption
  <2>3. limit[c] > 0 => attempt[c] <= limit[c]
    BY DEF ClientInv, LimitInv
  <2>. QED BY <2>1, <2>2, <2>3
<1>2. CASE client' = [client EXCEPT ![c] = "gone"] /\ UNCHANGED <<attempt, wait>>
           /\ ~ShouldRetry(limit[c], attempt[c])
  <2>1. limit[c] > 0 /\ attempt[c] = limit[c]
    BY <1>1, <1>2 DEF ShouldRetry
  <2>2. TypeOK'
    BY <1>2 DEF Retry, ClientInv, TypeOK, serverVars
  <2>3. StopsAtLimit' /\ LimitInv'
    BY <1>2, <2>1 DEF Retry, ClientInv, TypeOK, StopsAtLimit, LimitInv
  <2>. QED BY <2>2, <2>3 DEF ClientInv
<1>3. CASE client' = [client EXCEPT ![c] = "failed"] /\ UNCHANGED <<attempt, wait>>
           /\ Overflows(attempt[c]) /\ ShouldRetry(limit[c], attempt[c])
  <2>1. attempt[c] = MaxExponent + 1 /\ (limit[c] = 0 \/ attempt[c] < limit[c])
    BY <1>1, <1>3 DEF Overflows, ShouldRetry
  <2>2. TypeOK'
    BY <1>3 DEF Retry, ClientInv, TypeOK, serverVars
  <2>3. StopsAtLimit' /\ LimitInv'
    BY <1>3, <2>1 DEF Retry, ClientInv, TypeOK, StopsAtLimit, LimitInv
  <2>. QED BY <2>2, <2>3 DEF ClientInv
<1>4. CASE /\ client' = [client EXCEPT ![c] = "waiting"]
           /\ attempt' = [attempt EXCEPT ![c] = @ + 1]
           /\ \E d \in DelayFor(attempt[c]) : wait' = [wait EXCEPT ![c] = d]
           /\ ~Overflows(attempt[c]) /\ ShouldRetry(limit[c], attempt[c])
  <2>1. attempt[c] \in 0..MaxExponent
    BY <1>1, <1>4 DEF Overflows
  <2>2. PICK d \in 0..MaxWait : wait' = [wait EXCEPT ![c] = d]
    BY <1>4, <2>1, DelayIsBounded
  <2>3. attempt[c] + 1 \in 0..(MaxExponent + 1)
    BY <1>1, <2>1
  <2>4. TypeOK'
    BY <1>4, <2>2, <2>3 DEF Retry, ClientInv, TypeOK, serverVars
  <2>5. limit[c] > 0 => attempt[c] + 1 <= limit[c]
    BY <1>1, <1>4 DEF ShouldRetry
  <2>6. StopsAtLimit' /\ LimitInv'
    BY <1>4, <2>5 DEF Retry, ClientInv, TypeOK, StopsAtLimit, LimitInv
  <2>. QED BY <2>4, <2>6 DEF ClientInv
<1>. QED BY <1>2, <1>3, <1>4 DEF Retry

LEMMA NextClientInv == ClientInv /\ [Next]_vars => ClientInv'
<1> SUFFICES ASSUME ClientInv, [Next]_vars PROVE ClientInv'
  OBVIOUS
<1>1. ASSUME UNCHANGED clientVars, TypeOK' PROVE ClientInv'
  BY <1>1 DEF clientVars, ClientInv, StopsAtLimit, LimitInv
<1>2. ASSUME NEW l \in Lifespans, LifespanStep(l) PROVE ClientInv'
  <2>1. UNCHANGED clientVars
    BY <1>2 DEF LifespanStep, Enter, BeginShutdown, EndShutdown, AbortShutdown
  <2>2. TypeOK'
    <3>1. UNCHANGED <<client, attempt, wait, limit>>
      BY <2>1 DEF clientVars
    <3>2. CASE Enter(l)
      BY <3>1, <3>2 DEF Enter, ClientInv, TypeOK
    <3>3. CASE BeginShutdown(l)
      <4>1. Registered(l) \in SUBSET Clients
        BY DEF Registered
      <4>. QED BY <3>1, <3>3, <4>1 DEF BeginShutdown, Leave, ClientInv, TypeOK
    <3>4. CASE EndShutdown(l)
      BY <3>1, <3>4 DEF EndShutdown, Leave, ClientInv, TypeOK
    <3>5. CASE AbortShutdown(l)
      BY <3>1, <3>5 DEF AbortShutdown, ClientInv, TypeOK
    <3>. QED BY <1>2, <3>2, <3>3, <3>4, <3>5 DEF LifespanStep
  <2>. QED BY <1>1, <2>1, <2>2
<1>3. CASE Crash
  <2>1. UNCHANGED clientVars /\ TypeOK'
    BY <1>3 DEF Crash, ClientInv, TypeOK, clientVars
  <2>. QED BY <1>1, <2>1
<1>4. CASE Tick
  <2>1. TypeOK'
    <3>1. \A c \in Clients : wait[c] \in Nat /\ wait[c] <= MaxWait
      BY MaxWaitType DEF ClientInv, TypeOK
    <3>2. \A c \in Clients : wait[c] > 0 => wait[c] - 1 \in 0..MaxWait
      BY <3>1, MaxWaitType
    <3>3. wait' \in [Clients -> 0..MaxWait]
      BY <1>4, <3>1, <3>2 DEF Tick
    <3>. QED BY <1>4, <3>3 DEF Tick, serverVars, ClientInv, TypeOK
  <2>. QED BY <1>4, <2>1 DEF Tick, ClientInv, StopsAtLimit, LimitInv
<1>5. ASSUME NEW c \in Clients, ClientStep(c) PROVE ClientInv'
  <2>1. CASE HandlerEnds(c)
    <3>1. UNCHANGED clientVars /\ TypeOK'
      BY <2>1 DEF HandlerEnds, ClientInv, TypeOK, clientVars
    <3>. QED BY <1>1, <3>1
  <2>2. CASE NoticeLoss(c)
    BY <2>2, RetryKeepsClientInv DEF NoticeLoss
  <2>3. CASE ConnectRefused(c)
    BY <2>3, RetryKeepsClientInv DEF ConnectRefused
  <2>4. CASE Connect(c)
    <3>0. 0 \in 0..(MaxExponent + 1)
      BY ExponentType
    <3>1. TypeOK'
      BY <2>4, <3>0 DEF Connect, ClientInv, TypeOK
    <3>2. \A d \in Clients : limit[d] \in Nat
      BY LimitsAssumption DEF ClientInv, TypeOK
    <3>3. StopsAtLimit' /\ LimitInv'
      BY <2>4, <3>2 DEF Connect, ClientInv, TypeOK, StopsAtLimit, LimitInv
    <3>. QED BY <3>1, <3>3 DEF ClientInv
  <2>. QED BY <1>5, <2>1, <2>2, <2>3, <2>4 DEF ClientStep
<1>6. CASE UNCHANGED vars
  BY <1>6 DEF vars, serverVars, clientVars, ClientInv, TypeOK, StopsAtLimit, LimitInv
<1>. QED BY <1>2, <1>3, <1>4, <1>5, <1>6 DEF Next

LEMMA ClientInvariant == Spec => []ClientInv
  BY InitClientInv, NextClientInv, PTL DEF Spec

\* Every reachable state is well typed; in particular no client ever waits for
\* longer than max_delay_s and its jitter.
THEOREM TypeCorrect == Spec => []TypeOK
<1>1. ClientInv => TypeOK
  BY DEF ClientInv
<1>. QED BY <1>1, ClientInvariant, PTL

\* No client stops retrying before it was refused max_attempts times in a row,
\* except that the power overflows.
THEOREM ClientsPersist == Spec => []StopsAtLimit
<1>1. ClientInv => StopsAtLimit
  BY DEF ClientInv
<1>. QED BY <1>1, ClientInvariant, PTL

-----------------------------------------------------------------------------
(* _registry.                                                              *)

LEMMA NextRegistry == TypeOK /\ RegistryIsCurrent /\ [Next]_vars => RegistryIsCurrent'
<1> SUFFICES ASSUME TypeOK, RegistryIsCurrent, [Next]_vars PROVE RegistryIsCurrent'
  OBVIOUS
<1> USE DEF RegistryIsCurrent, Running
<1>1. ASSUME NEW l \in Lifespans, Enter(l) PROVE RegistryIsCurrent'
  BY <1>1 DEF Enter, TypeOK
<1>2. ASSUME NEW l \in Lifespans, Leave(l), UNCHANGED overlapped, Running(l)
      PROVE  RegistryIsCurrent'
  <2>1. \A k \in Lifespans : k # l => phase'[k] = phase[k]
    BY <1>2 DEF Leave, TypeOK
  <2>2. phase'[l] = "over" /\ registry' = {}
    BY <1>2 DEF Leave, TypeOK
  <2>. QED BY <1>2, <2>1, <2>2
<1>3. ASSUME NEW l \in Lifespans, BeginShutdown(l) PROVE RegistryIsCurrent'
  <2>1. CASE Registered(l) = {}
    BY <1>2, <1>3, <2>1 DEF BeginShutdown
  <2>2. CASE Registered(l) # {}
    BY <1>3, <2>2 DEF BeginShutdown, TypeOK
  <2>. QED BY <2>1, <2>2
<1>4. ASSUME NEW l \in Lifespans, EndShutdown(l) PROVE RegistryIsCurrent'
  BY <1>2, <1>4 DEF EndShutdown
<1>5. ASSUME NEW l \in Lifespans, AbortShutdown(l) PROVE RegistryIsCurrent'
  BY <1>5 DEF AbortShutdown, TypeOK
<1>6. CASE Crash
  BY <1>6 DEF Crash, TypeOK
<1>7. CASE UNCHANGED <<registry, phase, overlapped>>
  BY <1>7
<1>8. CASE Tick
  BY <1>7, <1>8 DEF Tick, serverVars
<1>9. ASSUME NEW c \in Clients, ClientStep(c) PROVE RegistryIsCurrent'
  BY <1>7, <1>9
     DEF ClientStep, HandlerEnds, NoticeLoss, ConnectRefused, Connect, serverVars
<1>10. CASE UNCHANGED vars
  BY <1>7, <1>10 DEF vars, serverVars
<1>. QED BY <1>1, <1>3, <1>4, <1>5, <1>6, <1>8, <1>9, <1>10 DEF Next, LifespanStep

\* However lifespans follow one another, are aborted or die, get_registry()
\* serves the registry of the one that runs, unless lifespans overlap.
THEOREM RegistryServesTheRunning == Spec => []RegistryIsCurrent
<1>1. Init => RegistryIsCurrent
  BY DEF Init, RegistryIsCurrent, Running
<1>. QED BY <1>1, NextRegistry, TypeCorrect, PTL DEF Spec

-----------------------------------------------------------------------------
(* Nobody is refused.                                                      *)

Served == (\E l \in Lifespans : Running(l)) /\ ~overlapped

\* While a lifespan runs that was not entered inside another, a waiting client
\* only gets nearer to its connection: it loses no attempt and its delay does not
\* grow, whatever the server and the other clients do.
WaitersAreNotRefused ==
  [][Served => \A c \in Clients : client[c] = "waiting" =>
       \/ client'[c] = "connected"
       \/ client'[c] = "waiting" /\ attempt'[c] = attempt[c] /\ wait'[c] <= wait[c]]_vars

\* The safety half of WaitersGetServed.
THEOREM NobodyIsRefused == Spec => WaitersAreNotRefused
<1> DEFINE Nearer(c) ==
      \/ client'[c] = "connected"
      \/ client'[c] = "waiting" /\ attempt'[c] = attempt[c] /\ wait'[c] <= wait[c]
<1>1. TypeOK /\ RegistryIsCurrent /\ [Next]_vars
        => [Served => \A c \in Clients : client[c] = "waiting" => Nearer(c)]_vars
  <2> SUFFICES ASSUME TypeOK, RegistryIsCurrent, Next, Served,
                      NEW c \in Clients, client[c] = "waiting"
               PROVE  Nearer(c)
    OBVIOUS
  <2>1. registry # {}
    BY DEF RegistryIsCurrent, Served
  <2>2. wait \in [Clients -> Nat] /\ wait[c] <= wait[c]
    BY MaxWaitType DEF TypeOK
  <2>3. CASE UNCHANGED <<client, attempt, wait>>
    BY <2>2, <2>3
  <2>4. CASE (\E l \in Lifespans : LifespanStep(l)) \/ Crash
    BY <2>3, <2>4
       DEF LifespanStep, Enter, BeginShutdown, EndShutdown, AbortShutdown, Crash, clientVars
  <2>5. CASE Tick
    BY <2>2, <2>5 DEF Tick
  <2>6. ASSUME NEW d \in Clients, HandlerEnds(d) PROVE Nearer(c)
    BY <2>3, <2>6 DEF HandlerEnds, clientVars
  <2>7. ASSUME NEW d \in Clients, Connect(d) PROVE Nearer(c)
    BY <2>2, <2>7 DEF Connect, TypeOK
  <2>8. ASSUME NEW d \in Clients, NoticeLoss(d) PROVE Nearer(c)
    <3>1. d # c
      BY <2>8 DEF NoticeLoss
    <3>. QED BY <2>2, <2>8, <3>1 DEF NoticeLoss, Retry, TypeOK
  <2>9. ASSUME NEW d \in Clients, ConnectRefused(d) PROVE FALSE
    BY <2>1, <2>9 DEF ConnectRefused
  <2>. QED BY <2>4, <2>5, <2>6, <2>7, <2>8, <2>9 DEF Next, ClientStep
<1>. QED BY <1>1, TypeCorrect, RegistryServesTheRunning, PTL DEF Spec, WaitersAreNotRefused
=============================================================================
