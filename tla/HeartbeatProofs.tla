--------------------------- MODULE HeartbeatProofs ---------------------------
(* Theorems about Heartbeat, for any interval, timeout and max_missed.     *)
EXTENDS Heartbeat, TLAPS

-----------------------------------------------------------------------------
(* Type correctness.                                                       *)

\* The first miss that reaches max_missed ends the loop, so a loop that goes on
\* has missed fewer.
TypeInv ==
  /\ TypeOK
  /\ alive => missed < MaxMissed
  /\ loop # "done" => alive
  /\ LoopFollowsContext

LEMMA HorizonType == Window \in Nat /\ Horizon \in Nat
<1>1. Window \in Nat /\ MaxMissed \in Nat
  BY HeartbeatAssumption DEF Window
<1>2. (MaxMissed + 1) * Window \in Nat
  BY <1>1
<1>. QED BY <1>1, <1>2 DEF Horizon

LEMMA InitTypeInv == Init => TypeInv
<1> SUFFICES ASSUME Init PROVE TypeInv
  OBVIOUS
<1>1. TypeOK
  <2>1. request \in BOOLEAN /\ raising \in BOOLEAN /\ late \in BOOLEAN
    BY Zenon DEF Init
  <2>. QED BY <2>1, HeartbeatAssumption, HorizonType DEF Init, TypeOK
<1>2. 0 < MaxMissed
  BY HeartbeatAssumption
<1>. QED BY <1>1, <1>2 DEF Init, TypeInv, LoopFollowsContext

LEMMA NextTypeInv == TypeInv /\ [Next]_vars => TypeInv'
<1> SUFFICES ASSUME TypeInv, [Next]_vars PROVE TypeInv'
  OBVIOUS
<1> USE HeartbeatAssumption, HorizonType DEF TypeInv, TypeOK, LoopFollowsContext, handlerVars
<1>1. CASE Tick
  BY <1>1 DEF Tick
<1>2. CASE WakeToPing
  BY <1>2 DEF WakeToPing
<1>3. CASE SendCompletes
  BY <1>3 DEF SendCompletes
<1>4. CASE SendFails
  BY <1>4 DEF SendFails
<1>5. CASE CheckPong
  <2>1. /\ handler = "open" /\ handler' = handler /\ alive /\ loop = "timeout"
        /\ request' = request /\ raising' = raising /\ asked' = asked
        /\ sincePong' = sincePong /\ late' = late /\ missed < MaxMissed
        /\ missed' = missed \/ missed' = missed + 1
        /\ alive' = ~(IsMissed /\ missed' >= MaxMissed)
        /\ ~IsMissed => missed' = missed
    BY <1>5 DEF CheckPong
  <2>2. CASE alive' = TRUE
    <3>1. loop' = "interval" /\ timer' = Interval
      BY <1>5, <2>2 DEF CheckPong
    <3>2. missed' \in 0..MaxMissed /\ missed' < MaxMissed
      <4>1. ~IsMissed \/ ~(missed' >= MaxMissed)
        BY Zenon, <2>1, <2>2
      <4>2. missed \in Nat /\ MaxMissed \in Nat
        OBVIOUS
      <4>. QED BY <2>1, <4>1, <4>2
    <3>3. timer' \in 0..(Interval + Timeout)
      BY <3>1
    <3>4. TypeOK'
      BY <2>1, <2>2, <3>1, <3>2, <3>3
    <3>. QED BY Zenon, <2>1, <2>2, <3>1, <3>2, <3>4
  <2>3. CASE alive' = FALSE
    <3>1. loop' = "done" /\ timer' = timer
      BY <1>5, <2>3 DEF CheckPong
    <3>. QED BY <2>1, <2>3, <3>1
  <2>. QED BY <2>1, <2>2, <2>3
<1>6. CASE RecordPong
  <2>1. late' \in BOOLEAN
    BY Zenon, <1>6 DEF RecordPong
  <2>. QED BY <1>6, <2>1 DEF RecordPong
<1>7. CASE BeginExit
  BY <1>7 DEF BeginExit
<1>8. CASE EndLoop
  BY <1>8 DEF EndLoop
<1>9. CASE CancelHandler
  BY <1>9 DEF CancelHandler
<1>10. CASE UNCHANGED vars
  BY <1>10 DEF vars
<1>. QED BY <1>1, <1>2, <1>3, <1>4, <1>5, <1>6, <1>7, <1>8, <1>9, <1>10
         DEF Next, LoopStep, HandlerStep

LEMMA TypeInvariant == Spec => []TypeInv
  BY InitTypeInv, NextTypeInv, PTL DEF Spec

\* Every reachable state of the heartbeat is well typed; missed_pongs never
\* passes max_missed.
THEOREM TypeCorrect == Spec => []TypeOK
<1>1. TypeInv => TypeOK
  BY DEF TypeInv
<1>. QED BY <1>1, TypeInvariant, PTL

\* The ping task lives exactly as long as the connection it serves, and never
\* longer than run().
THEOREM LoopEndsInTime == Spec => []LoopFollowsContext
<1>1. TypeInv => LoopFollowsContext
  BY DEF TypeInv
<1>. QED BY <1>1, TypeInvariant, PTL

-----------------------------------------------------------------------------
(* Silence before death.                                                   *)

\* At least this many ticks have passed since the last check.
SinceCheck ==
  CASE loop = "interval" -> Interval - timer
    [] loop = "sending"  -> Interval
    [] loop = "timeout"  -> Interval + (Timeout - timer)

\* Each miss stands for a window without a pong.
SilenceInv ==
  /\ loop = "interval" => timer <= Interval
  /\ loop = "timeout" => timer <= Timeout
  /\ loop # "done" /\ missed > 0 => sincePong > missed * Window + SinceCheck

LEMMA Windows ==
  ASSUME NEW k \in Nat, k < MaxMissed
  PROVE  /\ k * Window \in Nat
         /\ (k + 1) * Window = k * Window + Window
         /\ (k + 1) * Window <= MaxMissed * Window
         /\ MaxMissed * Window \in Nat
<1>1. Window \in Nat /\ MaxMissed \in Nat
  BY HorizonType, HeartbeatAssumption
<1>2. k * Window \in Nat /\ MaxMissed * Window \in Nat
  BY <1>1
<1>3. (k + 1) * Window = k * Window + Window
  BY <1>1
<1>4. PICK d \in Nat : MaxMissed = (k + 1) + d
  <2>1. MaxMissed - (k + 1) \in Nat /\ MaxMissed = (k + 1) + (MaxMissed - (k + 1))
    BY <1>1
  <2>. QED BY <2>1
<1>5. MaxMissed * Window = (k + 1) * Window + d * Window /\ d * Window \in Nat
  BY <1>1, <1>4
<1>. QED BY <1>1, <1>2, <1>3, <1>5

LEMMA SinceCheckType ==
  ASSUME TypeInv, SilenceInv, loop # "done"
  PROVE  SinceCheck \in Nat /\ SinceCheck <= Window
<1>1. Interval \in Nat /\ Timeout \in Nat /\ timer \in Nat
  BY HeartbeatAssumption DEF TypeInv, TypeOK
<1>2. loop \in {"interval", "sending", "timeout"}
  BY DEF TypeInv, TypeOK
<1>. QED BY <1>1, <1>2 DEF SinceCheck, SilenceInv, Window

\* In the round that counts a miss, every window counted so far was silent.
LEMMA MissIsSilence ==
  ASSUME TypeInv, SilenceInv, handler = "open", loop = "timeout", timer = 0
  PROVE  /\ missed > 0 => IsMissed
         /\ IsMissed => sincePong > (missed + 1) * Window
<1>1. /\ missed \in Nat /\ missed < MaxMissed /\ sincePong \in Nat
      /\ Window \in Nat
  BY HorizonType, HeartbeatAssumption DEF TypeInv, TypeOK
<1>2. missed * Window \in Nat /\ (missed + 1) * Window = missed * Window + Window
  BY <1>1, Windows
<1>3. SinceCheck = Window
  BY HeartbeatAssumption DEF SinceCheck, Window
<1>4. missed > 0 => sincePong > missed * Window + Window
  BY <1>3 DEF SilenceInv
<1>5. missed = 0 => missed * Window = 0
  BY <1>1
<1>. QED BY <1>1, <1>2, <1>4, <1>5 DEF IsMissed

LEMMA NextSilenceInv == TypeInv /\ SilenceInv /\ [Next]_vars => SilenceInv'
<1> SUFFICES ASSUME TypeInv, SilenceInv, [Next]_vars PROVE SilenceInv'
  OBVIOUS
<1>1. /\ missed \in Nat /\ sincePong \in Nat /\ timer \in Nat
      /\ Interval \in Nat /\ Timeout \in Nat /\ Window \in Nat
      /\ loop \in {"interval", "sending", "timeout", "done"}
  BY HorizonType, HeartbeatAssumption DEF TypeInv, TypeOK
<1>2. CASE Tick
  <2>1. /\ loop = "interval" => timer' <= Interval
        /\ loop = "timeout" => timer' <= Timeout
    BY <1>1, <1>2 DEF Tick, SilenceInv
  <2>2. ASSUME loop # "done", missed > 0 PROVE sincePong' > missed * Window + SinceCheck'
    <3>1. missed < MaxMissed /\ missed * Window \in Nat
          /\ missed * Window + Window <= MaxMissed * Window /\ MaxMissed * Window \in Nat
      BY <1>1, <2>2, Windows DEF TypeInv
    <3>2. SinceCheck' \in Nat /\ SinceCheck' <= Window /\ SinceCheck' <= SinceCheck + 1
          /\ SinceCheck \in Nat
      <4>1. loop' = loop /\ timer' \in Nat /\ (timer' = timer \/ timer' + 1 = timer)
        BY <1>1, <1>2 DEF Tick
      <4>2. CASE loop = "interval"
        BY <1>1, <2>1, <4>1, <4>2 DEF SinceCheck, Window, SilenceInv
      <4>3. CASE loop = "sending"
        BY <1>1, <4>1, <4>3 DEF SinceCheck, Window
      <4>4. CASE loop = "timeout"
        BY <1>1, <2>1, <4>1, <4>4 DEF SinceCheck, Window, SilenceInv
      <4>. QED BY <1>1, <2>2, <4>2, <4>3, <4>4
    <3>3. sincePong > missed * Window + SinceCheck
      BY <2>2 DEF SilenceInv
    <3>4. sincePong' = sincePong + 1 \/ sincePong' = MaxMissed * Window + Window + 1
      <4>1. sincePong <= Horizon /\ Horizon \in Nat
        BY HorizonType DEF TypeInv, TypeOK
      <4>2. sincePong' = sincePong + 1 \/ sincePong' = Horizon
        BY <1>1, <1>2, <4>1 DEF Tick
      <4>3. Horizon = MaxMissed * Window + Window + 1
        BY HorizonType, HeartbeatAssumption DEF Horizon
      <4>. QED BY <4>2, <4>3
    <3>. QED BY <1>1, <3>1, <3>2, <3>3, <3>4
  <2>. QED BY <1>2, <2>1, <2>2 DEF Tick, SilenceInv
<1>3. CASE WakeToPing
  <2>1. SinceCheck' = SinceCheck
    BY <1>1, <1>3 DEF WakeToPing, SinceCheck
  <2>. QED BY <1>3, <2>1 DEF WakeToPing, SilenceInv
<1>4. CASE SendCompletes
  <2>1. SinceCheck' = SinceCheck
    BY <1>1, <1>4 DEF SendCompletes, SinceCheck
  <2>. QED BY <1>1, <1>4, <2>1 DEF SendCompletes, SilenceInv
<1>5. CASE SendFails
  BY <1>5 DEF SendFails, SilenceInv
<1>6. CASE CheckPong
  <2>1. handler = "open" /\ loop = "timeout" /\ timer = 0 /\ sincePong' = sincePong
    BY <1>6 DEF CheckPong
  <2>2. CASE loop' = "done"
    BY <2>2 DEF SilenceInv
  <2>3. CASE loop' = "interval" /\ timer' = Interval
    <3>1. SinceCheck' = 0
      BY <1>1, <2>3 DEF SinceCheck
    <3>2. missed' > 0 => missed' = missed + 1 /\ IsMissed
      BY <1>1, <1>6, <2>1, MissIsSilence DEF CheckPong
    <3>3. missed' > 0 => sincePong' > missed' * Window
      BY <2>1, <3>2, MissIsSilence
    <3>4. missed' > 0 => missed' * Window + 0 = missed' * Window
      BY <1>1, <3>2
    <3>. QED BY <1>1, <2>3, <3>1, <3>3, <3>4 DEF SilenceInv
  <2>. QED BY <1>6, <2>2, <2>3 DEF CheckPong
<1>7. CASE RecordPong
  BY <1>7 DEF RecordPong, SilenceInv
<1>8. CASE BeginExit
  BY <1>8 DEF BeginExit, SilenceInv, SinceCheck
<1>9. CASE EndLoop
  BY <1>9 DEF EndLoop, SilenceInv
<1>10. CASE CancelHandler
  BY <1>10 DEF CancelHandler, SilenceInv, SinceCheck
<1>11. CASE UNCHANGED vars
  BY <1>11 DEF vars, SilenceInv, SinceCheck
<1>. QED BY <1>2, <1>3, <1>4, <1>5, <1>6, <1>7, <1>8, <1>9, <1>10, <1>11
         DEF Next, LoopStep, HandlerStep

\* A client that answers now and then is never declared dead for its pongs: the
\* verdict comes after more than max_missed * (interval_s + timeout_s) of
\* silence, whatever the delays of the loop and of send_fn.
THEOREM DeathNeedsSilence == Spec => DeadMeansSilent
<1>1. Init => SilenceInv
  BY HeartbeatAssumption DEF Init, SilenceInv
<1>2. TypeInv /\ SilenceInv /\ [Next]_vars
        => [alive /\ ~alive' => loop = "sending" \/ sincePong > MaxMissed * Window]_vars
  <2> SUFFICES ASSUME TypeInv, SilenceInv, Next, alive, ~alive', loop # "sending"
               PROVE  sincePong > MaxMissed * Window
    BY DEF vars
  <2>1. CheckPong /\ IsMissed /\ missed + 1 >= MaxMissed
    BY DEF Next, LoopStep, HandlerStep, Tick, WakeToPing, SendCompletes, SendFails,
           CheckPong, RecordPong, CancelHandler, BeginExit, EndLoop
  <2>2. sincePong > (missed + 1) * Window
    BY <2>1, MissIsSilence DEF CheckPong
  <2>3. missed + 1 = MaxMissed
    BY <2>1, HeartbeatAssumption DEF TypeInv, TypeOK
  <2>. QED BY <2>2, <2>3
<1>. QED BY <1>1, <1>2, NextSilenceInv, TypeInvariant, PTL DEF Spec, DeadMeansSilent

-----------------------------------------------------------------------------
(* Detection in time.                                                      *)

\* As long as nothing is late, the silence is no longer than the window of the
\* last pong, those that were counted as missed, and the one that runs.
PunctualInv ==
  /\ loop = "sending" => timer = 0
  /\ loop # "done" /\ ~late => sincePong <= missed * Window + Window + SinceCheck

LEMMA MissedWindows ==
  ASSUME TypeInv
  PROVE  missed * Window \in Nat /\ (missed + 1) * Window = missed * Window + Window
<1>1. missed \in Nat /\ Window \in Nat
  BY HorizonType, HeartbeatAssumption DEF TypeInv, TypeOK
<1>. QED BY <1>1

LEMMA NextPunctualInv ==
  TypeInv /\ SilenceInv /\ PunctualInv /\ [Next]_vars => PunctualInv'
<1> SUFFICES ASSUME TypeInv, SilenceInv, PunctualInv, [Next]_vars PROVE PunctualInv'
  OBVIOUS
<1>1. /\ missed \in Nat /\ sincePong \in Nat /\ timer \in Nat
      /\ Interval \in Nat /\ Timeout \in Nat /\ Window \in Nat
      /\ loop \in {"interval", "sending", "timeout", "done"}
      /\ missed * Window \in Nat
  BY HorizonType, HeartbeatAssumption, MissedWindows DEF TypeInv, TypeOK
<1>2. CASE Tick
  <2>1. loop' = loop /\ missed' = missed /\ (loop = "sending" => timer' = 0)
    BY <1>1, <1>2 DEF Tick, PunctualInv
  <2>2. ASSUME loop # "done", ~late'
        PROVE  sincePong' <= missed * Window + Window + SinceCheck'
    <3>1. ~late /\ timer' = timer - 1 /\ timer # 0
      <4>1. ~late /\ timer # 0
        BY Zenon, <1>2, <2>2 DEF Tick
      <4>. QED BY <1>1, <1>2, <4>1 DEF Tick
    <3>2. loop # "sending"
      BY <3>1 DEF PunctualInv
    <3>3. SinceCheck' = SinceCheck + 1 /\ SinceCheck \in Nat
      BY <1>1, <2>1, <2>2, <3>1, <3>2, SinceCheckType DEF SinceCheck
    <3>4. sincePong' <= sincePong + 1 /\ sincePong' \in Nat
      BY <1>1, <1>2 DEF Tick
    <3>. QED BY <1>1, <2>2, <3>1, <3>3, <3>4 DEF PunctualInv
  <2>. QED BY <2>1, <2>2 DEF PunctualInv
<1>3. CASE WakeToPing \/ SendCompletes
  <2>1. SinceCheck' = SinceCheck
    BY <1>1, <1>3 DEF WakeToPing, SendCompletes, SinceCheck
  <2>. QED BY <1>3, <2>1 DEF WakeToPing, SendCompletes, PunctualInv
<1>4. CASE SendFails \/ EndLoop
  BY <1>4 DEF SendFails, EndLoop, PunctualInv
<1>5. CASE CheckPong
  <2>1. /\ handler = "open" /\ loop = "timeout" /\ timer = 0
        /\ sincePong' = sincePong /\ late' = late
    BY <1>5 DEF CheckPong
  <2>2. CASE loop' = "done"
    BY <2>2 DEF PunctualInv
  <2>3. CASE loop' = "interval" /\ timer' = Interval
    <3>1. SinceCheck = Window /\ SinceCheck' = 0
      BY <1>1, <2>1, <2>3 DEF SinceCheck, Window
    <3>2. CASE IsMissed
      <4>1. missed' = missed + 1 /\ missed' * Window = missed * Window + Window
        BY <1>5, <3>2, MissedWindows DEF CheckPong
      <4>. QED BY <1>1, <2>1, <2>3, <3>1, <4>1 DEF PunctualInv
    <3>3. CASE ~IsMissed
      <4>1. sincePong <= Window /\ missed' = missed
        BY <1>1, <1>5, <3>3 DEF CheckPong, IsMissed
      <4>. QED BY <1>1, <2>1, <2>3, <3>1, <4>1 DEF PunctualInv
    <3>. QED BY <3>2, <3>3
  <2>. QED BY <1>5, <2>2, <2>3 DEF CheckPong
<1>6. CASE RecordPong
  <2>1. /\ sincePong' = 0 /\ missed' = 0 /\ loop' = loop /\ timer' = timer
        /\ SinceCheck' = SinceCheck /\ missed' * Window = 0
    BY <1>1, <1>6 DEF RecordPong, SinceCheck
  <2>2. loop # "done" => SinceCheck \in Nat
    BY SinceCheckType
  <2>. QED BY <1>1, <2>1, <2>2 DEF PunctualInv
<1>7. CASE BeginExit \/ CancelHandler \/ UNCHANGED vars
  <2>1. UNCHANGED <<loop, timer, sincePong, late, missed>>
    BY <1>7 DEF BeginExit, CancelHandler, vars
  <2>. QED BY <2>1 DEF PunctualInv, SinceCheck
<1>. QED BY <1>2, <1>3, <1>4, <1>5, <1>6, <1>7 DEF Next, LoopStep, HandlerStep

\* A client that falls silent is declared dead within (max_missed + 1) times
\* interval_s + timeout_s of its last pong, for any of the three, unless the loop
\* or a send runs late after that pong: the safety half of SilentClientDies.
THEOREM DetectionIsInTime == Spec => []DetectionInTime
<1>1. Init => SilenceInv /\ PunctualInv
  <2> SUFFICES ASSUME Init PROVE SilenceInv /\ PunctualInv
    OBVIOUS
  <2>1. Window \in Nat /\ 0 * Window = 0 /\ SinceCheck = 0
    BY HorizonType, HeartbeatAssumption DEF Init, SinceCheck
  <2>. QED BY <2>1, HeartbeatAssumption DEF Init, SilenceInv, PunctualInv
<1>2. TypeInv /\ SilenceInv /\ PunctualInv => DetectionInTime
  <2> SUFFICES ASSUME TypeInv, SilenceInv, PunctualInv, handler = "open", alive, ~late
               PROVE  sincePong <= (MaxMissed + 1) * Window
    BY DEF DetectionInTime
  <2>1. loop # "done" /\ missed \in Nat /\ missed < MaxMissed
    BY DEF TypeInv, TypeOK, LoopFollowsContext
  <2>2. sincePong <= missed * Window + Window + SinceCheck
    BY <2>1 DEF PunctualInv
  <2>3. SinceCheck \in Nat /\ SinceCheck <= Window
    BY <2>1, SinceCheckType
  <2>4. /\ missed * Window + Window <= MaxMissed * Window
        /\ missed * Window \in Nat /\ MaxMissed * Window \in Nat
    BY <2>1, Windows
  <2>5. (MaxMissed + 1) * Window = MaxMissed * Window + Window
    BY HorizonType, HeartbeatAssumption
  <2>6. sincePong \in Nat /\ Window \in Nat
    BY HorizonType DEF TypeInv, TypeOK
  <2>. QED BY <2>2, <2>3, <2>4, <2>5, <2>6
<1>. QED BY <1>1, <1>2, NextSilenceInv, NextPunctualInv, TypeInvariant, PTL DEF Spec

-----------------------------------------------------------------------------
(* Cancellation.                                                           *)

\* The first cancel() stays due until the body is left and is raised from then.
CancelInv ==
  asked = "open" => IF handler = "open" THEN request = TRUE ELSE raising = TRUE

LEMMA NextCancelInv == TypeInv /\ CancelInv /\ [Next]_vars => CancelInv'
<1> SUFFICES ASSUME TypeInv, CancelInv, [Next]_vars PROVE CancelInv'
  OBVIOUS
<1> USE DEF CancelInv, handlerVars
<1>1. CASE Tick \/ LoopStep \/ RecordPong
  <2>1. UNCHANGED handlerVars
    BY <1>1 DEF Tick, LoopStep, WakeToPing, SendCompletes, SendFails, CheckPong, RecordPong
  <2>. QED BY <2>1
<1>2. CASE CancelHandler
  BY <1>2 DEF CancelHandler, TypeInv, TypeOK
<1>3. CASE BeginExit
  BY <1>3 DEF BeginExit
<1>4. CASE EndLoop
  BY <1>4 DEF EndLoop
<1>5. CASE UNCHANGED vars
  BY <1>5 DEF vars
<1>. QED BY <1>1, <1>2, <1>3, <1>4, <1>5 DEF Next, HandlerStep

\* A cancellation that arrives in the body of the context is never swallowed by
\* the suppress() of run().
THEOREM CancelComesOut == Spec => []CancelLostOnlyOnExit
<1>1. Init => CancelInv
  BY DEF Init, CancelInv
<1>2. TypeInv /\ CancelInv => CancelLostOnlyOnExit
  BY DEF TypeInv, TypeOK, CancelInv, CancelLostOnlyOnExit
<1>. QED BY <1>1, <1>2, NextCancelInv, TypeInvariant, PTL DEF Spec
=============================================================================
