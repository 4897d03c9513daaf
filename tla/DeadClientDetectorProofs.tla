---------------------- MODULE DeadClientDetectorProofs ----------------------
(* Theorems about DeadClientDetector, for any connections, ids, idle       *)
(* threshold and sweep interval.                                           *)
EXTENDS DeadClientDetector, TLAPS

-----------------------------------------------------------------------------
(* Type correctness.                                                       *)

LEMMA InitTypeOK == Init => TypeOK
  BY DetectorAssumption DEF Init, TypeOK

LEMMA UntrackType ==
  ASSUME TypeOK, NEW h \in Healths
  PROVE  Untrack(h) \in [Ids -> {{}} \cup {{g} : g \in Healths}]
  BY DEF TypeOK, Untrack

LEMMA CallNextType ==
  ASSUME TypeOK, NEW S \in SUBSET Healths, CallNext(S)
  PROVE  /\ loop' \in {"asleep", "calling", "stopped"}
         /\ timer' \in 0..SweepInterval
         /\ dead' \subseteq Healths
         /\ calling' \in {{}} \cup {{h} : h \in Healths}
         /\ loop' = "calling" <=> calling' # {}
         /\ loop' # "calling" => dead' = {}
         /\ called' \subseteq Healths
         /\ dead' \cup calling' = S
<1>1. CASE S = {}
  <2>1. 0 <= SweepInterval /\ SweepInterval \in Int
    BY DetectorAssumption
  <2>2. loop' = "asleep" /\ timer' = SweepInterval /\ dead' = {} /\ calling' = {}
        /\ called' = called
    BY <1>1 DEF CallNext
  <2>. QED BY <1>1, <2>1, <2>2 DEF TypeOK
<1>2. CASE S # {}
  <2>1. PICK h \in S : /\ loop' = "calling" /\ timer' = timer
                       /\ dead' = S \ {h} /\ calling' = {h}
                       /\ called' = called \cup {h}
    BY <1>2 DEF CallNext
  <2>. QED BY <2>1 DEF TypeOK
<1>. QED BY <1>1, <1>2

LEMMA LaterType ==
  ASSUME TypeOK, NEW d \in Int
  PROVE  Later(d) \in [Healths -> Int]
  BY DetectorAssumption DEF Later, Clip, TypeOK

LEMMA NextTypeOK == TypeOK /\ [Next]_vars => TypeOK'
<1> SUFFICES ASSUME TypeOK, [Next]_vars PROVE TypeOK'
  OBVIOUS
<1> USE DetectorAssumption
<1>1. CASE Tick
  <2>1. idle' \in [Healths -> Int]
    BY <1>1, LaterType DEF Tick
  <2>2. timer' \in 0..SweepInterval
    BY <1>1 DEF Tick, TypeOK
  <2>. QED BY <1>1, <2>1, <2>2 DEF Tick, TypeOK, owners
<1>2. ASSUME NEW h \in Healths, NEW i \in Ids, TrackHealth(h, i) PROVE TypeOK'
  BY <1>2 DEF TrackHealth, TypeOK, sweeper
<1>3. ASSUME NEW h \in Healths, RecordActivity(h) PROVE TypeOK'
  BY <1>3 DEF RecordActivity, TypeOK, sweeper, owners
<1>4. ASSUME NEW h \in Healths, CloseConnection(h) PROVE TypeOK'
  BY <1>4, UntrackType DEF CloseConnection, TypeOK, sweeper
<1>5. CASE Sweep
  <2>1. FindDead \in SUBSET Healths
    BY DEF FindDead, Tracked, TypeOK
  <2>. QED BY <1>5, <2>1, CallNextType DEF Sweep, TypeOK, owners
<1>6. CASE OnDeadEnds
  <2>1. table' \in [Ids -> {{}} \cup {{g} : g \in Healths}]
    <3>1. PICK h \in calling : table' = Untrack(h)
      BY <1>6 DEF OnDeadEnds
    <3>. QED BY <3>1, UntrackType DEF TypeOK
  <2>2. dead \in SUBSET Healths
    BY DEF TypeOK
  <2>. QED BY <1>6, <2>1, <2>2, CallNextType DEF OnDeadEnds, TypeOK, owners
<1>7. CASE StopSweeping
  BY <1>7 DEF StopSweeping, TypeOK, owners
<1>8. ASSUME NEW d \in Steps, SetClock(d) PROVE TypeOK'
  <2>1. d \in Int
    BY DEF Steps
  <2>2. idle' \in [Healths -> Int]
    BY <1>8, <2>1, LaterType DEF SetClock
  <2>3. revived' \subseteq Healths
    BY <1>8 DEF SetClock, Listed, TypeOK
  <2>. QED BY <1>8, <2>2, <2>3 DEF SetClock, TypeOK, owners, sweeper
<1>9. CASE UNCHANGED vars
  BY <1>9 DEF vars, TypeOK
<1>. QED BY <1>1, <1>2, <1>3, <1>4, <1>5, <1>6, <1>7, <1>8, <1>9 DEF Next, OwnerStep

\* Every reachable state of the detector is well typed.
THEOREM TypeCorrect == Spec => []TypeOK
  BY InitTypeOK, NextTypeOK, PTL DEF Spec

-----------------------------------------------------------------------------
(* The table.                                                              *)

\* The table lists open connections under their own id, and no other.
TableInv == \A i \in Ids : \A h \in table[i] : idOf[h] = {i} /\ h \notin closed

\* A connection loses its entry by its own close, its own on_dead or a namesake.
WatchInv ==
  /\ TableInv
  /\ calling \subseteq called
  /\ \A h \in closed : idOf[h] # {}
  /\ \A h \in Healths : Open(h) /\ SoleOwner(h) /\ h \notin called => h \in Tracked

LEMMA UntrackEffect ==
  ASSUME TypeOK, NEW h \in Healths, table' = Untrack(h)
  PROVE  /\ \A i \in Ids : table'[i] \subseteq table[i]
         /\ \A g \in Tracked : idOf[g] \cap idOf[h] = {} /\ TableInv => g \in Tracked'
         /\ TableInv => h \notin Tracked'
<1>1. \A i \in Ids : table'[i] = IF i \in idOf[h] THEN {} ELSE table[i]
  BY DEF Untrack
<1>2. ASSUME TableInv, NEW g \in Tracked, idOf[g] \cap idOf[h] = {}
      PROVE  g \in Tracked'
  <2>1. PICK i \in Ids : g \in table[i]
    BY DEF Tracked
  <2>2. idOf[g] = {i}
    BY <1>2, <2>1 DEF TableInv
  <2>3. g \in table'[i]
    BY <1>1, <1>2, <2>1, <2>2
  <2>. QED BY <2>3 DEF Tracked
<1>3. ASSUME TableInv PROVE h \notin Tracked'
  <2>1. ASSUME NEW i \in Ids, h \in table'[i] PROVE FALSE
    <3>1. i \notin idOf[h] /\ h \in table[i]
      BY <1>1, <2>1
    <3>. QED BY <1>3, <3>1 DEF TableInv
  <2>. QED BY <2>1 DEF Tracked
<1>. QED BY <1>1, <1>2, <1>3

LEMMA CallNextCalled ==
  ASSUME NEW S, CallNext(S)
  PROVE  calling' \subseteq called' /\ called' = called \cup calling'
  BY DEF CallNext

LEMMA NextWatchInv == TypeOK /\ WatchInv /\ [Next]_vars => WatchInv'
<1> SUFFICES ASSUME TypeOK, WatchInv, [Next]_vars PROVE WatchInv'
  OBVIOUS
<1>1. CASE UNCHANGED <<table, idOf, closed, calling, called>>
  BY <1>1 DEF WatchInv, TableInv, Open, SoleOwner, Tracked
<1>2. ASSUME NEW h \in Healths, NEW i \in Ids, TrackHealth(h, i) PROVE WatchInv'
  <2>1. /\ idOf[h] = {} /\ idOf' = [idOf EXCEPT ![h] = {i}]
        /\ table' = [table EXCEPT ![i] = {h}]
        /\ UNCHANGED <<closed, calling, called>>
    BY <1>2 DEF TrackHealth, sweeper
  <2>2. \A g \in Healths : idOf'[g] = IF g = h THEN {i} ELSE idOf[g]
    BY <2>1 DEF TypeOK
  <2>3. \A j \in Ids : table'[j] = IF j = i THEN {h} ELSE table[j]
    BY <2>1 DEF TypeOK
  <2>4. h \notin closed
    BY <2>1 DEF WatchInv
  <2>5. TableInv'
    BY <2>1, <2>2, <2>3, <2>4 DEF TableInv, WatchInv, TypeOK
  <2>6. ASSUME NEW g \in Healths, Open(g)', SoleOwner(g)', g \notin called'
        PROVE  g \in Tracked'
    <3>1. CASE g = h
      BY <2>3, <3>1 DEF Tracked
    <3>2. CASE g # h
      <4>1. SoleOwner(g) /\ Open(g)
        BY <2>1, <2>2, <2>6, <3>2 DEF SoleOwner, Open
      <4>2. PICK j \in Ids : g \in table[j]
        BY <2>1, <2>6, <4>1 DEF WatchInv, Tracked
      <4>3. idOf[g] = {j}
        BY <4>2 DEF WatchInv, TableInv
      <4>4. j # i
        BY <2>2, <2>6, <3>2, <4>3 DEF SoleOwner
      <4>. QED BY <2>3, <4>2, <4>4 DEF Tracked
    <3>. QED BY <3>1, <3>2
  <2>. QED BY <2>1, <2>5, <2>6 DEF WatchInv
<1>3. ASSUME NEW h \in Healths, CloseConnection(h) PROVE WatchInv'
  <2>1. /\ table' = Untrack(h) /\ closed' = closed \cup {h} /\ idOf[h] # {}
        /\ UNCHANGED <<idOf, calling, called>>
    BY <1>3 DEF CloseConnection, sweeper, Open
  <2>2. TableInv /\ h \notin Tracked'
    BY <2>1, UntrackEffect DEF WatchInv
  <2>3. TableInv'
    BY <2>1, <2>2, UntrackEffect DEF TableInv, Tracked
  <2>4. ASSUME NEW g \in Healths, Open(g)', SoleOwner(g)', g \notin called'
        PROVE  g \in Tracked'
    <3>1. g # h /\ Open(g) /\ SoleOwner(g)
      BY <2>1, <2>4 DEF Open, SoleOwner
    <3>2. g \in Tracked /\ idOf[g] \cap idOf[h] = {}
      BY <2>1, <2>4, <3>1 DEF WatchInv, SoleOwner
    <3>. QED BY <2>1, <2>2, <3>2, UntrackEffect
  <2>. QED BY <2>1, <2>3, <2>4 DEF WatchInv
<1>4. CASE Sweep
  <2>1. UNCHANGED <<table, idOf, closed>> /\ calling' \subseteq called' /\ called \subseteq called'
    BY <1>4, CallNextCalled DEF Sweep, owners
  <2>. QED BY <2>1 DEF WatchInv, TableInv, Open, SoleOwner, Tracked
<1>5. CASE OnDeadEnds
  <2>1. PICK h \in calling : table' = Untrack(h)
    BY <1>5 DEF OnDeadEnds
  <2>2. h \in Healths /\ h \in called
    BY DEF TypeOK, WatchInv
  <2>3. UNCHANGED <<idOf, closed>> /\ calling' \subseteq called' /\ called \subseteq called'
    BY <1>5, CallNextCalled DEF OnDeadEnds, owners
  <2>4. TableInv'
    BY <2>1, <2>2, <2>3, UntrackEffect DEF TableInv, WatchInv
  <2>5. ASSUME NEW g \in Healths, Open(g)', SoleOwner(g)', g \notin called'
        PROVE  g \in Tracked'
    <3>1. g # h /\ Open(g) /\ SoleOwner(g) /\ g \notin called
      BY <2>2, <2>3, <2>5 DEF Open, SoleOwner
    <3>2. g \in Tracked /\ idOf[g] \cap idOf[h] = {}
      BY <2>2, <3>1 DEF WatchInv, SoleOwner
    <3>. QED BY <2>1, <2>2, <3>2, UntrackEffect DEF WatchInv
  <2>. QED BY <2>3, <2>4, <2>5 DEF WatchInv
<1>6. CASE StopSweeping
  BY <1>6 DEF StopSweeping, owners, WatchInv, TableInv, Open, SoleOwner, Tracked
<1>7. CASE Tick
  BY <1>1, <1>7 DEF Tick, owners
<1>8. ASSUME NEW h \in Healths, RecordActivity(h) PROVE WatchInv'
  BY <1>1, <1>8 DEF RecordActivity, owners, sweeper
<1>9. ASSUME NEW d \in Steps, SetClock(d) PROVE WatchInv'
  BY <1>1, <1>9 DEF SetClock, owners, sweeper
<1>10. CASE UNCHANGED vars
  BY <1>1, <1>10 DEF vars
<1>. QED BY <1>2, <1>3, <1>4, <1>5, <1>6, <1>7, <1>8, <1>9, <1>10 DEF Next, OwnerStep

\* No open connection falls out of the sweep, whatever the callbacks and the
\* other owners do, as long as its id is its own.
THEOREM OpenStayWatched == Spec => []OpenAreWatched
<1>1. Init => WatchInv
  BY DEF Init, WatchInv, TableInv, Open
<1>2. TypeOK /\ WatchInv => OpenAreWatched
  BY DEF WatchInv, TableInv, OpenAreWatched, Open, Tracked
<1>. QED BY <1>1, <1>2, NextWatchInv, TypeCorrect, PTL DEF Spec

-----------------------------------------------------------------------------
(* The callbacks.                                                          *)

LEMMA LaterKeepsIdle ==
  ASSUME TypeOK, NEW d \in Int, d >= 0, idle' = Later(d), NEW h \in Healths, IsIdle(h)
  PROVE  IsIdle(h)'
<1>1. idle'[h] = idle[h] \/ idle'[h] = Clip(idle[h] + d)
  BY DEF Later
<1>. QED BY <1>1, DetectorAssumption DEF IsIdle, Clip, TypeOK

LEMMA NextCalledAreIdle == TypeOK /\ CalledAreIdle /\ [Next]_vars => CalledAreIdle'
<1> SUFFICES ASSUME TypeOK, CalledAreIdle, [Next]_vars PROVE CalledAreIdle'
  OBVIOUS
<1>1. CASE Tick
  <2>1. ASSUME NEW h \in Healths, IsIdle(h) PROVE IsIdle(h)'
    BY <1>1, <2>1, LaterKeepsIdle DEF Tick
  <2>. QED BY <1>1, <2>1 DEF Tick, CalledAreIdle, Listed, TypeOK
<1>2. ASSUME NEW h \in Healths, NEW i \in Ids, TrackHealth(h, i) PROVE CalledAreIdle'
  BY <1>2 DEF TrackHealth, sweeper, CalledAreIdle, Listed, IsIdle
<1>3. ASSUME NEW h \in Healths, RecordActivity(h) PROVE CalledAreIdle'
  BY <1>3 DEF RecordActivity, sweeper, CalledAreIdle, Listed, IsIdle, TypeOK
<1>4. ASSUME NEW h \in Healths, CloseConnection(h) PROVE CalledAreIdle'
  BY <1>4 DEF CloseConnection, sweeper, CalledAreIdle, Listed, IsIdle
<1>5. CASE Sweep
  <2>1. FindDead \in SUBSET Healths
    BY DEF FindDead, Tracked, TypeOK
  <2>2. dead' \cup calling' = FindDead /\ idle' = idle
    BY <1>5, <2>1, CallNextType DEF Sweep
  <2>. QED BY <2>2 DEF FindDead, CalledAreIdle, Listed, IsIdle
<1>6. CASE OnDeadEnds
  <2>1. dead \in SUBSET Healths
    BY DEF TypeOK
  <2>2. dead' \cup calling' = dead /\ idle' = idle /\ revived' = revived
    BY <1>6, <2>1, CallNextType DEF OnDeadEnds
  <2>. QED BY <2>2 DEF CalledAreIdle, Listed, IsIdle
<1>7. CASE StopSweeping
  BY <1>7 DEF StopSweeping, CalledAreIdle, Listed
<1>8. ASSUME NEW d \in Steps, SetClock(d) PROVE CalledAreIdle'
  <2>1. idle' = Later(d) /\ UNCHANGED <<dead, calling>> /\ d \in Int
    BY <1>8 DEF SetClock, sweeper, Steps
  <2>2. CASE d < 0
    BY <1>8, <2>1, <2>2 DEF SetClock, CalledAreIdle, Listed
  <2>3. CASE ~(d < 0)
    <3>1. ASSUME NEW h \in Healths, IsIdle(h) PROVE IsIdle(h)'
      BY <2>1, <2>3, <3>1, LaterKeepsIdle
    <3>. QED BY <1>8, <2>1, <2>3, <3>1 DEF SetClock, CalledAreIdle, Listed, TypeOK
  <2>. QED BY <2>2, <2>3
<1>9. CASE UNCHANGED vars
  BY <1>9 DEF vars, CalledAreIdle, Listed, IsIdle
<1>. QED BY <1>1, <1>2, <1>3, <1>4, <1>5, <1>6, <1>7, <1>8, <1>9 DEF Next, OwnerStep

\* on_dead only ever hits a connection that was beyond the idle threshold when
\* the sweep made its list.
THEOREM CallbacksHitTheIdle == Spec => []CalledAreIdle
<1>1. Init => CalledAreIdle
  BY DEF Init, CalledAreIdle, Listed
<1>. QED BY <1>1, NextCalledAreIdle, TypeCorrect, PTL DEF Spec

\* A connection on_dead was called for is off the table, or is the one it is
\* running for, or the loop is over.
CalledInv ==
  /\ \A h \in called \cup dead : idOf[h] # {} /\ h \in Healths
  /\ dead \cap called = {}
  /\ loop # "stopped" => \A h \in called \cap Tracked : h \in calling

LEMMA SweptAreNew ==
  ASSUME TypeOK, CalledInv, loop = "asleep"
  PROVE  FindDead \cap called = {}
<1>1. calling = {}
  BY DEF TypeOK
<1>. QED BY <1>1 DEF CalledInv, FindDead

LEMMA CallNextOnce ==
  ASSUME NEW S, CallNext(S), S \cap called = {}
  PROVE  /\ calling' \cap called = {} /\ dead' \cap called' = {}
         /\ calling' \subseteq S /\ dead' \subseteq S
         /\ called' = called \cup calling'
         /\ loop' # "stopped"
  BY DEF CallNext

LEMMA NextCalledInv == TypeOK /\ TableInv /\ CalledInv /\ [Next]_vars => CalledInv'
<1> SUFFICES ASSUME TypeOK, TableInv, CalledInv, [Next]_vars PROVE CalledInv'
  OBVIOUS
<1>1. CASE UNCHANGED <<table, idOf, loop, dead, calling, called>>
  BY <1>1 DEF CalledInv, Tracked
<1>2. ASSUME NEW h \in Healths, NEW i \in Ids, TrackHealth(h, i) PROVE CalledInv'
  <2>1. /\ idOf[h] = {} /\ idOf' = [idOf EXCEPT ![h] = {i}]
        /\ table' = [table EXCEPT ![i] = {h}]
        /\ UNCHANGED <<loop, dead, calling, called>>
    BY <1>2 DEF TrackHealth, sweeper
  <2>2. Tracked' \subseteq Tracked \cup {h} /\ h \notin called
    BY <2>1 DEF Tracked, CalledInv, TypeOK
  <2>3. \A g \in called \cup dead : idOf'[g] # {}
    BY <2>1 DEF CalledInv, TypeOK
  <2>. QED BY <2>1, <2>2, <2>3 DEF CalledInv
<1>3. ASSUME NEW h \in Healths, CloseConnection(h) PROVE CalledInv'
  <2>1. table' = Untrack(h) /\ UNCHANGED <<idOf, loop, dead, calling, called>>
    BY <1>3 DEF CloseConnection, sweeper
  <2>2. Tracked' \subseteq Tracked
    BY <2>1, UntrackEffect DEF Tracked
  <2>. QED BY <2>1, <2>2 DEF CalledInv
<1>4. CASE Sweep
  <2>1. loop = "asleep" /\ CallNext(FindDead) /\ UNCHANGED <<table, idOf>>
    BY <1>4 DEF Sweep, owners
  <2>2. /\ calling' \cap called = {} /\ dead' \cap called' = {}
        /\ calling' \subseteq FindDead /\ dead' \subseteq FindDead
        /\ called' = called \cup calling'
    BY <2>1, SweptAreNew, CallNextOnce
  <2>3. calling = {}
    BY <2>1 DEF TypeOK
  <2>4. \A h \in FindDead : idOf[h] # {} /\ h \in Healths
    BY DEF FindDead, Tracked, TableInv, TypeOK
  <2>5. \A h \in called' \cap Tracked : h \in calling'
    BY <2>1, <2>2, <2>3 DEF CalledInv
  <2>6. Tracked' = Tracked
    BY <2>1 DEF Tracked
  <2>. QED BY <2>1, <2>2, <2>4, <2>5, <2>6 DEF CalledInv
<1>5. CASE OnDeadEnds
  <2>1. PICK h \in calling : table' = Untrack(h)
    BY <1>5 DEF OnDeadEnds
  <2>2. loop = "calling" /\ CallNext(dead) /\ UNCHANGED idOf
    BY <1>5 DEF OnDeadEnds, owners
  <2>3. /\ calling' \cap called = {} /\ dead' \cap called' = {}
        /\ calling' \subseteq dead /\ dead' \subseteq dead
        /\ called' = called \cup calling'
    BY <2>2, CallNextOnce DEF CalledInv
  <2>4. h \in Healths /\ calling = {h}
    BY DEF TypeOK
  <2>5. Tracked' \subseteq Tracked /\ h \notin Tracked'
    BY <2>1, <2>4, UntrackEffect DEF Tracked
  <2>6. \A g \in called' \cap Tracked' : g \in calling'
    BY <2>2, <2>3, <2>4, <2>5 DEF CalledInv
  <2>. QED BY <2>2, <2>3, <2>6 DEF CalledInv
<1>6. CASE StopSweeping
  BY <1>6 DEF StopSweeping, owners, CalledInv
<1>7. CASE Tick
  BY <1>1, <1>7 DEF Tick, owners
<1>8. ASSUME NEW h \in Healths, RecordActivity(h) PROVE CalledInv'
  BY <1>1, <1>8 DEF RecordActivity, owners, sweeper
<1>9. ASSUME NEW d \in Steps, SetClock(d) PROVE CalledInv'
  BY <1>1, <1>9 DEF SetClock, owners, sweeper
<1>10. CASE UNCHANGED vars
  BY <1>1, <1>10 DEF vars
<1>. QED BY <1>2, <1>3, <1>4, <1>5, <1>6, <1>7, <1>8, <1>9, <1>10 DEF Next, OwnerStep

\* No connection gets on_dead twice, even if its callback fails, its entry is
\* taken by a namesake, or it becomes active and idle again.
THEOREM OneCallbackEach == Spec => CalledOnce
<1>1. Init => WatchInv /\ CalledInv
  BY DEF Init, WatchInv, TableInv, Open, CalledInv
<1>2. TypeOK /\ CalledInv /\ [Next]_vars
        => [\A h \in called : h \in calling' => h \in calling]_vars
  <2> SUFFICES ASSUME TypeOK, CalledInv, Next
               PROVE  \A h \in called : h \in calling' => h \in calling
    BY DEF vars
  <2>1. CASE Sweep
    <3>1. calling' \cap called = {}
      BY <2>1, SweptAreNew, CallNextOnce DEF Sweep
    <3>. QED BY <3>1
  <2>2. CASE OnDeadEnds
    <3>1. calling' \cap called = {}
      BY <2>2, CallNextOnce DEF OnDeadEnds, CalledInv
    <3>. QED BY <3>1
  <2>3. CASE calling' \subseteq calling
    BY <2>3
  <2>. QED BY <2>1, <2>2, <2>3
           DEF Next, OwnerStep, Tick, SetClock, TrackHealth, RecordActivity, CloseConnection,
               StopSweeping, sweeper, owners
<1>3. WatchInv => TableInv
  BY DEF WatchInv
<1>. QED BY <1>1, <1>2, <1>3, NextWatchInv, NextCalledInv, TypeCorrect, PTL
         DEF Spec, CalledOnce

-----------------------------------------------------------------------------
(* A sweep takes effect.                                                   *)

\* The sweep lists every tracked connection that is idle; who is on the list
\* leaves it off the table, unless the loop is cancelled, and is never on the
\* table again: not by an exception of its on_dead or of another's, by activity
\* that comes too late, or by a namesake.
SweepsTakeEffect ==
  [][/\ loop = "asleep" /\ loop' = "calling" =>
          \A h \in Tracked : IsIdle(h) => h \in Listed'
     /\ loop' # "stopped" =>
          \A h \in Listed \cup called : h \in Listed' \/ h \notin Tracked']_vars

\* The safety half of IdleAreSwept.
THEOREM SweptAreUntracked == Spec => SweepsTakeEffect
<1> DEFINE Lists == \A h \in Tracked : IsIdle(h) => h \in Listed'
           Untracks == \A h \in Listed \cup called : h \in Listed' \/ h \notin Tracked'
           Effect == /\ loop = "asleep" /\ loop' = "calling" => Lists
                     /\ loop' # "stopped" => Untracks
<1>1. TypeOK /\ WatchInv /\ CalledInv /\ CalledInv' /\ [Next]_vars => [Effect]_vars
  <2> SUFFICES ASSUME TypeOK, WatchInv, CalledInv, CalledInv', Next PROVE Effect
    OBVIOUS
  <2>1. ASSUME loop' # "stopped", NEW h \in called, h \in Tracked' PROVE h \in Listed'
    <3>1. called \subseteq called'
      BY DEF Next, OwnerStep, Tick, SetClock, TrackHealth, RecordActivity, CloseConnection,
             StopSweeping, Sweep, OnDeadEnds, CallNext, sweeper, owners
    <3>. QED BY <2>1, <3>1 DEF CalledInv, Listed
  <2>2. CASE Sweep
    <3>1. CallNext(FindDead) /\ loop = "asleep"
      BY <2>2 DEF Sweep
    <3>2. Lists
      BY <3>1 DEF CallNext, FindDead, Listed
    <3>3. Listed = {}
      BY <3>1 DEF TypeOK, Listed
    <3>. QED BY <2>1, <3>2, <3>3
  <2>3. CASE OnDeadEnds
    <3>1. CallNext(dead) /\ loop = "calling"
      BY <2>3 DEF OnDeadEnds
    <3>2. dead \subseteq Listed' /\ calling \subseteq called
      BY <3>1 DEF CallNext, Listed, WatchInv
    <3>. QED BY <2>1, <3>1, <3>2 DEF Listed
  <2>4. CASE UNCHANGED <<loop, dead, calling>>
    <3>1. Listed' = Listed
      BY <2>4 DEF Listed
    <3>. QED BY <2>1, <2>4, <3>1
  <2>5. CASE StopSweeping
    BY <2>5 DEF StopSweeping
  <2>. QED BY <2>2, <2>3, <2>4, <2>5
           DEF Next, OwnerStep, Tick, SetClock, TrackHealth, RecordActivity, CloseConnection,
               sweeper
<1>2. Init => WatchInv /\ CalledInv
  BY DEF Init, WatchInv, TableInv, Open, CalledInv
<1>3. WatchInv => TableInv
  BY DEF WatchInv
<1>. QED BY <1>1, <1>2, <1>3, NextWatchInv, NextCalledInv, TypeCorrect, PTL
         DEF Spec, SweepsTakeEffect
=============================================================================
