------------------------- MODULE DeadClientDetector -------------------------
(***************************************************************************)
(* DeadClientDetector and the ConnectionHealth records it watches          *)
(* (patterns/fault_tolerance.py): the sweep loop, the on_dead callback it  *)
(* awaits, and the owners that track, use and untrack their connections    *)
(* meanwhile.                                                              *)
(*                                                                         *)
(* track, untrack and find_dead are single steps of the event loop; only   *)
(* the sleep and on_dead suspend the loop.  The clock is time.time(), which*)
(* somebody may set while the program runs.  The order of _connections, in *)
(* which the dead are called, is left open; message and error counters are *)
(* left out.                                                               *)
(***************************************************************************)
EXTENDS Integers

CONSTANTS
  Healths,        \* the ConnectionHealth objects owners may create
  Ids,            \* connection ids
  IdleThreshold,  \* idle_threshold_s, in ticks
  SweepInterval,  \* sweep_interval_s, in ticks
  MaxAhead        \* bound: how far a last_activity_at may lie in the future

ASSUME DetectorAssumption ==
  IdleThreshold \in Nat /\ SweepInterval \in Nat /\ MaxAhead \in Nat

VARIABLES
  table,    \* _connections: {} or one health for each id
  idOf,     \* connection_id of each health, {} before it is tracked
  closed,   \* healths whose owner called untrack()
  idle,     \* idle_seconds of each health the table or the list has, counted
            \* from -MaxAhead to IdleThreshold + 1
  loop,     \* run_sweep_loop: "asleep", "calling" on_dead, or "stopped"
  timer,    \* ticks left of its sleep
  dead,     \* the healths of its list it has still to call on_dead for
  calling,  \* {}, or the health on_dead is running for
  called,   \* history: healths on_dead was called for
  revived   \* history: healths of that list whose idle_seconds went down since

vars == <<table, idOf, closed, idle, loop, timer, dead, calling, called, revived>>

owners == <<idOf, closed>>
sweeper == <<loop, timer, dead, calling, called>>

-----------------------------------------------------------------------------
Tracked == UNION {table[i] : i \in Ids}

Open(h) == idOf[h] # {} /\ h \notin closed

\* untrack(connection_id): whoever is under the id of h.
Untrack(h) == [i \in Ids |-> IF i \in idOf[h] THEN {} ELSE table[i]]

IsIdle(h) == idle[h] > IdleThreshold

\* Mutant: >= for >.
FindDeadFromThreshold == {h \in Tracked : idle[h] >= IdleThreshold}

FindDead == {h \in Tracked : IsIdle(h)}

Listed == dead \cup calling

Clip(n) == IF n > IdleThreshold THEN IdleThreshold + 1
           ELSE IF n < -MaxAhead THEN -MaxAhead ELSE n

\* idle_seconds when time.time() has advanced by d.
Later(d) ==
  [h \in Healths |-> IF h \in Tracked \cup Listed THEN Clip(idle[h] + d) ELSE idle[h]]

Tick ==
  /\ idle' = Later(1)
  /\ timer' = IF timer > 0 THEN timer - 1 ELSE timer
  /\ UNCHANGED <<table, owners, loop, dead, calling, called, revived>>

\* Somebody sets time.time() forward or back; asyncio.sleep() has another clock.
SetClock(d) ==
  /\ idle' = Later(d)
  /\ revived' = IF d < 0 THEN Listed ELSE revived
  /\ UNCHANGED <<table, owners, sweeper>>

\* Steps beyond this make no difference to any idle_seconds.
Steps == (-(IdleThreshold + 1 + MaxAhead))..(IdleThreshold + 1 + MaxAhead)

-----------------------------------------------------------------------------
(* Owners.                                                                 *)

\* A new connection is tracked, in the place of any other with its id.
TrackHealth(h, i) ==
  /\ idOf[h] = {}
  /\ idOf' = [idOf EXCEPT ![h] = {i}]
  /\ table' = [table EXCEPT ![i] = {h}]
  /\ UNCHANGED <<closed, idle, revived, sweeper>>

\* record_send() and record_receive(); record_error() counts as no activity.
RecordActivity(h) ==
  /\ Open(h)
  /\ idle' = [idle EXCEPT ![h] = 0]
  /\ revived' = revived \cup ({h} \cap Listed)
  /\ UNCHANGED <<table, owners, sweeper>>

\* The connection ends and its owner untracks it, by its id.
CloseConnection(h) ==
  /\ Open(h)
  /\ table' = Untrack(h)
  /\ closed' = closed \cup {h}
  /\ UNCHANGED <<idOf, idle, revived, sweeper>>

-----------------------------------------------------------------------------
(* The sweep loop.                                                         *)

\* on_dead is called for one of S, or the loop goes to sleep.
CallNext(S) ==
  \/ /\ S = {}
     /\ loop' = "asleep" /\ timer' = SweepInterval
     /\ dead' = {} /\ calling' = {}
     /\ UNCHANGED called
  \/ \E h \in S :
       /\ loop' = "calling" /\ timer' = timer
       /\ dead' = S \ {h} /\ calling' = {h}
       /\ called' = called \cup {h}

\* Mutant: the dead are untracked before their callbacks have run.
SweepUntracksFirst ==
  /\ loop = "asleep" /\ timer = 0
  /\ CallNext(FindDead)
  /\ table' = [i \in Ids |-> table[i] \ FindDead]
  /\ revived' = {}
  /\ UNCHANGED <<owners, idle>>

Sweep ==
  /\ loop = "asleep" /\ timer = 0
  /\ CallNext(FindDead)
  /\ revived' = {}
  /\ UNCHANGED <<table, owners, idle>>

\* Mutant: the connection stays tracked.
OnDeadEndsOnly ==
  /\ loop = "calling"
  /\ CallNext(dead)
  /\ UNCHANGED <<table, owners, idle, revived>>

\* Mutant: the rest of the list is put off without being dropped.
OnDeadEndsSleeps ==
  /\ loop = "calling"
  /\ \E h \in calling : table' = Untrack(h)
  /\ loop' = "asleep" /\ timer' = SweepInterval /\ calling' = {}
  /\ UNCHANGED <<dead, called, owners, idle, revived>>

\* on_dead returns or raises: its connection is untracked by id, and the next of
\* the list is called without looking at it again.
OnDeadEnds ==
  /\ loop = "calling"
  /\ \E h \in calling : table' = Untrack(h)
  /\ CallNext(dead)
  /\ UNCHANGED <<owners, idle, revived>>

\* The task that runs the loop is cancelled: suppress(Exception) lets
\* CancelledError through, and nothing is untracked.
StopSweeping ==
  /\ loop # "stopped"
  /\ loop' = "stopped"
  /\ dead' = {} /\ calling' = {}
  /\ UNCHANGED <<table, owners, idle, timer, called, revived>>

-----------------------------------------------------------------------------
Init ==
  /\ table = [i \in Ids |-> {}]
  /\ idOf = [h \in Healths |-> {}]
  /\ closed = {}
  /\ idle = [h \in Healths |-> 0]
  /\ loop = "asleep" /\ timer = SweepInterval
  /\ dead = {} /\ calling = {}
  /\ called = {}
  /\ revived = {}

OwnerStep(h) ==
  (\E i \in Ids : TrackHealth(h, i)) \/ RecordActivity(h) \/ CloseConnection(h)

Next ==
  \/ Tick
  \/ \E d \in Steps : SetClock(d)
  \/ \E h \in Healths : OwnerStep(h)
  \/ Sweep \/ OnDeadEnds \/ StopSweeping

Spec == Init /\ [][Next]_vars

\* Time passes, the event loop runs a loop whose sleep is over, and on_dead ends.
Fairness == WF_vars(Tick) /\ WF_vars(Sweep) /\ WF_vars(OnDeadEnds)

FairSpec == Spec /\ Fairness

-----------------------------------------------------------------------------
(* Properties.                                                             *)

\* Every variable has its type; the loop has a list only while it works on it.
TypeOK ==
  /\ table \in [Ids -> {{}} \cup {{h} : h \in Healths}]
  /\ idOf \in [Healths -> {{}} \cup {{i} : i \in Ids}]
  /\ closed \subseteq Healths
  /\ idle \in [Healths -> Int]
  /\ loop \in {"asleep", "calling", "stopped"}
  /\ timer \in 0..SweepInterval
  /\ dead \subseteq Healths
  /\ calling \in {{}} \cup {{h} : h \in Healths}
  /\ loop = "calling" <=> calling # {}
  /\ loop # "calling" => dead = {}
  /\ called \subseteq Healths
  /\ revived \subseteq Healths

\* No other connection ever had the id of h.
SoleOwner(h) == \A g \in Healths \ {h} : idOf[g] \cap idOf[h] = {}

\* Only open connections are tracked, and an open one stays tracked until its
\* on_dead has been called, provided its id was never used by another: untrack()
\* works by id, so the sweep, or the owner of a predecessor, takes a reconnected
\* client off the table with the connection it replaced.
OpenAreWatched ==
  /\ \A h \in Tracked : Open(h)
  /\ \A h \in Healths : Open(h) /\ SoleOwner(h) /\ h \notin called => h \in Tracked

\* on_dead is meant for connections beyond the idle threshold; those that were
\* active again, or that a clock set back made younger, since the sweep made its
\* list are the only exception, because the list is not looked at again while
\* earlier callbacks run.
CalledAreIdle == \A h \in Listed \ revived : IsIdle(h)

\* on_dead is never called again for a connection it was called for, whether it
\* returned, raised, or the id was in use again by then.
CalledOnce == [][\A h \in called : h \in calling' => h \in calling]_vars

\* A connection does not stay in the table for ever, whatever the callbacks for
\* the others do, unless it is active again and again, or the clock set again and
\* again: a clock set back only puts the sweep off.
IdleAreSwept ==
  \A h \in Healths :
    \/ []<><<RecordActivity(h)>>_vars
    \/ []<><<\E d \in Steps : d < 0 /\ SetClock(d)>>_vars
    \/ h \in Tracked ~> h \notin Tracked \/ loop = "stopped"
=============================================================================
