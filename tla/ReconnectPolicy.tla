--------------------------- MODULE ReconnectPolicy ---------------------------
(***************************************************************************)
(* ReconnectPolicy (patterns/fault_tolerance.py): how long a client waits  *)
(* before a reconnection attempt, and when it stops trying.  Delays are    *)
(* whole ticks, jitter_fraction is a percentage, and random() is a choice. *)
(***************************************************************************)
EXTENDS Integers

CONSTANTS
  InitialDelay,   \* initial_delay_s
  MaxDelay,       \* max_delay_s
  Multiplier,     \* multiplier
  JitterPercent,  \* jitter_fraction
  MaxExponent     \* largest power of multiplier that is a float: 1023 for 2.0

ASSUME PolicyAssumption ==
  /\ InitialDelay \in Nat
  /\ MaxDelay \in Nat
  /\ JitterPercent \in 0..100
  /\ MaxExponent \in Nat
  /\ \A a \in 0..MaxExponent : InitialDelay * (Multiplier ^ a) \in Nat

-----------------------------------------------------------------------------
\* multiplier ** attempt raises OverflowError; min() comes too late for it.
Overflows(attempt) == attempt > MaxExponent

\* Mutant: the cap is forgotten.
UncappedDelay(attempt) == InitialDelay * (Multiplier ^ attempt)

RawDelay(attempt) ==
  LET d == InitialDelay * (Multiplier ^ attempt)
  IN  IF d <= MaxDelay THEN d ELSE MaxDelay

\* The jitter is at most this, up or down.
Jitter(raw) == (raw * JitterPercent) \div 100

\* The values delay_for(attempt) may return.  The jitter comes after the
\* cap, and max(0, _) after the jitter, which is at most the delay itself.
DelayFor(attempt) ==
  LET raw == RawDelay(attempt)
  IN  (raw - Jitter(raw)) .. (raw + Jitter(raw))

\* Mutant: <= for <.
RetriesOnceMore(limit, attempt) == limit = 0 \/ attempt <= limit

\* should_retry under max_attempts = limit.
ShouldRetry(limit, attempt) == limit = 0 \/ attempt < limit
=============================================================================
