\* DROP_OLDEST on a queue of two: what messages_dropped counts.
SPECIFICATION Spec
CONSTANTS
  Strategies = {"drop_oldest"}
  Sizes = {2}
  BatchSize = 2
  Senders = {s1}
  Drainers = {d1}
  MaxBacklog = 3
INVARIANTS
  DropsAreEvictions
