\* Every strategy, queues of one, of two and without a limit, three senders that
\* call enqueue any number of times, one drainer that keeps the queue and one
\* that looks it up.
SPECIFICATION ControllerFairSpec
CONSTANTS
  Strategies = {"drop_oldest", "drop_newest", "block_sender", "disconnect"}
  Sizes = {0, 1, 2}
  BatchSize = 2
  Senders = {s1, s2, s3}
  Drainers = {d1, d2}
  MaxBacklog = 3
  Keepers = {d1}
  WarnPercent = 80
VIEW QueueView
INVARIANTS
  ControllerTypeOK
  Bounded
  NoLostWakeup
  Conservation
  HighWaterLagsByOne
  LagReportsHold
PROPERTIES
  QueueSpec
  SleepersGetServed
