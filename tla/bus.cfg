\* Two subscribers, two channels, queues of one, two or five, every publisher.
SPECIFICATION FairSpec
CONSTANTS
  Channels = {c1, c2}
  Subscribers = {s1, s2}
  QueueSizes = {1, 2, 5}
  SkipLagging = {TRUE, FALSE}
INVARIANTS
  TypeOK
  ChannelsAccurate
  StopIsLast
  StopGetsThrough
PROPERTIES
  UnfloodedReadersStop
