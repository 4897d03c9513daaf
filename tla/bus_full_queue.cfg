\* A publisher that does not skip, and a queue of two.
SPECIFICATION FairSpec
CONSTANTS
  Channels = {c1}
  Subscribers = {s1}
  QueueSizes = {2}
  SkipLagging = {FALSE}
PROPERTIES
  DismissedReadersStop
