\* Three connections, three streams and two plain calls: the streams can starve them.
CONSTANTS
  c1 = c1
  c2 = c2
  c3 = c3
  c4 = c4
  c5 = c5
  Requests = {c1, c2, c3, c4, c5}
  Streams = {c1, c2, c3}
  PoolSize = 3
SPECIFICATION PoolFairSpec
INVARIANTS
  StarvedByStreams
PROPERTIES
  EveryCallEnds
CHECK_DEADLOCK FALSE
