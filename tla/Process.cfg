SPECIFICATION ProcessSpec
CONSTANTS
  k1 = k1
  k2 = k2
  k3 = k3
  ChannelCapacity = 1
  METRIC_LABEL_CACHE_CAP = 1
  METRIC_ROUTE_LABEL_CACHE_CAP = 1
  POOL_KEY_CARDINALITY_CAP = 2
  Ttl = 1
  SampleRate = 1
  TracingPolicies <- MCPolicies
  MaxConn = 2
  MaxRequest = 3
  PoolKey <- MCPoolKey
  Boot <- MCBoot
  Updates <- MCUpdates
  Bounds <- MCBounds
CHECK_DEADLOCK FALSE
INVARIANTS LogAccounted MetricsExact SpansFlushed
PROPERTIES EveryoneServed AllStop
