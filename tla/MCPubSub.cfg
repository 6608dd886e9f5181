CONSTANTS
  t = t  d = d  s1 = s1  s2 = s2  n1 = n1  c1 = c1  k = k  a1 = a1  a2 = a2  none = none
  TopicNames = {t, d}
  SubscriptionNames = {s1, s2}
  SnapshotNames = {n1}
  Streams = {c1}
  OrderingKeys = {k}
  Attributes = {a1, a2}
  NoValue = none
  Workloads <- MCWorkloads
  DefaultAckDeadline = 1
  MaxAckDeadline = 2
  MaxPullMessages = 2
  AttemptLimits = {1, 2}
  SnapshotLifetime = 2
SPECIFICATION Spec
INVARIANTS  LeasesKept 
PROPERTIES OrderedDelivery
