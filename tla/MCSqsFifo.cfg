CONSTANTS
  q = q  d = d  f = f  m1 = m1  m2 = m2  m3 = m3  g1 = g1  g2 = g2  k1 = k1  k2 = k2
  b1 = b1  c1 = c1  c2 = c2  none = none  l1 = l1  t1 = t1
  QueueNames = {f}
  FifoNames = {f}
  MsgIds = {m1, m2, m3}
  Groups = {g1, g2}
  DedupIds = {k1}
  Contents = {b1}
  Consumers = {c1}
  NoValue = none
  DefaultAttributes <- MCDefaults
  CreateRequests <- MCFifoCreates
  UpdateRequests <- MCFifoUpdates
  DelayInputs = {}
  VisibilityInputs = {}
  BatchInputs = {2}
  AttemptInputs = {1}
  TagKeys = {}
  Labels = {}
  DedupWindow = 1
  MaxDelay = 1
  MaxVisibility = 2
  MinRetention = 5
  MaxQueues = 2
  MaxReceiveBatch = 10
  MaxTime = 2
  MaxDeliveries = 1
  MaxCreates = 1
  MaxTasks = 1
SPECIFICATION Spec
SYMMETRY Symmetry
INVARIANTS FifoGroupExclusive AcceptanceKept
