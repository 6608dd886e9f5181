CONSTANTS
  q = q  d = d  f = f  m1 = m1  m2 = m2  m3 = m3  g1 = g1  g2 = g2  k1 = k1  k2 = k2
  b1 = b1  c1 = c1  c2 = c2  none = none  l1 = l1  t1 = t1
  QueueNames = {q, d}
  FifoNames = {}
  MsgIds = {m1, m2}
  Groups = {}
  DedupIds = {}
  Contents = {b1}
  Consumers = {c1}
  NoValue = none
  DefaultAttributes <- MCDefaults
  CreateRequests <- MCStandardCreates
  UpdateRequests <- MCRedriveUpdates
  DelayInputs = {}
  VisibilityInputs = {1, 3}
  BatchInputs = {2}
  AttemptInputs = {1}
  TagKeys = {}
  Labels = {}
  DedupWindow = 2
  MaxDelay = 1
  MaxVisibility = 2
  MinRetention = 1
  MaxQueues = 2
  MaxReceiveBatch = 10
  MaxTime = 3
  MaxDeliveries = 2
  MaxCreates = 2
  MaxTasks = 1
SPECIFICATION PartsSpec
SYMMETRY Symmetry
INVARIANTS LedgerInv OneCopy NeverResurrected NothingLost RestartInvisible LeaseHonoured
