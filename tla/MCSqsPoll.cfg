CONSTANTS
  q = q  d = d  f = f  m1 = m1  m2 = m2  m3 = m3  g1 = g1  g2 = g2  k1 = k1  k2 = k2
  b1 = b1  c1 = c1  c2 = c2  none = none  l1 = l1  t1 = t1
  QueueNames = {q}
  FifoNames = {}
  MsgIds = {m1}
  Groups = {}
  DedupIds = {}
  Contents = {b1}
  Consumers = {c1, c2}
  NoValue = none
  DefaultAttributes <- MCDefaults
  CreateRequests <- MCPlainCreates
  UpdateRequests <- NoRequests
  DelayInputs = {1, 2}
  VisibilityInputs = {1, 3}
  BatchInputs = {2}
  AttemptInputs = {1, 3}
  TagKeys = {t1}
  Labels = {l1}
  DedupWindow = 2
  MaxDelay = 1
  MaxVisibility = 2
  MinRetention = 5
  MaxQueues = 2
  MaxReceiveBatch = 10
  MaxTime = 2
  MaxDeliveries = 2
  MaxCreates = 2
  MaxTasks = 0
SPECIFICATION LiveSpec
PROPERTIES PollStaysOnQueue PollsEnd
