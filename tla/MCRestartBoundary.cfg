SPECIFICATION MCSpec
CONSTANTS
  Executions = {e1}
  NoExecution = noExec
  Resources = {r1}
  MaxUnits = 1
  MaxGen = 2
  Boots = {b1, b2}
  NoBoot = noBoot
  LabelBootId = b1
  CounterBootId = b2
  RequestIds = {q1, q2}
  NoRequest = noRequest
  SafePointIds = {sp1}
  NoSafePoint = noSafePoint
  Epochs = {1}
  Epoch = 1
  MaxPos = 1
  MaxCaptures = 1
  NoImage = noImage
  exec_id = e1
  safe_point = sp1
  request_id = q1
  stale_id = q2
  Workers = {w1, w2}
  NoWorker = noWorker
  LabelBoot <- MCLabelBoot
  CounterBoot <- MCCounterBoot
  MaxRegistrations = 1
  MaxStarts = 1
  MaxUnread = 1
INVARIANT BoundaryPreserved
CHECK_DEADLOCK FALSE
