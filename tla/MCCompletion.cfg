SPECIFICATION Spec
CONSTANTS
  Executions = {e1}
  NoExecution = noExec
  Resources = {r1}
  MaxUnits = 1
  MaxGen = 1
  Boots = {b1}
  NoBoot = noBoot
  RequestIds = {q1}
  NoRequest = noRequest
  SafePointIds = {sp1}
  NoSafePoint = noSafePoint
  Epochs = {1, 2}
  Epoch = 1
  MaxPos = 0
  MaxCaptures = 1
INVARIANT CompletionRejectedOncePreempted
