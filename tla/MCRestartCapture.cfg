SPECIFICATION MCSpec
CONSTANTS
  Executions = {e1}
  NoExecution = noExec
  Resources = {}
  MaxUnits = 1
  MaxGen = 2
  Boots = {b1, b2}
  NoBoot = noBoot
  RequestIds = {q1}
  NoRequest = noRequest
  SafePointIds = {sp1}
  NoSafePoint = noSafePoint
  Epochs = {1}
  Epoch = 1
  MaxPos = 1
  MaxCaptures = 1
  NoImage = noImage
INVARIANT OwedCaptureNotSkipped
