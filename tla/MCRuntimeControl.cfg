SPECIFICATION ControlSpec
CONSTANTS
  Executions = {e1, e2}
  NoExecution = noExec
  Resources = {r1}
  MaxUnits = 1
  MaxGen = 2
  Boots = {b1, b2}
  NoBoot = noBoot
  RequestIds = {q1}
  NoRequest = noRequest
  SafePointIds = {sp1}
  NoSafePoint = noSafePoint
  Epochs = {1}
  Epoch = 1
  MaxPos = 0
  MaxCaptures = 2
SYMMETRY Symmetry
INVARIANT BoundariesSinceRequest
INVARIANT FreshResumeAuthority
INVARIANT CheckpointIsReal
INVARIANT MigrationAgreesWithResume
INVARIANT NothingHeldOncePreempted
PROPERTY QuiesceOnlyIfPreemptible
