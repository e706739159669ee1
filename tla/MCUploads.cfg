CONSTANTS
  Request = {f1, f2}
  ReapAttempts = 2
  f1 = f1
  f2 = f2
  j1 = j1
  j2 = j2
  w1 = w1
  w2 = w2
  NoJob = NoJob
  Job = {j1, j2}
  Worker = {w1, w2}
  Validation = {j1}
  Unknown = {}
  Hooked = {j1}
  Cancellable = {}
  Requeueable = {}
  Scheduled = {}
  Successor <- NoSuccessor
  Histories <- Afresh
  MaxAttempts = 2
  LeaseTicks = 1
  RetryTicks = 1
  HookTicks = 2
  RecurTicks = 1
  LateTicks = 1
  MaxRequeues = 0
  d1 = d1
  d2 = d2
  c1 = c1
  c2 = c2
  GenerateAttempts = 2
  Download = {d1, d2}
  Cleaner = {c1, c2}
  Failures = 1
SPECIFICATION UploadsSpec
INVARIANTS TypesOK VersionKeepsObject LeftoversHaveReaper ExportWhole
PROPERTIES QueuedSettles
CHECK_DEADLOCK FALSE
