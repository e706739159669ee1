CONSTANTS
  Tab = {t1, t2}
  Page = {p1}
  Timeout = 1
  Gap = 1
  LastRequest = 1
  FinalizeAttempts = 2
  Request = {r1, r2}
  Size = 2
  Composition = {c1, c2}
  Validation = {v1}
  Concurrency = 1
  Identity = {u1}
  Forking = {c1}
  MaxForks = 2
  t1 = t1
  t2 = t2
  p1 = p1
  r1 = r1
  r2 = r2
  c1 = c1
  c2 = c2
  v1 = v1
  u1 = u1
  e1 = e1
  e2 = e2
  b1 = b1
  b2 = b2
  Doc = {b1, b2}
  Revised = {b1}
  Version = {e1, e2}
  NoDoc = NoDoc
SPECIFICATION DeliverySpec
INVARIANTS TypesOK EvidenceSound SummarySound SandboxSound ReaderSound
PROPERTIES BegunEnds
CHECK_DEADLOCK FALSE
