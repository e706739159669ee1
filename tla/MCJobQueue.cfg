\* Two runners; a validation row with a hook and a retention row that is reset and
\* cancelled, or a recurring row, its successor and a row of an unknown type.
CONSTANTS
  j1 = j1
  j2 = j2
  u1 = u1
  r1 = r1
  r2 = r2
  w1 = w1
  w2 = w2
  NoJob = NoJob
  Job = {j1, j2, u1, r1, r2}
  Worker = {w1, w2}
  Validation = {j1}
  Unknown = {u1}
  Hooked = {j1}
  Cancellable = {j2}
  Requeueable = {j2}
  Scheduled = {r1}
  Successor <- RecurringPair
  Histories <- EitherHalf
  MaxAttempts = 2
  LeaseTicks = 2
  RetryTicks = 1
  HookTicks = 1
  RecurTicks = 1
  LateTicks = 0
  MaxRequeues = 1
  Member = {m1, m2}
  Allowed = {m1, m2}
  Room = {room1}
  Request = {q1, q2}
  Preview = {p1}
  NoMember = NoMember
  NoPreview = NoPreview
  m1 = m1
  m2 = m2
  room1 = room1
  q1 = q1
  q2 = q2
  p1 = p1
SPECIFICATION QueueSpec
SYMMETRY WorkerSymmetry
INVARIANTS TypeOK TokensFenced OneLiveRun HookWithFailure ScheduleUnbroken OrganizationSound
PROPERTIES KeepsPromise 
