SPECIFICATION Spec
CONSTANTS
  t1 = t1
  t2 = t2
  d1 = d1
  Tasks = {t1, t2}
  Workers = {w1, w2}
  Domains = {d1}
  DomainOf <- MCDomainOf
  MaxRetries <- MCRetries
  QueueSize = 1
  EnqueueAttempts = 2
  MaxCrashes = 0
  Cancels = {}
  Impatient <- MCLoops
  NoTask = NoTask
SYMMETRY WorkerSymmetry
INVARIANTS TypeOK QueueMarksExact OneAttemptAtATime AttemptsBounded
PROPERTY CompletedNeverRerun
CHECK_DEADLOCK FALSE
