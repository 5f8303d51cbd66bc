SPECIFICATION Spec
CONSTANTS
  t1 = t1
  t2 = t2
  d1 = d1
  Tasks = {t1, t2}
  Workers = {w1, w2}
  Domains = {d1}
  DomainOf <- MCDomainOf
  MaxRetries <- MCRetries
  QueueSize = 2
  EnqueueAttempts = 1
  MaxCrashes = 0
  Cancels = {t1}
  Impatient <- MCNobody
  NoTask = NoTask
SYMMETRY WorkerSymmetry
INVARIANT CancelAnswerStands
PROPERTIES SignalReachesExecution CanceledIsFinal LifecycleSpec
CHECK_DEADLOCK FALSE
