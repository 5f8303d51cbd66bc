SPECIFICATION FairSpec
CONSTANTS
  t1 = t1
  t2 = t2
  d1 = d1
  Tasks = {t1, t2}
  Workers = {w1}
  Domains = {d1}
  DomainOf <- MCDomainOf
  MaxRetries <- MCRetries
  QueueSize = 1
  EnqueueAttempts = 1
  MaxCrashes = 1
  Cancels = {}
  Impatient <- MCNobody
  NoTask = NoTask
PROPERTY EveryTaskSettles
CHECK_DEADLOCK FALSE
