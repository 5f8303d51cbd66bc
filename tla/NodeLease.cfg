SPECIFICATION FairSpec
CONSTANTS
  Nodes = {n1}
  Workers = {w1, w2}
  Owner <- MCOwner
  TTL = 3
  Period = 1
  MaxFailures = 1
  PromptWorkers = {w1}
  MaxToken = 3
  NoNode = NoNode
INVARIANTS TypeOK FreshExecutorIsAlone PromptKeepsLease DrainedIdleStaysDrained
PROPERTIES LeaseLostOnlyByExpiry LosersStop
