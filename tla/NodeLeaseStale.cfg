SPECIFICATION Spec
CONSTANTS
  Nodes = {n1}
  Workers = {w1, w2}
  Owner <- MCOwner
  TTL = 3
  Period = 1
  MaxFailures = 1
  PromptWorkers = {}
  MaxToken = 2
  NoNode = NoNode
PROPERTY StaleResultsRefused
