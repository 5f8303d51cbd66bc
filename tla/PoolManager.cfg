SPECIFICATION Spec
CONSTANTS
  Managed = {m1, m2}
  Static = {}
  TargetReady = 1
  HeartbeatTimeout = 1
  NodeMaxAge = 1
  MaxFaults = 2
  NoNode = NoNode
SYMMETRY ManagedSymmetry
INVARIANTS TypeOK WarmingBounded NoContainerForgotten
PROPERTY DeadStaysDead
