SPECIFICATION FairSpec
CONSTANTS
  Managed = {m1, m2}
  Static = {}
  TargetReady = 1
  HeartbeatTimeout = 1
  NodeMaxAge = 1
  MaxFaults = 1
  NoNode = NoNode
PROPERTIES LeakedContainersGo PoolRefills SilentNodesGo
