SPECIFICATION Spec
CONSTANTS
  Requests = {r1, r2}
  Faults <- NoFaults
  NoRequest = NoRequest
INVARIANT OneResourcePerKey
CHECK_DEADLOCK FALSE
