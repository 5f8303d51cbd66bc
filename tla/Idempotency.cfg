SPECIFICATION FairSpec
CONSTANTS
  Requests = {r1, r2, r3}
  Faults <- AllFaults
  NoRequest = NoRequest
INVARIANTS TypeOK OverlapOnlyByExpiry ClaimsHaveHolders AnsweredRetriesReplay
PROPERTY WaitersAreAnswered
CHECK_DEADLOCK FALSE
