SPECIFICATION Spec
CONSTANTS
  Requests = {goal, script}
  Goals = {goal}
  Scripts <- SomeScripts
  ModelPlans <- SomeModelPlans
  Templates <- SomeTemplates
  Pages = {home, away, check, wall}
  Foreign = {away}
  Checks = {check}
  Walls = {wall}
  Humanized = TRUE
  MaxSteps = 3
  MaxFailures = 1
  MaxRepeatActions = 2
  MaxRepeatSnapshots = 2
  MaxFaults = 2
  None = None
INVARIANTS TypeOK EffectsReported AnswersSayHow LoopsAreCut StaleSnapshotCounted ActedOnce ShotIsOwn PlanFollowed
PROPERTY AllAnswered
CHECK_DEADLOCK FALSE
