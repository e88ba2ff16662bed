CONSTANTS
  u1 = u1
  u2 = u2
  u3 = u3
  Users = {u1, u2}
  Tasks = {t1}
  Requests = {r1, r2}
  Validators = {u1, u2}
  Workflow <- ReviewedWorkflow
  Calls <- AllCalls
  InitialSteps = {0, 1}
  BodyStatuses = {"todo", "completed"}
  OneAtATime = TRUE
  MaxValidations = 4
SPECIFICATION Spec
INVARIANTS TypeOK GatesPassedAreApproved OnePendingPerStep
PROPERTIES RequestDecidedOnce TasksWalkTheirGates
