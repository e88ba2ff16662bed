CONSTANTS
  u1 = u1
  u2 = u2
  u3 = u3
  Users = {u1, u2}
  Tasks = {t1}
  Requests = {r1, r2}
  Validators = {u1, u2}
  Workflow <- ReviewedWorkflow
  Calls <- NoStatusPatch
  InitialSteps = {1}
  BodyStatuses = {"todo", "completed"}
  OneAtATime = FALSE
  MaxValidations = 4
SPECIFICATION Spec
PROPERTY RequestDecidedOnce
