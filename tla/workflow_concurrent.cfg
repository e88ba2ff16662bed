CONSTANTS
  u1 = u1
  u2 = u2
  u3 = u3
  Users = {u1, u2, u3}
  Tasks = {t1}
  Requests = {r1, r2}
  Validators = {u1, u2, u3}
  Workflow <- DefaultWorkflow
  Calls <- OneSubmitter
  InitialSteps = {0, 1}
  BodyStatuses = {"todo", "completed"}
  OneAtATime = FALSE
  MaxValidations = 3
SPECIFICATION Spec
INVARIANTS DecidedRequestsAreTraced OneSubmissionPerValidator
PROPERTIES OnlyInitPartsCompletion
