---------------------------- MODULE TaskWorkflow ----------------------------
(***************************************************************************)
(* Tasks going through the workflow of their project                       *)
(* (core/projects/projects.service.ts: moveTaskToNextWorkflowStep,         *)
(* getTaskWorkflowState, updateTask, validateTask) and the decisions that  *)
(* let them pass a step which requires a validation                        *)
(* (workflow-validation.service.ts).                                       *)
(*                                                                         *)
(* Nothing but submitValidation takes a lock.  A move reads the task,      *)
(* re-reads it to check the step, and writes the step after the one of the *)
(* first read; approving or rejecting a request reads it in a transaction  *)
(* that locks nothing and writes it later.  Each read and each write is an *)
(* action; call[u] is what user u's request keeps in between.              *)
(*                                                                         *)
(* The steps of a workflow are 1..Len(Workflow); the code counts them from *)
(* 0.  Notifications and realtime events are left out: no state depends on *)
(* them and their failures are swallowed.                                  *)
(***************************************************************************)
EXTENDS Naturals, Sequences, FiniteSets

CONSTANTS Users, Tasks, Requests,
          Validators,    \* users assertValidatorRole accepts
          Workflow,      \* the steps: name, gate (requires_validation), final
          Calls,         \* Calls[u]: the endpoints user u calls
          InitialSteps,  \* steps tasks start from: 1, or 0 for tasks without one
          BodyStatuses,  \* statuses a client may send to updateTask
          OneAtATime,    \* TRUE: a call starts only when no other is in flight
          MaxValidations \* bound on the rows of task_workflow_validations

Endpoints == {"move", "state", "submit", "request", "approve", "reject", "update", "validate"}

\* names in lower case; "a_faire" and "en_cours" stand for names with a space
StepNames == {"a_faire", "todo", "draft", "en_cours", "in_progress", "review",
              "termine", "done", "approved", "other"}

Step == [name: StepNames, gate: BOOLEAN, final: BOOLEAN]

ASSUME ConstantsAssumption ==
  /\ Validators \subseteq Users
  /\ Tasks # {}
  /\ Workflow \in Seq(Step)
  /\ Workflow # <<>>
  /\ Calls \in [Users -> SUBSET Endpoints]
  /\ InitialSteps \subseteq {0, 1}
  /\ OneAtATime \in BOOLEAN
  /\ MaxValidations \in Nat

VARIABLES task, request, validations, call

vars == <<task, request, validations, call>>

-----------------------------------------------------------------------------
(* Rows and calls *)

NoStep == 0
Steps == 1..Len(Workflow)

Decisions == {"approved", "rejected"}

\* statuses the workflow and the validations give, and those a client sends
TaskStatuses == {"todo", "in_progress", "review", "completed", "approved", "revision"}
                  \cup BodyStatuses

\* completedAt is whether completed_at is set
TaskRow == [step: Steps \cup {NoStep}, status: TaskStatuses, completedAt: BOOLEAN]
\* status "none" is a request that was not made yet
RequestRow == [status: Decisions \cup {"pending", "none"}, task: Tasks, step: Steps]
NoRequestRow == [status |-> "none", task |-> CHOOSE t \in Tasks: TRUE, step |-> 1]
Validation == [task: Tasks, step: Steps, by: Users, decision: Decisions]

Idle == [at |-> "idle"]

Call ==
  {Idle}
  \cup [at: {"moveInit", "stateInit"}, task: Tasks]
  \cup [at: {"moveCheck", "moveWrite", "request"}, task: Tasks, step: Steps]
  \cup [at: {"approve"}, request: Requests]
  \cup [at: {"reject"}, request: Requests, step: Steps \cup {NoStep}]

TypeOK ==
  /\ task \in [Tasks -> TaskRow]
  /\ request \in [Requests -> RequestRow]
  /\ validations \in Seq(Validation)
  /\ call \in [Users -> Call]

\* createTask gives a task the first step; a task whose workflow was replaced has none
Init ==
  /\ task \in [Tasks -> [step: InitialSteps, status: {"todo"}, completedAt: {FALSE}]]
  /\ request = [r \in Requests |-> NoRequestRow]
  /\ validations = <<>>
  /\ call = [u \in Users |-> Idle]

-----------------------------------------------------------------------------
(* What the services compute *)

\* STEP_NAME_TO_STATUS: the names of steps, grouped by the status a move gives the task
\* ("review" stands for every name that contains it)
ForwardNames ==
  {[status |-> "todo", names |-> {"a_faire", "todo", "draft"}],
   [status |-> "in_progress", names |-> {"en_cours", "in_progress"}],
   [status |-> "review", names |-> {"review"}],
   [status |-> "completed", names |-> {"termine", "done"}],
   [status |-> "approved", names |-> {"approved"}]}

\* a rejection does not use the same table
RollbackNames ==
  {[status |-> "todo", names |-> {"a_faire", "draft"}],
   [status |-> "in_progress", names |-> {"en_cours"}],
   [status |-> "completed", names |-> {"termine", "done"}]}

\* status under which a table has the name of step s
StatusNamed(table, s, default) ==
  LET found == {row \in table: Workflow[s].name \in row.names}
  IN  IF found = {} THEN default ELSE (CHOOSE row \in found: TRUE).status

\* status a task takes when it enters step s, "kept" when it keeps its own
ForwardStatus(s) ==
  IF Workflow[s].final THEN "completed" ELSE StatusNamed(ForwardNames, s, "kept")

\* status a task takes when a rejection sends it back to step s
RollbackStatus(s) == StatusNamed(RollbackNames, s, "revision")

Entered(row, s) ==
  LET status == ForwardStatus(s)
  IN  [step |-> s,
       status |-> IF status = "kept" THEN row.status ELSE status,
       completedAt |-> row.completedAt \/ status = "completed"]

\* (mutants) the task goes back to the first step; it keeps its status
RolledBackToStart(row, s) ==
  IF s > 1 THEN [row EXCEPT !.step = 1, !.status = RollbackStatus(1)] ELSE row
RolledBackStepOnly(row, s) == IF s > 1 THEN [row EXCEPT !.step = s - 1] ELSE row

\* rollbackToPreviousStep, given the step the handler believes the task to be on
RolledBack(row, s) ==
  IF s > 1 THEN [row EXCEPT !.step = s - 1, !.status = RollbackStatus(s - 1)] ELSE row

\* assertValidatorRole: its permissions and its part in the project make u a validator
MayValidate(u) == u \in Validators

HasApproval(t, s) ==
  \E k \in DOMAIN validations:
    /\ validations[k].task = t
    /\ validations[k].step = s
    /\ validations[k].decision = "approved"

\* (mutant) only approvals count as submissions
HasSubmittedApproval(u, t, s) ==
  \E k \in DOMAIN validations:
    /\ validations[k].task = t /\ validations[k].step = s /\ validations[k].by = u
    /\ validations[k].decision = "approved"

HasSubmitted(u, t, s) ==
  \E k \in DOMAIN validations:
    validations[k].task = t /\ validations[k].step = s /\ validations[k].by = u

Pending(r, t, s) ==
  request[r].status = "pending" /\ request[r].task = t /\ request[r].step = s

\* (mutant) any validation of the step opens it
CanTransitionOnceJudged(t) ==
  LET s == task[t].step
  IN  s # NoStep /\ (Workflow[s].gate => \E u \in Users: HasSubmitted(u, t, s))

\* assertCanTransition, on the task as it is now
CanTransition(t) ==
  LET s == task[t].step
  IN  s # NoStep /\ (Workflow[s].gate => HasApproval(t, s))

\* (mutant) the decision is left to the default of its column
RecordDefault(u, t, s, decision) ==
  validations' = Append(validations, [task |-> t, step |-> s, by |-> u, decision |-> "pending"])

Record(u, t, s, decision) ==
  validations' = Append(validations, [task |-> t, step |-> s, by |-> u, decision |-> decision])

InFlight(kinds) == Cardinality({v \in Users: call[v].at \in kinds})

\* bounds: a decision, a request, is only started when there is a row left for it
RoomForDecision == Len(validations) + InFlight({"approve", "reject"}) < MaxValidations
RoomForRequest ==
  InFlight({"request"}) < Cardinality({r \in Requests: request[r].status = "none"})

-----------------------------------------------------------------------------
(* Beginning and end of a call *)

MayCall(u, endpoint) ==
  /\ call[u] = Idle
  /\ endpoint \in Calls[u]
  /\ OneAtATime => \A v \in Users: call[v] = Idle

Continue(u, c) ==
  /\ call' = [call EXCEPT ![u] = c]
  /\ UNCHANGED <<task, request, validations>>

Finish(u) == call' = [call EXCEPT ![u] = Idle]

-----------------------------------------------------------------------------
(* ProjectsService *)

\* first read of moveTaskToNextWorkflowStep
BeginMove(u, t) ==
  /\ MayCall(u, "move")
  /\ Continue(u, IF task[t].step = NoStep THEN [at |-> "moveInit", task |-> t]
                 ELSE [at |-> "moveCheck", task |-> t, step |-> task[t].step])

\* the first step of the workflow is written by id, whatever happened since the read
InitStep(u) ==
  LET c == call[u]
  IN  /\ c.at \in {"moveInit", "stateInit"}
      /\ task' = [task EXCEPT ![c.task].step = 1]
      /\ IF c.at = "moveInit"
         THEN call' = [call EXCEPT ![u] = [at |-> "moveCheck", task |-> c.task, step |-> 1]]
         ELSE Finish(u)
      /\ UNCHANGED <<request, validations>>

\* assertCanTransition re-reads the task; the next step is the one after the first read's
CheckMove(u) ==
  LET c == call[u]
  IN  /\ c.at = "moveCheck"
      /\ CanTransition(c.task)
      /\ c.step + 1 \in Steps
      /\ Continue(u, [c EXCEPT !.at = "moveWrite"])

\* ... or the call is refused: no approval, no next step, or a dependency not satisfied
RefuseMove(u) ==
  /\ call[u].at = "moveCheck"
  /\ Continue(u, Idle)

WriteMove(u) ==
  LET c == call[u]
  IN  /\ c.at = "moveWrite"
      /\ task' = [task EXCEPT ![c.task] = Entered(@, c.step + 1)]
      /\ Finish(u)
      /\ UNCHANGED <<request, validations>>

\* getTaskWorkflowState: a read that writes when the task has no step
BeginState(u, t) ==
  /\ MayCall(u, "state")
  /\ task[t].step = NoStep
  /\ Continue(u, [at |-> "stateInit", task |-> t])

\* updateTask sets the status a client sends and leaves the step where it is
UpdateStatus(u, t, status) ==
  /\ MayCall(u, "update")
  /\ task' = [task EXCEPT ![t].status = status]
  /\ UNCHANGED <<request, validations, call>>

\* validateTask neither looks at the step nor at the decisions
ValidateTask(u, t) ==
  /\ MayCall(u, "validate")
  /\ task' = [task EXCEPT ![t].status = "approved", ![t].completedAt = TRUE]
  /\ UNCHANGED <<request, validations, call>>

-----------------------------------------------------------------------------
(* WorkflowValidationService *)

\* one transaction under the lock of the task and of its step
SubmitValidation(u, t, decision) ==
  LET s == IF task[t].step = NoStep THEN 1 ELSE task[t].step
      row == [task[t] EXCEPT !.step = s]
      pending == {r \in Requests: Pending(r, t, s)}
  IN  /\ MayCall(u, "submit")
      /\ RoomForDecision
      /\ MayValidate(u)
      /\ Workflow[s].gate
      /\ ~HasSubmitted(u, t, s)
      /\ Record(u, t, s, decision)
      /\ IF pending = {} THEN UNCHANGED request
         ELSE \E r \in pending: request' = [request EXCEPT ![r].status = decision]
      /\ task' = [task EXCEPT ![t] = IF decision = "rejected" THEN RolledBack(row, s) ELSE row]
      /\ UNCHANGED call

\* (mutant) a pending request does not prevent another one
BeginRequestAgain(u, t) ==
  LET s == task[t].step
  IN  /\ MayCall(u, "request")
      /\ RoomForRequest
      /\ s # NoStep
      /\ Workflow[s].gate
      /\ Continue(u, [at |-> "request", task |-> t, step |-> s])

BeginRequest(u, t) ==
  LET s == task[t].step
  IN  /\ MayCall(u, "request")
      /\ RoomForRequest
      /\ s # NoStep
      /\ Workflow[s].gate
      /\ \A r \in Requests: ~Pending(r, t, s)
      /\ Continue(u, [at |-> "request", task |-> t, step |-> s])

InsertRequest(u, r) ==
  /\ call[u].at = "request"
  /\ request[r].status = "none"
  /\ request' = [request EXCEPT ![r] = [status |-> "pending", task |-> call[u].task,
                                        step |-> call[u].step]]
  /\ Finish(u)
  /\ UNCHANGED <<task, validations>>

\* approveValidationRequest, by id or by task: the request is read without a lock
BeginApprove(u, r) ==
  /\ MayCall(u, "approve")
  /\ RoomForDecision
  /\ MayValidate(u)
  /\ request[r].status = "pending"
  /\ Continue(u, [at |-> "approve", request |-> r])

CommitApprove(u) ==
  LET r == call[u].request
  IN  /\ call[u].at = "approve"
      /\ Record(u, request[r].task, request[r].step, "approved")
      /\ request' = [request EXCEPT ![r].status = "approved"]
      /\ Finish(u)
      /\ UNCHANGED task

\* (mutant) a request already treated may be rejected
BeginRejectTreated(u, r) ==
  /\ MayCall(u, "reject")
  /\ RoomForDecision
  /\ MayValidate(u)
  /\ request[r].status # "none"
  /\ Continue(u, [at |-> "reject", request |-> r, step |-> task[request[r].task].step])

\* rejectValidationRequest: the task is read together with the request
BeginReject(u, r) ==
  /\ MayCall(u, "reject")
  /\ RoomForDecision
  /\ MayValidate(u)
  /\ request[r].status = "pending"
  /\ Continue(u, [at |-> "reject", request |-> r, step |-> task[request[r].task].step])

\* (mutant) the rejection leaves no validation
CommitRejectUntraced(u) ==
  LET r == call[u].request
  IN  /\ call[u].at = "reject"
      /\ request' = [request EXCEPT ![r].status = "rejected"]
      /\ task' = [task EXCEPT ![request[r].task] = RolledBack(@, call[u].step)]
      /\ Finish(u)
      /\ UNCHANGED validations

CommitReject(u) ==
  LET r == call[u].request
  IN  /\ call[u].at = "reject"
      /\ Record(u, request[r].task, request[r].step, "rejected")
      /\ request' = [request EXCEPT ![r].status = "rejected"]
      /\ task' = [task EXCEPT ![request[r].task] = RolledBack(@, call[u].step)]
      /\ Finish(u)

-----------------------------------------------------------------------------
TaskStep(u) ==
  \/ \E t \in Tasks:
       \/ BeginMove(u, t)
       \/ BeginState(u, t)
       \/ \E status \in BodyStatuses: UpdateStatus(u, t, status)
       \/ ValidateTask(u, t)
  \/ InitStep(u)
  \/ CheckMove(u)
  \/ RefuseMove(u)
  \/ WriteMove(u)

ValidationStep(u) ==
  \/ \E t \in Tasks:
       \/ \E decision \in Decisions: SubmitValidation(u, t, decision)
       \/ BeginRequest(u, t)
  \/ \E r \in Requests:
       \/ InsertRequest(u, r)
       \/ BeginApprove(u, r)
       \/ BeginReject(u, r)
  \/ CommitApprove(u)
  \/ CommitReject(u)

Next == \E u \in Users: TaskStep(u) \/ ValidationStep(u)

Spec == Init /\ [][Next]_vars

-----------------------------------------------------------------------------
(* Properties *)

\* No task is past a step that requires a validation unless somebody approved that step
\* for it: what the check in moveTaskToNextWorkflowStep is for, over every interleaving
\* of moves, rejections and approvals.
GatesPassedAreApproved ==
  \A t \in Tasks, s \in Steps:
    (Workflow[s].gate /\ s < task[t].step) => HasApproval(t, s)

\* A request is decided once: whoever comes second is told it was already treated.
RequestDecidedOnce ==
  [][\A r \in Requests: request[r].status \in Decisions =>
       /\ request'[r] = request[r]
       /\ \A u \in Users: call[u].at \in {"approve", "reject"} /\ call'[u] = Idle
                            => call[u].request # r]_vars

\* A task never has two requests pending for the same step.
OnePendingPerStep ==
  \A q, r \in Requests:
    (Pending(q, request[q].task, request[q].step)
     /\ Pending(r, request[q].task, request[q].step)) => q = r

\* A decided request left its trace: a validation of its step with the same decision,
\* whoever decided and in whatever order.
DecidedRequestsAreTraced ==
  \A r \in Requests: request[r].status \in Decisions =>
    \E k \in DOMAIN validations:
      /\ validations[k].task = request[r].task
      /\ validations[k].step = request[r].step
      /\ validations[k].decision = request[r].status

CompletedElsewhere(row) ==
  row.status = "completed" /\ ~(row.step # NoStep /\ Workflow[row.step].final)

\* Where statuses only come from the workflow, moves, decisions and rollbacks that overlap
\* never leave a task completed off a final step: only the initialisation of a missing
\* step can, which writes the first step of the workflow on an earlier read and leaves the
\* status alone (projects.service.ts:675, 894).
OnlyInitPartsCompletion ==
  [][\A t \in Tasks: CompletedElsewhere(task'[t]) =>
       \/ CompletedElsewhere(task[t])
       \/ \E u \in Users: /\ call[u].at \in {"moveInit", "stateInit"}
                          /\ call[u].task = t
                          /\ call'[u] # call[u]]_vars

\* Whoever only decides through submitValidation validates a step of a task once: the lock
\* makes its check and its insertion one step, whatever the others decide meanwhile.
OneSubmissionPerValidator ==
  \A j, k \in DOMAIN validations:
    (/\ Calls[validations[j].by] \cap {"approve", "reject"} = {}
     /\ validations[j].task = validations[k].task
     /\ validations[j].step = validations[k].step
     /\ validations[j].by = validations[k].by) => j = k

-----------------------------------------------------------------------------
(* Refinement *)

Gated == INSTANCE GatedTask
           WITH Length <- Len(Workflow),
                Gates <- {s \in Steps: Workflow[s].gate},
                position <- [t \in Tasks |-> IF task[t].step = NoStep THEN 1 ELSE task[t].step],
                approved <- [t \in Tasks |-> {s \in Steps: HasApproval(t, s)}]

\* Calls served one after the other walk every task through its gates as promised: one
\* step at a time, and never beyond a gate nobody approved.
TasksWalkTheirGates == Gated!Spec
=============================================================================
