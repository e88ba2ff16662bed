------------------------ MODULE TaskWorkflow_proofs ------------------------
(***************************************************************************)
(* Proofs about TaskWorkflow, for any users, tasks, requests and workflow. *)
(* Calls may overlap, except where a theorem assumes OneAtATime.           *)
(***************************************************************************)
EXTENDS TaskWorkflow, SequenceTheorems, TLAPS

\* What a call keeps is determined by where it is.
LEMMA CallShapes ==
  ASSUME NEW c \in Call
  PROVE  /\ c.at \in {"moveInit", "stateInit"} => c.task \in Tasks
         /\ c.at \in {"moveCheck", "moveWrite", "request"} => c.task \in Tasks /\ c.step \in Steps
         /\ c.at = "approve" => c.request \in Requests
         /\ c.at = "reject" => c.request \in Requests /\ c.step \in Steps \cup {NoStep}
  BY DEF Call, Idle

LEMMA IdleIsCall == Idle \in Call
  BY DEF Call

\* A workflow has a first step, and every other step has one before it.
LEMMA StepsOfWorkflow ==
  /\ 1 \in Steps
  /\ Steps \subseteq Nat
  /\ \A s \in Steps: s > 1 => s - 1 \in Steps
  <1>1. Len(Workflow) \in Nat /\ Len(Workflow) > 0
    BY ConstantsAssumption, EmptySeq, LenProperties
  <1> QED
    BY <1>1 DEF Steps

-----------------------------------------------------------------------------
(* Type correctness *)

\* Finishing keeps the types.
LEMMA FinishTyped ==
  ASSUME TypeOK, NEW u \in Users, Finish(u)
  PROVE  call' \in [Users -> Call]
  BY IdleIsCall DEF TypeOK, Finish

\* So does going on with a well-formed call.
LEMMA ContinueTyped ==
  ASSUME TypeOK, NEW u \in Users, NEW c \in Call, Continue(u, c)
  PROVE  TypeOK'
  BY DEF TypeOK, Continue

\* A row of the table of tasks may be replaced by any well-formed row.
LEMMA TaskTyped ==
  ASSUME TypeOK, NEW t \in Tasks, NEW row \in TaskRow
  PROVE  [task EXCEPT ![t] = row] \in [Tasks -> TaskRow]
  BY DEF TypeOK

\* Entering a step, or being sent back from one, leaves a well-formed row.
LEMMA StatusNamedTyped ==
  ASSUME NEW table \in SUBSET [status: TaskStatuses, names: SUBSET StepNames],
         NEW s, NEW default
  PROVE  StatusNamed(table, s, default) \in TaskStatuses \cup {default}
  BY DEF StatusNamed

LEMMA EnteredTyped ==
  ASSUME NEW row \in TaskRow, NEW s \in Steps
  PROVE  Entered(row, s) \in TaskRow
  <1>1. ForwardNames \subseteq [status: TaskStatuses, names: SUBSET StepNames]
    BY DEF ForwardNames, TaskStatuses, StepNames
  <1>2. StatusNamed(ForwardNames, s, "kept") \in TaskStatuses \cup {"kept"}
    BY <1>1, StatusNamedTyped
  <1>3. ForwardStatus(s) \in TaskStatuses \cup {"kept"}
    BY <1>2 DEF ForwardStatus, TaskStatuses
  <1> QED
    BY <1>3 DEF Entered, TaskRow

LEMMA RolledBackTyped ==
  ASSUME NEW row \in TaskRow, NEW s \in Steps \cup {NoStep}
  PROVE  RolledBack(row, s) \in TaskRow
  <1>1. RollbackNames \subseteq [status: TaskStatuses, names: SUBSET StepNames]
    BY DEF RollbackNames, TaskStatuses, StepNames
  <1>2. StatusNamed(RollbackNames, s - 1, "revision") \in TaskStatuses \cup {"revision"}
    BY <1>1, StatusNamedTyped
  <1>3. RollbackStatus(s - 1) \in TaskStatuses
    BY <1>2 DEF RollbackStatus, TaskStatuses
  <1>4. s > 1 => s - 1 \in Steps
    BY StepsOfWorkflow DEF NoStep
  <1> QED
    BY <1>3, <1>4 DEF RolledBack, TaskRow

\* A decision adds a row to the validations and leaves the others where they are.
LEMMA RecordAppends ==
  ASSUME TypeOK, NEW u \in Users, NEW t \in Tasks, NEW s \in Steps, NEW decision \in Decisions,
         Record(u, t, s, decision)
  PROVE  /\ validations' \in Seq(Validation)
         /\ DOMAIN validations = 1..Len(validations)
         /\ Len(validations) \in Nat
         /\ DOMAIN validations' = 1..(Len(validations) + 1)
         /\ \A k \in DOMAIN validations: validations'[k] = validations[k]
         /\ validations'[Len(validations) + 1]
              = [task |-> t, step |-> s, by |-> u, decision |-> decision]
  <1> DEFINE v == [task |-> t, step |-> s, by |-> u, decision |-> decision]
  <1>1. v \in Validation
    BY DEF Validation
  <1>2. validations \in Seq(Validation) /\ validations' = Append(validations, v)
    BY DEF TypeOK, Record
  <1> HIDE DEF v
  <1>3. /\ Append(validations, v) \in Seq(Validation)
        /\ Len(Append(validations, v)) = Len(validations) + 1
        /\ \A k \in 1..Len(validations): Append(validations, v)[k] = validations[k]
        /\ Append(validations, v)[Len(validations) + 1] = v
    BY <1>1, <1>2, AppendProperties
  <1>4. DOMAIN validations = 1..Len(validations) /\ Len(validations) \in Nat
    BY <1>2, LenProperties
  <1>5. DOMAIN validations' = 1..(Len(validations) + 1)
    BY <1>2, <1>3, LenProperties
  <1> QED
    BY <1>2, <1>3, <1>4, <1>5 DEF v

\* The types alone are not inductive: a move that was checked must have a step to write.
NextStepExists == \A u \in Users: call[u].at = "moveWrite" => call[u].step + 1 \in Steps

\* Every step of a call of ProjectsService keeps the types.
LEMMA TaskStepTyped ==
  ASSUME TypeOK, NextStepExists, NEW u \in Users, TaskStep(u)
  PROVE  TypeOK'
  <1>0. call[u] \in Call
    BY DEF TypeOK
  <1>1. ASSUME NEW t \in Tasks, BeginMove(u, t) PROVE TypeOK'
    <2>1. task[t].step \in Steps \cup {NoStep}
      BY DEF TypeOK, TaskRow
    <2>2. CASE task[t].step = NoStep
      <3>1. [at |-> "moveInit", task |-> t] \in Call
        BY DEF Call
      <3> QED
        BY <1>1, <2>2, <3>1, ContinueTyped DEF BeginMove
    <2>3. CASE task[t].step # NoStep
      <3>1. [at |-> "moveCheck", task |-> t, step |-> task[t].step] \in Call
        BY <2>1, <2>3 DEF Call
      <3> QED
        BY <1>1, <2>3, <3>1, ContinueTyped DEF BeginMove
    <2> QED
      BY <2>2, <2>3
  <1>2. ASSUME NEW t \in Tasks, BeginState(u, t) PROVE TypeOK'
    <2>1. [at |-> "stateInit", task |-> t] \in Call
      BY DEF Call
    <2> QED
      BY <1>2, <2>1, ContinueTyped DEF BeginState
  <1>3. ASSUME NEW t \in Tasks, NEW status \in BodyStatuses, UpdateStatus(u, t, status)
        PROVE  TypeOK'
    <2>1. [task[t] EXCEPT !.status = status] \in TaskRow
      BY DEF TypeOK, TaskRow, TaskStatuses
    <2>2. task' = [task EXCEPT ![t] = [task[t] EXCEPT !.status = status]]
      BY <1>3 DEF UpdateStatus
    <2> QED
      BY <1>3, <2>1, <2>2, TaskTyped DEF UpdateStatus, TypeOK
  <1>4. ASSUME NEW t \in Tasks, ValidateTask(u, t) PROVE TypeOK'
    <2>1. [task[t] EXCEPT !.status = "approved", !.completedAt = TRUE] \in TaskRow
      BY DEF TypeOK, TaskRow, TaskStatuses
    <2>2. task' = [task EXCEPT ![t] = [task[t] EXCEPT !.status = "approved",
                                                      !.completedAt = TRUE]]
      BY <1>4 DEF ValidateTask, TypeOK, TaskRow
    <2> QED
      BY <1>4, <2>1, <2>2, TaskTyped DEF ValidateTask, TypeOK
  <1>5. CASE InitStep(u)
    <2> DEFINE t == call[u].task
    <2>1. t \in Tasks
      BY <1>0, <1>5, CallShapes DEF InitStep
    <2>2. task' \in [Tasks -> TaskRow]
      <3>1. [task[t] EXCEPT !.step = 1] \in TaskRow
        BY <2>1, StepsOfWorkflow DEF TypeOK, TaskRow
      <3> QED
        BY <1>5, <2>1, <3>1, TaskTyped DEF InitStep
    <2>3. call' \in [Users -> Call]
      <3>1. [at |-> "moveCheck", task |-> t, step |-> 1] \in Call
        BY <2>1, StepsOfWorkflow DEF Call
      <3> QED
        BY <1>5, <3>1, FinishTyped DEF InitStep, TypeOK
    <2> QED
      BY <1>5, <2>2, <2>3 DEF InitStep, TypeOK
  <1>6. CASE CheckMove(u)
    <2>1. [call[u] EXCEPT !.at = "moveWrite"] \in Call
      BY <1>0, <1>6 DEF CheckMove, Call, Idle
    <2> QED
      BY <1>6, <2>1, ContinueTyped DEF CheckMove
  <1>7. CASE RefuseMove(u)
    BY <1>7, IdleIsCall, ContinueTyped DEF RefuseMove
  <1>8. CASE WriteMove(u)
    <2> DEFINE t == call[u].task
               s == call[u].step + 1
    <2>1. t \in Tasks /\ s \in Steps
      BY <1>0, <1>8, CallShapes DEF WriteMove, NextStepExists
    <2>2. task[t] \in TaskRow
      BY <2>1 DEF TypeOK
    <2>3. Entered(task[t], s) \in TaskRow
      BY <2>1, <2>2, EnteredTyped
    <2>4. task' = [task EXCEPT ![t] = Entered(task[t], s)]
      BY <1>8 DEF WriteMove
    <2> HIDE DEF t, s
    <2>5. task' \in [Tasks -> TaskRow]
      BY <2>1, <2>3, <2>4, TaskTyped
    <2> QED
      BY <1>8, <2>5, FinishTyped DEF WriteMove, TypeOK
  <1> QED
    BY <1>1, <1>2, <1>3, <1>4, <1>5, <1>6, <1>7, <1>8 DEF TaskStep

\* Every step of a call of WorkflowValidationService keeps the types.
LEMMA ValidationStepTyped ==
  ASSUME TypeOK, NEW u \in Users, ValidationStep(u)
  PROVE  TypeOK'
  <1>0. call[u] \in Call
    BY DEF TypeOK
  <1>1. ASSUME NEW t \in Tasks, NEW decision \in Decisions, SubmitValidation(u, t, decision)
        PROVE  TypeOK'
    <2> DEFINE s == IF task[t].step = NoStep THEN 1 ELSE task[t].step
               row == [task[t] EXCEPT !.step = s]
    <2>1. s \in Steps
      BY StepsOfWorkflow DEF TypeOK, TaskRow
    <2>2. row \in TaskRow
      BY <2>1 DEF TypeOK, TaskRow
    <2> DEFINE newRow == IF decision = "rejected" THEN RolledBack(row, s) ELSE row
               pending == {r \in Requests: Pending(r, t, s)}
    <2>3. newRow \in TaskRow
      BY <2>1, <2>2, RolledBackTyped
    <2>4. /\ Record(u, t, s, decision)
          /\ request' # request =>
               \E r \in Requests: request' = [request EXCEPT ![r].status = decision]
          /\ task' = [task EXCEPT ![t] = newRow]
          /\ UNCHANGED call
      BY <1>1 DEF SubmitValidation
    <2> HIDE DEF s, newRow
    <2>5. validations' \in Seq(Validation)
      BY <2>1, <2>4, RecordAppends
    <2>6. task' \in [Tasks -> TaskRow]
      BY <2>3, <2>4, TaskTyped
    <2>7. request' \in [Requests -> RequestRow]
      BY <2>4 DEF TypeOK, RequestRow
    <2> QED
      BY <2>4, <2>5, <2>6, <2>7 DEF TypeOK
  <1>2. ASSUME NEW t \in Tasks, BeginRequest(u, t) PROVE TypeOK'
    <2>1. task[t].step \in Steps
      BY <1>2 DEF BeginRequest, TypeOK, TaskRow
    <2>2. [at |-> "request", task |-> t, step |-> task[t].step] \in Call
      BY <2>1 DEF Call
    <2> QED
      BY <1>2, <2>2, ContinueTyped DEF BeginRequest
  <1>3. ASSUME NEW r \in Requests, InsertRequest(u, r) PROVE TypeOK'
    <2>1. call[u].task \in Tasks /\ call[u].step \in Steps
      BY <1>0, <1>3, CallShapes DEF InsertRequest
    <2>2. [status |-> "pending", task |-> call[u].task, step |-> call[u].step] \in RequestRow
      BY <2>1 DEF RequestRow
    <2> QED
      BY <1>3, <2>2, FinishTyped DEF InsertRequest, TypeOK
  <1>4. ASSUME NEW r \in Requests, BeginApprove(u, r) PROVE TypeOK'
    <2>1. [at |-> "approve", request |-> r] \in Call
      BY DEF Call
    <2> QED
      BY <1>4, <2>1, ContinueTyped DEF BeginApprove
  <1>5. ASSUME NEW r \in Requests, BeginReject(u, r) PROVE TypeOK'
    <2>1. task[request[r].task].step \in Steps \cup {NoStep}
      BY DEF TypeOK, RequestRow, TaskRow
    <2>2. [at |-> "reject", request |-> r, step |-> task[request[r].task].step] \in Call
      BY <2>1 DEF Call
    <2> QED
      BY <1>5, <2>2, ContinueTyped DEF BeginReject
  <1>6. CASE CommitApprove(u)
    <2> DEFINE r == call[u].request
    <2>1. r \in Requests
      BY <1>0, <1>6, CallShapes DEF CommitApprove
    <2>2. request[r].task \in Tasks /\ request[r].step \in Steps
      BY <2>1 DEF TypeOK, RequestRow
    <2>3. validations' \in Seq(Validation)
      BY <1>6, <2>2, RecordAppends DEF CommitApprove, Decisions
    <2>4. request' \in [Requests -> RequestRow]
      BY <1>6, <2>1 DEF CommitApprove, TypeOK, RequestRow, Decisions
    <2> QED
      BY <1>6, <2>3, <2>4, FinishTyped DEF CommitApprove, TypeOK
  <1>7. CASE CommitReject(u)
    <2> DEFINE r == call[u].request
               t == request[r].task
    <2>1. r \in Requests /\ call[u].step \in Steps \cup {NoStep}
      BY <1>0, <1>7, CallShapes DEF CommitReject
    <2>2. t \in Tasks /\ request[r].step \in Steps
      BY <2>1 DEF TypeOK, RequestRow
    <2>3. validations' \in Seq(Validation)
      BY <1>7, <2>2, RecordAppends DEF CommitReject, Decisions
    <2>4. request' \in [Requests -> RequestRow]
      BY <1>7, <2>1 DEF CommitReject, TypeOK, RequestRow, Decisions
    <2>5. RolledBack(task[t], call[u].step) \in TaskRow
      BY <2>1, <2>2, RolledBackTyped DEF TypeOK
    <2>6. task' = [task EXCEPT ![t] = RolledBack(task[t], call[u].step)]
      BY <1>7 DEF CommitReject
    <2>7. task' \in [Tasks -> TaskRow]
      BY <2>2, <2>5, <2>6, TaskTyped
    <2> QED
      BY <1>7, <2>3, <2>4, <2>7, FinishTyped DEF CommitReject, TypeOK
  <1> QED
    BY <1>1, <1>2, <1>3, <1>4, <1>5, <1>6, <1>7 DEF ValidationStep

\* A call that is not about to write a move, or one that ends, has nothing to keep.
LEMMA OtherCallsKeepNextStep ==
  ASSUME TypeOK, NextStepExists, NEW u \in Users, NEW c, c.at # "moveWrite",
         call' = [call EXCEPT ![u] = c]
  PROVE  NextStepExists'
  BY DEF NextStepExists, TypeOK

LEMMA FinishKeepsNextStep ==
  ASSUME TypeOK, NextStepExists, NEW u \in Users, Finish(u)
  PROVE  NextStepExists'
  BY OtherCallsKeepNextStep DEF Finish, Idle

\* Only the check of a move starts its write.
LEMMA KeepsNextStep ==
  ASSUME TypeOK, NextStepExists, [Next]_vars
  PROVE  NextStepExists'
  <1>1. CASE UNCHANGED call
    BY <1>1 DEF NextStepExists
  <1>2. ASSUME NEW u \in Users, CheckMove(u) PROVE NextStepExists'
    <2>1. call' = [call EXCEPT ![u] = [call[u] EXCEPT !.at = "moveWrite"]]
      BY <1>2 DEF CheckMove, Continue
    <2>2. call[u].step + 1 \in Steps
      BY <1>2 DEF CheckMove
    <2>3. [call[u] EXCEPT !.at = "moveWrite"].step = call[u].step
      BY <1>2 DEF CheckMove, TypeOK, Call, Idle
    <2> QED
      BY <2>1, <2>2, <2>3 DEF NextStepExists, TypeOK
  <1>3. ASSUME NEW u \in Users, TaskStep(u) PROVE NextStepExists'
    <2>1. ASSUME NEW t \in Tasks, BeginMove(u, t) PROVE NextStepExists'
      <3> DEFINE c == IF task[t].step = NoStep THEN [at |-> "moveInit", task |-> t]
                      ELSE [at |-> "moveCheck", task |-> t, step |-> task[t].step]
      <3>1. c.at # "moveWrite"
        OBVIOUS
      <3>2. call' = [call EXCEPT ![u] = c]
        BY <2>1 DEF BeginMove, Continue
      <3> HIDE DEF c
      <3> QED
        BY <3>1, <3>2, OtherCallsKeepNextStep
    <2>2. ASSUME NEW t \in Tasks, BeginState(u, t) PROVE NextStepExists'
      BY <2>2, OtherCallsKeepNextStep DEF BeginState, Continue
    <2>3. CASE InitStep(u)
      BY <2>3, OtherCallsKeepNextStep, FinishKeepsNextStep DEF InitStep
    <2>4. CASE RefuseMove(u)
      BY <2>4, OtherCallsKeepNextStep DEF RefuseMove, Continue, Idle
    <2>5. CASE WriteMove(u)
      BY <2>5, FinishKeepsNextStep DEF WriteMove
    <2> QED
      BY <1>1, <1>2, <1>3, <2>1, <2>2, <2>3, <2>4, <2>5
         DEF TaskStep, UpdateStatus, ValidateTask
  <1>4. ASSUME NEW u \in Users, ValidationStep(u) PROVE NextStepExists'
    <2>1. ASSUME NEW t \in Tasks, BeginRequest(u, t) PROVE NextStepExists'
      BY <2>1, OtherCallsKeepNextStep DEF BeginRequest, Continue
    <2>2. ASSUME NEW r \in Requests, BeginApprove(u, r) \/ BeginReject(u, r)
          PROVE  NextStepExists'
      BY <2>2, OtherCallsKeepNextStep DEF BeginApprove, BeginReject, Continue
    <2>3. ASSUME NEW r \in Requests, InsertRequest(u, r) PROVE NextStepExists'
      BY <2>3, FinishKeepsNextStep DEF InsertRequest
    <2>4. CASE CommitApprove(u) \/ CommitReject(u)
      BY <2>4, FinishKeepsNextStep DEF CommitApprove, CommitReject
    <2> QED
      BY <1>1, <1>4, <2>1, <2>2, <2>3, <2>4 DEF ValidationStep, SubmitValidation
  <1> QED
    BY <1>1, <1>3, <1>4 DEF Next, vars

LEMMA InitTyped == Init => TypeOK /\ NextStepExists
  <1> SUFFICES ASSUME Init PROVE TypeOK /\ NextStepExists
    OBVIOUS
  <1>1. task \in [Tasks -> TaskRow]
    <2>1. [step: InitialSteps, status: {"todo"}, completedAt: {FALSE}] \subseteq TaskRow
      BY ConstantsAssumption, StepsOfWorkflow DEF TaskRow, TaskStatuses, NoStep
    <2> QED
      BY <2>1 DEF Init
  <1>2. request \in [Requests -> RequestRow]
    <2>1. NoRequestRow \in RequestRow
      BY ConstantsAssumption, StepsOfWorkflow DEF NoRequestRow, RequestRow
    <2> QED
      BY <2>1 DEF Init
  <1>3. call \in [Users -> Call]
    BY IdleIsCall DEF Init
  <1>4. NextStepExists
    BY DEF Init, Idle, NextStepExists
  <1> QED
    BY <1>1, <1>2, <1>3, <1>4 DEF Init, TypeOK

LEMMA NextTyped == TypeOK /\ NextStepExists /\ [Next]_vars => TypeOK' /\ NextStepExists'
  <1> SUFFICES ASSUME TypeOK, NextStepExists, [Next]_vars PROVE TypeOK'
    BY KeepsNextStep
  <1>1. CASE Next
    BY <1>1, TaskStepTyped, ValidationStepTyped DEF Next
  <1>2. CASE UNCHANGED vars
    BY <1>2 DEF vars, TypeOK
  <1> QED
    BY <1>1, <1>2

\* The rows of tasks, requests and validations, and what every call in flight keeps, are
\* well formed, for any workflow and however calls overlap: in particular no move writes
\* a step beyond the end of the workflow (moveTaskToNextWorkflowStep).
THEOREM WorkflowTyped == Spec => []TypeOK
  <1>1. Init => TypeOK /\ NextStepExists
    BY InitTyped
  <1>2. TypeOK /\ NextStepExists /\ [Next]_vars => (TypeOK /\ NextStepExists)'
    BY NextTyped
  <1> QED
    BY <1>1, <1>2, PTL DEF Spec

-----------------------------------------------------------------------------
(* Decisions and their traces *)

\* What every decision does, whoever takes it and through whichever endpoint: a row of
\* validations, and no other change of requests than the same decision for its step.
Decides(u, t, s, decision) ==
  /\ Record(u, t, s, decision)
  /\ HasSubmitted(u, t, s) => call[u].at \in {"approve", "reject"}
  /\ \A r \in Requests:
       request'[r] # request[r] =>
         /\ request[r].task = t
         /\ request[r].step = s
         /\ request'[r] = [request[r] EXCEPT !.status = decision]

LEMMA SubmitDecides ==
  ASSUME TypeOK, NEW u \in Users, NEW t \in Tasks, NEW decision \in Decisions,
         SubmitValidation(u, t, decision)
  PROVE  \E s \in Steps: Decides(u, t, s, decision)
  <1> DEFINE s == IF task[t].step = NoStep THEN 1 ELSE task[t].step
  <1>1. s \in Steps
    BY StepsOfWorkflow DEF TypeOK, TaskRow
  <1>2. /\ Record(u, t, s, decision)
        /\ ~HasSubmitted(u, t, s)
        /\ request' # request =>
             \E r \in {q \in Requests: Pending(q, t, s)}:
               request' = [request EXCEPT ![r].status = decision]
    BY DEF SubmitValidation
  <1> HIDE DEF s
  <1>3. \A r \in Requests:
          request'[r] # request[r] =>
            /\ request[r].task = t
            /\ request[r].step = s
            /\ request'[r] = [request[r] EXCEPT !.status = decision]
    BY <1>2 DEF TypeOK, Pending
  <1> QED
    BY <1>1, <1>2, <1>3 DEF Decides

LEMMA CommitDecides ==
  ASSUME TypeOK, NEW u \in Users, CommitApprove(u) \/ CommitReject(u)
  PROVE  \E t \in Tasks, s \in Steps, decision \in Decisions: Decides(u, t, s, decision)
  <1> DEFINE r == call[u].request
             decision == IF CommitApprove(u) THEN "approved" ELSE "rejected"
  <1>1. r \in Requests
    BY CallShapes DEF CommitApprove, CommitReject, TypeOK
  <1>2. request[r].task \in Tasks /\ request[r].step \in Steps
    BY <1>1 DEF TypeOK, RequestRow
  <1>3. /\ Record(u, request[r].task, request[r].step, decision)
        /\ request' = [request EXCEPT ![r].status = decision]
        /\ call[u].at \in {"approve", "reject"}
    BY DEF CommitApprove, CommitReject
  <1>4. decision \in Decisions
    BY DEF Decisions
  <1> HIDE DEF decision, r
  <1>5. \A q \in Requests:
          request'[q] # request[q] =>
            /\ q = r
            /\ request'[q] = [request[q] EXCEPT !.status = decision]
    BY <1>1, <1>3 DEF TypeOK
  <1>6. Decides(u, request[r].task, request[r].step, decision)
    BY <1>3, <1>5 DEF Decides
  <1> QED
    BY <1>2, <1>4, <1>6

\* Any other step leaves the validations alone, and decides no request.
LEMMA DecisionSteps ==
  ASSUME TypeOK, [Next]_vars
  PROVE  \/ /\ UNCHANGED validations
            /\ \A r \in Requests: request'[r] = request[r] \/ request'[r].status = "pending"
         \/ \E u \in Users, t \in Tasks, s \in Steps, decision \in Decisions:
              Decides(u, t, s, decision)
  <1>1. CASE UNCHANGED <<request, validations>>
    BY <1>1
  <1>2. ASSUME NEW u \in Users, NEW r \in Requests, InsertRequest(u, r)
        PROVE  /\ UNCHANGED validations
               /\ \A q \in Requests: request'[q] = request[q] \/ request'[q].status = "pending"
    BY <1>2 DEF InsertRequest, TypeOK
  <1>3. ASSUME NEW u \in Users, TaskStep(u) PROVE UNCHANGED <<request, validations>>
    BY <1>3 DEF TaskStep, BeginMove, BeginState, UpdateStatus, ValidateTask, InitStep,
                CheckMove, RefuseMove, WriteMove, Continue
  <1>4. ASSUME NEW u \in Users, ValidationStep(u),
               ~ \E t \in Tasks, s \in Steps, decision \in Decisions: Decides(u, t, s, decision)
        PROVE  \/ UNCHANGED <<request, validations>>
               \/ \E r \in Requests: InsertRequest(u, r)
    BY <1>4, SubmitDecides, CommitDecides
       DEF ValidationStep, BeginRequest, BeginApprove, BeginReject, Continue
  <1> QED
    BY <1>1, <1>2, <1>3, <1>4 DEF Next, vars

LEMMA KeepsDecidedRequestsTraced ==
  ASSUME TypeOK, DecidedRequestsAreTraced, [Next]_vars
  PROVE  DecidedRequestsAreTraced'
  <1> SUFFICES ASSUME NEW r \in Requests, request'[r].status \in Decisions
               PROVE  \E k \in DOMAIN validations':
                        /\ validations'[k].task = request'[r].task
                        /\ validations'[k].step = request'[r].step
                        /\ validations'[k].decision = request'[r].status
    BY DEF DecidedRequestsAreTraced
  <1>1. CASE /\ UNCHANGED validations
             /\ \A q \in Requests: request'[q] = request[q] \/ request'[q].status = "pending"
    BY <1>1 DEF DecidedRequestsAreTraced, Decisions
  <1>2. ASSUME NEW u \in Users, NEW t \in Tasks, NEW s \in Steps, NEW decision \in Decisions,
               Decides(u, t, s, decision)
        PROVE  \E k \in DOMAIN validations':
                 /\ validations'[k].task = request'[r].task
                 /\ validations'[k].step = request'[r].step
                 /\ validations'[k].decision = request'[r].status
    <2> DEFINE last == Len(validations) + 1
    <2>1. /\ \A k \in DOMAIN validations: /\ k \in DOMAIN validations'
                                           /\ validations'[k] = validations[k]
          /\ last \in DOMAIN validations'
          /\ validations'[last] = [task |-> t, step |-> s, by |-> u, decision |-> decision]
      <3>1. Record(u, t, s, decision)
        BY <1>2 DEF Decides
      <3> QED
        BY <3>1, RecordAppends
    <2> HIDE DEF last
    <2>2. CASE request'[r] = request[r]
      <3>1. PICK k \in DOMAIN validations: /\ validations[k].task = request[r].task
                                          /\ validations[k].step = request[r].step
                                          /\ validations[k].decision = request[r].status
        BY <2>2 DEF DecidedRequestsAreTraced
      <3> QED
        BY <2>1, <2>2, <3>1
    <2>3. CASE request'[r] # request[r]
      <3>1. /\ request[r].task = t
            /\ request[r].step = s
            /\ request'[r] = [request[r] EXCEPT !.status = decision]
        BY <1>2, <2>3 DEF Decides
      <3>2. request[r] \in RequestRow
        BY DEF TypeOK
      <3>3. request'[r].task = t /\ request'[r].step = s /\ request'[r].status = decision
        BY <3>1, <3>2 DEF RequestRow
      <3>4. /\ validations'[last].task = request'[r].task
            /\ validations'[last].step = request'[r].step
            /\ validations'[last].decision = request'[r].status
        BY <2>1, <3>3
      <3> QED
        BY <2>1, <3>4
    <2> QED
      BY <2>2, <2>3
  <1> QED
    BY <1>1, <1>2, DecisionSteps

\* A request approved or rejected has its row in task_workflow_validations with the same
\* decision, however approveValidationRequest, rejectValidationRequest and
\* submitValidation overlap.
THEOREM DecisionsLeaveTraces == Spec => []DecidedRequestsAreTraced
  <1>1. Init => DecidedRequestsAreTraced
    BY DEF Init, DecidedRequestsAreTraced, NoRequestRow, Decisions
  <1>2. TypeOK /\ DecidedRequestsAreTraced /\ [Next]_vars => DecidedRequestsAreTraced'
    BY KeepsDecidedRequestsTraced
  <1> QED
    BY <1>1, <1>2, WorkflowTyped, PTL DEF Spec

-----------------------------------------------------------------------------
(* Submissions *)

\* The strengthening: only a user who may approve or reject has such a call in flight.
DecidersAreAllowed ==
  \A u \in Users:
    call[u].at \in {"approve", "reject"} => Calls[u] \cap {"approve", "reject"} # {}

LEMMA OtherCallsKeepDeciders ==
  ASSUME TypeOK, DecidersAreAllowed, NEW u \in Users, NEW c,
         c.at \in {"approve", "reject"} => Calls[u] \cap {"approve", "reject"} # {},
         call' = [call EXCEPT ![u] = c]
  PROVE  DecidersAreAllowed'
  BY DEF DecidersAreAllowed, TypeOK

LEMMA FinishKeepsDeciders ==
  ASSUME TypeOK, DecidersAreAllowed, NEW u \in Users, Finish(u)
  PROVE  DecidersAreAllowed'
  BY OtherCallsKeepDeciders DEF Finish, Idle

LEMMA KeepsDeciders ==
  ASSUME TypeOK, DecidersAreAllowed, [Next]_vars
  PROVE  DecidersAreAllowed'
  <1>1. CASE UNCHANGED call
    BY <1>1 DEF DecidersAreAllowed
  <1>2. ASSUME NEW u \in Users, TaskStep(u) PROVE DecidersAreAllowed'
    <2>1. ASSUME NEW t \in Tasks, BeginMove(u, t) PROVE DecidersAreAllowed'
      <3> DEFINE c == IF task[t].step = NoStep THEN [at |-> "moveInit", task |-> t]
                      ELSE [at |-> "moveCheck", task |-> t, step |-> task[t].step]
      <3>1. c.at \notin {"approve", "reject"}
        OBVIOUS
      <3>2. call' = [call EXCEPT ![u] = c]
        BY <2>1 DEF BeginMove, Continue
      <3> HIDE DEF c
      <3> QED
        BY <3>1, <3>2, OtherCallsKeepDeciders
    <2>2. ASSUME NEW t \in Tasks, BeginState(u, t) PROVE DecidersAreAllowed'
      BY <2>2, OtherCallsKeepDeciders DEF BeginState, Continue
    <2>3. CASE InitStep(u)
      BY <2>3, OtherCallsKeepDeciders, FinishKeepsDeciders DEF InitStep
    <2>4. CASE CheckMove(u)
      <3> DEFINE c == [call[u] EXCEPT !.at = "moveWrite"]
      <3>1. c.at = "moveWrite"
        BY <2>4 DEF CheckMove, TypeOK, Call, Idle
      <3>2. call' = [call EXCEPT ![u] = c]
        BY <2>4 DEF CheckMove, Continue
      <3> HIDE DEF c
      <3> QED
        BY <3>1, <3>2, OtherCallsKeepDeciders
    <2>5. CASE RefuseMove(u)
      BY <2>5, OtherCallsKeepDeciders DEF RefuseMove, Continue, Idle
    <2>6. CASE WriteMove(u)
      BY <2>6, FinishKeepsDeciders DEF WriteMove
    <2> QED
      BY <1>1, <1>2, <2>1, <2>2, <2>3, <2>4, <2>5, <2>6
         DEF TaskStep, UpdateStatus, ValidateTask
  <1>3. ASSUME NEW u \in Users, ValidationStep(u) PROVE DecidersAreAllowed'
    <2>1. ASSUME NEW t \in Tasks, BeginRequest(u, t) PROVE DecidersAreAllowed'
      BY <2>1, OtherCallsKeepDeciders DEF BeginRequest, Continue
    <2>2. ASSUME NEW r \in Requests, BeginApprove(u, r) \/ BeginReject(u, r)
          PROVE  DecidersAreAllowed'
      <3>1. Calls[u] \cap {"approve", "reject"} # {}
        BY <2>2 DEF BeginApprove, BeginReject, MayCall
      <3> QED
        BY <2>2, <3>1, OtherCallsKeepDeciders DEF BeginApprove, BeginReject, Continue
    <2>3. ASSUME NEW r \in Requests, InsertRequest(u, r) PROVE DecidersAreAllowed'
      BY <2>3, FinishKeepsDeciders DEF InsertRequest
    <2>4. CASE CommitApprove(u) \/ CommitReject(u)
      BY <2>4, FinishKeepsDeciders DEF CommitApprove, CommitReject
    <2> QED
      BY <1>1, <1>3, <2>1, <2>2, <2>3, <2>4 DEF ValidationStep, SubmitValidation
  <1> QED
    BY <1>1, <1>2, <1>3 DEF Next, vars

LEMMA KeepsOneSubmission ==
  ASSUME TypeOK, OneSubmissionPerValidator, DecidersAreAllowed, [Next]_vars
  PROVE  OneSubmissionPerValidator'
  <1>1. CASE UNCHANGED validations
    BY <1>1 DEF OneSubmissionPerValidator
  <1>2. ASSUME NEW u \in Users, NEW t \in Tasks, NEW s \in Steps, NEW decision \in Decisions,
               Decides(u, t, s, decision)
        PROVE  OneSubmissionPerValidator'
    <2> DEFINE last == Len(validations) + 1
    <2>1. /\ DOMAIN validations' = DOMAIN validations \cup {last}
          /\ \A k \in DOMAIN validations: validations'[k] = validations[k]
          /\ validations'[last] = [task |-> t, step |-> s, by |-> u, decision |-> decision]
      <3>1. Record(u, t, s, decision)
        BY <1>2 DEF Decides
      <3>2. /\ DOMAIN validations = 1..Len(validations)
            /\ Len(validations) \in Nat
            /\ DOMAIN validations' = 1..(Len(validations) + 1)
            /\ \A k \in DOMAIN validations: validations'[k] = validations[k]
            /\ validations'[Len(validations) + 1]
                 = [task |-> t, step |-> s, by |-> u, decision |-> decision]
        BY <3>1, RecordAppends
      <3>3. \A n \in Nat: 1..(n + 1) = 1..n \cup {n + 1}
        OBVIOUS
      <3> QED
        BY <3>2, <3>3
    <2> HIDE DEF last
    \* an earlier row of u for this step means that u decides through a request
    <2>2. ASSUME NEW k \in DOMAIN validations,
                 validations[k].task = t, validations[k].step = s, validations[k].by = u
          PROVE  Calls[u] \cap {"approve", "reject"} # {}
      BY <1>2, <2>2 DEF Decides, HasSubmitted, DecidersAreAllowed
    <2>3. /\ validations'[last].task = t
          /\ validations'[last].step = s
          /\ validations'[last].by = u
      BY <2>1
    <2> SUFFICES ASSUME NEW j \in DOMAIN validations', NEW k \in DOMAIN validations',
                        Calls[validations'[j].by] \cap {"approve", "reject"} = {},
                        validations'[j].task = validations'[k].task,
                        validations'[j].step = validations'[k].step,
                        validations'[j].by = validations'[k].by
                 PROVE  j = k
      BY DEF OneSubmissionPerValidator
    <2>4. CASE j \in DOMAIN validations /\ k \in DOMAIN validations
      BY <2>1, <2>4 DEF OneSubmissionPerValidator
    <2>5. CASE j = last /\ k \in DOMAIN validations
      BY <2>1, <2>2, <2>3, <2>5
    <2>6. CASE j \in DOMAIN validations /\ k = last
      BY <2>1, <2>2, <2>3, <2>6
    <2> QED
      BY <2>1, <2>4, <2>5, <2>6
  <1> QED
    BY <1>1, <1>2, DecisionSteps

\* Whoever only decides through submitValidation validates a step of a task once, however
\* many users decide at the same time: the lock of submitValidation is enough.
THEOREM SubmissionsAreUnique == Spec => []OneSubmissionPerValidator
  <1>1. Init => OneSubmissionPerValidator /\ DecidersAreAllowed
    BY DEF Init, OneSubmissionPerValidator, DecidersAreAllowed, Idle
  <1>2. TypeOK /\ OneSubmissionPerValidator /\ DecidersAreAllowed /\ [Next]_vars
          => OneSubmissionPerValidator' /\ DecidersAreAllowed'
    BY KeepsOneSubmission, KeepsDeciders
  <1> QED
    BY <1>1, <1>2, WorkflowTyped, PTL DEF Spec
-----------------------------------------------------------------------------
(* Calls served one after the other *)

\* At most one call is in flight ...
AloneInFlight ==
  \A u, v \in Users: call[u] # Idle /\ call[v] # Idle => u = v

\* ... so what it read is still so when it writes, ...
ReadsAreFresh(u) ==
  LET c == call[u]
  IN  /\ c.at \in {"moveInit", "stateInit"} => task[c.task].step = NoStep
      /\ c.at \in {"moveCheck", "moveWrite"} => task[c.task].step = c.step
      /\ c.at = "moveWrite" => (Workflow[c.step].gate => HasApproval(c.task, c.step))
      /\ c.at = "request" => /\ Workflow[c.step].gate
                             /\ \A r \in Requests: ~Pending(r, c.task, c.step)
      /\ c.at \in {"approve", "reject"} => request[c.request].status = "pending"
      /\ c.at = "reject" => c.step = task[request[c.request].task].step

\* ... and requests are only made for steps that require a validation.
RequestsAreOfGates ==
  \A r \in Requests: request[r].status # "none" => Workflow[request[r].step].gate

SerialInv ==
  /\ AloneInFlight
  /\ \A u \in Users: ReadsAreFresh(u)
  /\ RequestsAreOfGates
  /\ OnePendingPerStep

\* A step of a user's call leaves the calls of the others alone, and is taken by a call in
\* flight or by a user who may call.
LEMMA OthersStay ==
  ASSUME TypeOK, NEW u \in Users, TaskStep(u) \/ ValidationStep(u)
  PROVE  /\ \A v \in Users \ {u}: call'[v] = call[v]
         /\ call[u] # Idle \/ \E endpoint \in Endpoints: MayCall(u, endpoint)
  <1> DEFINE Goal == /\ \A v \in Users \ {u}: call'[v] = call[v]
                     /\ call[u] # Idle \/ \E endpoint \in Endpoints: MayCall(u, endpoint)
  <1> USE DEF Endpoints
  <1>1. ASSUME NEW t \in Tasks,
               \/ BeginMove(u, t) \/ BeginState(u, t) \/ ValidateTask(u, t)
               \/ \E status \in BodyStatuses: UpdateStatus(u, t, status)
        PROVE  Goal
    BY <1>1 DEF BeginMove, BeginState, ValidateTask, UpdateStatus, Continue, TypeOK
  <1>2. CASE InitStep(u) \/ CheckMove(u) \/ RefuseMove(u) \/ WriteMove(u)
    BY <1>2 DEF InitStep, CheckMove, RefuseMove, WriteMove, Continue, Finish, Idle, TypeOK
  <1>3. ASSUME NEW t \in Tasks,
               \/ BeginRequest(u, t)
               \/ \E decision \in Decisions: SubmitValidation(u, t, decision)
        PROVE  Goal
    BY <1>3 DEF BeginRequest, SubmitValidation, Continue, TypeOK
  <1>4. ASSUME NEW r \in Requests, InsertRequest(u, r) \/ BeginApprove(u, r) \/ BeginReject(u, r)
        PROVE  Goal
    BY <1>4 DEF InsertRequest, BeginApprove, BeginReject, Continue, Finish, Idle, TypeOK
  <1>5. CASE CommitApprove(u) \/ CommitReject(u)
    BY <1>5 DEF CommitApprove, CommitReject, Finish, Idle, TypeOK
  <1> QED
    BY <1>1, <1>2, <1>3, <1>4, <1>5 DEF TaskStep, ValidationStep

LEMMA Alone ==
  ASSUME OneAtATime, TypeOK, AloneInFlight, NEW u \in Users, TaskStep(u) \/ ValidationStep(u)
  PROVE  \A v \in Users \ {u}: call[v] = Idle /\ call'[v] = Idle
  <1>1. /\ \A v \in Users \ {u}: call'[v] = call[v]
        /\ call[u] # Idle \/ \A v \in Users: call[v] = Idle
    BY OthersStay DEF MayCall
  <1> QED
    BY <1>1 DEF AloneInFlight

\* An idle call has read nothing.
LEMMA IdleIsFresh ==
  ASSUME NEW u \in Users
  PROVE  /\ call[u] = Idle => ReadsAreFresh(u)
         /\ call'[u] = Idle => ReadsAreFresh(u)'
  BY DEF ReadsAreFresh, Idle

LEMMA FinishIsFresh ==
  ASSUME TypeOK, NEW u \in Users, Finish(u)
  PROVE  ReadsAreFresh(u)'
  BY IdleIsFresh DEF Finish, TypeOK

\* What a call read is fresh after each of its own steps.
LEMMA TaskStepIsFresh ==
  ASSUME OneAtATime, TypeOK, AloneInFlight, NEW u \in Users, ReadsAreFresh(u), TaskStep(u)
  PROVE  ReadsAreFresh(u)'
  <1>0. call[u] \in Call
    BY DEF TypeOK
  <1>1. ASSUME NEW t \in Tasks, BeginMove(u, t) PROVE ReadsAreFresh(u)'
    <2>1. UNCHANGED task
      BY <1>1 DEF BeginMove, Continue
    <2>2. CASE task[t].step = NoStep
      <3>1. call'[u] = [at |-> "moveInit", task |-> t]
        BY <1>1, <2>2 DEF BeginMove, Continue, TypeOK
      <3> QED
        BY <2>1, <2>2, <3>1 DEF ReadsAreFresh
    <2>3. CASE task[t].step # NoStep
      <3>1. call'[u] = [at |-> "moveCheck", task |-> t, step |-> task[t].step]
        BY <1>1, <2>3 DEF BeginMove, Continue, TypeOK
      <3> QED
        BY <2>1, <3>1 DEF ReadsAreFresh
    <2> QED
      BY <2>2, <2>3
  <1>2. ASSUME NEW t \in Tasks, BeginState(u, t) PROVE ReadsAreFresh(u)'
    BY <1>2 DEF BeginState, Continue, TypeOK, ReadsAreFresh
  <1>3. ASSUME NEW t \in Tasks, ValidateTask(u, t) \/ \E s \in BodyStatuses: UpdateStatus(u, t, s)
        PROVE  ReadsAreFresh(u)'
    BY <1>3, IdleIsFresh DEF ValidateTask, UpdateStatus, MayCall
  <1>4. CASE InitStep(u)
    <2>1. call[u].task \in Tasks
      BY <1>0, <1>4, CallShapes DEF InitStep
    <2>2. CASE call[u].at = "moveInit"
      <3>1. /\ call'[u] = [at |-> "moveCheck", task |-> call[u].task, step |-> 1]
            /\ task'[call[u].task].step = 1
        BY <1>4, <2>1, <2>2 DEF InitStep, TypeOK, TaskRow
      <3> QED
        BY <3>1 DEF ReadsAreFresh
    <2>3. CASE call[u].at # "moveInit"
      BY <1>4, <2>3, FinishIsFresh DEF InitStep
    <2> QED
      BY <2>2, <2>3
  <1>5. CASE CheckMove(u)
    <2> DEFINE c == call[u]
    <2>1. c \in [at: {"moveCheck"}, task: Tasks, step: Steps]
      BY <1>0, <1>5 DEF CheckMove, Call, Idle
    <2>2. call'[u] = [c EXCEPT !.at = "moveWrite"]
      BY <1>5 DEF CheckMove, Continue, TypeOK
    <2>3. call'[u].at = "moveWrite" /\ call'[u].task = c.task /\ call'[u].step = c.step
      BY <2>1, <2>2
    <2>4. task[c.task].step = c.step
      BY <2>1 DEF ReadsAreFresh
    <2>5. Workflow[c.step].gate => HasApproval(c.task, c.step)
      BY <1>5, <2>4 DEF CheckMove, CanTransition
    <2>6. UNCHANGED <<task, validations>>
      BY <1>5 DEF CheckMove, Continue
    <2> QED
      BY <2>3, <2>4, <2>5, <2>6 DEF ReadsAreFresh, HasApproval
  <1>6. CASE RefuseMove(u)
    BY <1>6, IdleIsFresh DEF RefuseMove, Continue, TypeOK
  <1>7. CASE WriteMove(u)
    BY <1>7, FinishIsFresh DEF WriteMove
  <1> QED
    BY <1>1, <1>2, <1>3, <1>4, <1>5, <1>6, <1>7 DEF TaskStep

LEMMA ValidationStepIsFresh ==
  ASSUME OneAtATime, TypeOK, AloneInFlight, NEW u \in Users, ReadsAreFresh(u), ValidationStep(u)
  PROVE  ReadsAreFresh(u)'
  <1>1. ASSUME NEW t \in Tasks, \E decision \in Decisions: SubmitValidation(u, t, decision)
        PROVE  ReadsAreFresh(u)'
    BY <1>1, IdleIsFresh DEF SubmitValidation, MayCall
  <1>2. ASSUME NEW t \in Tasks, BeginRequest(u, t) PROVE ReadsAreFresh(u)'
    <2>1. /\ call'[u] = [at |-> "request", task |-> t, step |-> task[t].step]
          /\ UNCHANGED request
          /\ Workflow[task[t].step].gate
          /\ \A r \in Requests: ~Pending(r, t, task[t].step)
      BY <1>2 DEF BeginRequest, Continue, TypeOK
    <2> QED
      BY <2>1 DEF ReadsAreFresh, Pending
  <1>3. ASSUME NEW r \in Requests, BeginApprove(u, r) PROVE ReadsAreFresh(u)'
    <2>1. /\ call'[u] = [at |-> "approve", request |-> r]
          /\ UNCHANGED request
          /\ request[r].status = "pending"
      BY <1>3 DEF BeginApprove, Continue, TypeOK
    <2> QED
      BY <2>1 DEF ReadsAreFresh
  <1>4. ASSUME NEW r \in Requests, BeginReject(u, r) PROVE ReadsAreFresh(u)'
    <2>1. /\ call'[u] = [at |-> "reject", request |-> r, step |-> task[request[r].task].step]
          /\ UNCHANGED <<task, request>>
          /\ request[r].status = "pending"
      BY <1>4 DEF BeginReject, Continue, TypeOK
    <2> QED
      BY <2>1 DEF ReadsAreFresh
  <1>5. ASSUME NEW r \in Requests, InsertRequest(u, r) PROVE ReadsAreFresh(u)'
    BY <1>5, FinishIsFresh DEF InsertRequest
  <1>6. CASE CommitApprove(u) \/ CommitReject(u)
    BY <1>6, FinishIsFresh DEF CommitApprove, CommitReject
  <1> QED
    BY <1>1, <1>2, <1>3, <1>4, <1>5, <1>6 DEF ValidationStep

\* What a step does to requests: nothing, insert one, or decide one that is pending.
LEMMA RequestSteps ==
  ASSUME TypeOK, NEW u \in Users, ReadsAreFresh(u), TaskStep(u) \/ ValidationStep(u)
  PROVE  \/ UNCHANGED request
         \/ \E r \in Requests: InsertRequest(u, r)
         \/ \E r \in Requests, decision \in Decisions:
              /\ request[r].status = "pending"
              /\ request' = [request EXCEPT ![r].status = decision]
  <1>1. CASE TaskStep(u)
    BY <1>1 DEF TaskStep, BeginMove, BeginState, UpdateStatus, ValidateTask, InitStep,
                CheckMove, RefuseMove, WriteMove, Continue
  <1>2. ASSUME NEW t \in Tasks, NEW decision \in Decisions, SubmitValidation(u, t, decision)
        PROVE  \/ UNCHANGED request
               \/ \E r \in Requests: /\ request[r].status = "pending"
                                     /\ request' = [request EXCEPT ![r].status = decision]
    BY <1>2 DEF SubmitValidation, Pending
  <1>3. CASE CommitApprove(u) \/ CommitReject(u)
    <2>1. call[u].request \in Requests
      BY <1>3, CallShapes DEF CommitApprove, CommitReject, TypeOK
    <2> QED
      BY <1>3, <2>1 DEF CommitApprove, CommitReject, ReadsAreFresh, Decisions
  <1>4. ASSUME NEW r \in Requests, BeginApprove(u, r) \/ BeginReject(u, r)
        PROVE  UNCHANGED request
    BY <1>4 DEF BeginApprove, BeginReject, Continue
  <1>5. ASSUME NEW t \in Tasks, BeginRequest(u, t) PROVE UNCHANGED request
    BY <1>5 DEF BeginRequest, Continue
  <1> QED
    BY <1>1, <1>2, <1>3, <1>4, <1>5 DEF ValidationStep

LEMMA KeepsRequests ==
  ASSUME TypeOK, RequestsAreOfGates, OnePendingPerStep,
         NEW u \in Users, ReadsAreFresh(u), TaskStep(u) \/ ValidationStep(u)
  PROVE  RequestsAreOfGates' /\ OnePendingPerStep'
  <1>1. CASE UNCHANGED request
    BY <1>1 DEF RequestsAreOfGates, OnePendingPerStep, Pending
  <1>2. ASSUME NEW r \in Requests, InsertRequest(u, r)
        PROVE  RequestsAreOfGates' /\ OnePendingPerStep'
    <2> DEFINE c == call[u]
               new == [status |-> "pending", task |-> c.task, step |-> c.step]
    <2>1. /\ Workflow[c.step].gate
          /\ \A q \in Requests: ~Pending(q, c.task, c.step)
      BY <1>2 DEF InsertRequest, ReadsAreFresh
    <2>2. /\ request'[r] = new
          /\ \A q \in Requests \ {r}: request'[q] = request[q]
      BY <1>2 DEF InsertRequest, TypeOK
    <2>3. RequestsAreOfGates'
      BY <2>1, <2>2 DEF RequestsAreOfGates
    <2>4. OnePendingPerStep'
      BY <2>1, <2>2 DEF OnePendingPerStep, Pending
    <2> QED
      BY <2>3, <2>4
  <1>3. ASSUME NEW r \in Requests, NEW decision \in Decisions,
               request[r].status = "pending",
               request' = [request EXCEPT ![r].status = decision]
        PROVE  RequestsAreOfGates' /\ OnePendingPerStep'
    <2>1. /\ request'[r] = [request[r] EXCEPT !.status = decision]
          /\ \A q \in Requests \ {r}: request'[q] = request[q]
          /\ request[r] \in RequestRow
      BY <1>3 DEF TypeOK
    <2>2. /\ request'[r].status = decision
          /\ request'[r].step = request[r].step
          /\ decision # "pending"
      BY <2>1 DEF RequestRow, Decisions
    <2>3. RequestsAreOfGates'
      BY <1>3, <2>1, <2>2 DEF RequestsAreOfGates
    <2>4. OnePendingPerStep'
      <3>1. \A q \in Requests: request'[q].status = "pending" => request'[q] = request[q]
        BY <2>1, <2>2
      <3> QED
        BY <3>1 DEF OnePendingPerStep, Pending
    <2> QED
      BY <2>3, <2>4
  <1> QED
    BY <1>1, <1>2, <1>3, RequestSteps

LEMMA KeepsSerial ==
  ASSUME OneAtATime, TypeOK, SerialInv, [Next]_vars
  PROVE  SerialInv'
  <1>1. CASE UNCHANGED vars
    BY <1>1 DEF vars, SerialInv, AloneInFlight, ReadsAreFresh, HasApproval, Pending,
                RequestsAreOfGates, OnePendingPerStep
  <1>2. ASSUME NEW u \in Users, TaskStep(u) \/ ValidationStep(u) PROVE SerialInv'
    <2>1. \A v \in Users \ {u}: call[v] = Idle /\ call'[v] = Idle
      BY <1>2, Alone DEF SerialInv
    <2>2. AloneInFlight'
      BY <2>1 DEF AloneInFlight
    <2>3. ReadsAreFresh(u)'
      BY <1>2, TaskStepIsFresh, ValidationStepIsFresh DEF SerialInv
    <2>4. \A v \in Users: ReadsAreFresh(v)'
      BY <2>1, <2>3, IdleIsFresh
    <2>5. RequestsAreOfGates' /\ OnePendingPerStep'
      BY <1>2, KeepsRequests DEF SerialInv
    <2> QED
      BY <2>2, <2>4, <2>5 DEF SerialInv
  <1> QED
    BY <1>1, <1>2 DEF Next

LEMMA WorkflowIsSerial == OneAtATime => (Spec => [](TypeOK /\ SerialInv))
  <1>1. Init => SerialInv
    BY DEF Init, SerialInv, AloneInFlight, ReadsAreFresh, Idle, NoRequestRow,
           RequestsAreOfGates, OnePendingPerStep, Pending
  <1>2. OneAtATime /\ TypeOK /\ SerialInv /\ [Next]_vars => SerialInv'
    BY KeepsSerial
  <1>3. CASE OneAtATime
    <2>1. TypeOK /\ SerialInv /\ [Next]_vars => SerialInv'
      BY <1>2, <1>3
    <2>2. Spec => [](TypeOK /\ SerialInv)
      BY <1>1, <2>1, WorkflowTyped, PTL DEF Spec
    <2> QED
      BY <2>2
  <1> QED
    BY <1>3

\* When calls are served one after the other, a task never has two requests pending for the
\* same step: requestValidation finds the pending one and refuses.
THEOREM PendingRequestsAreUnique == OneAtATime => (Spec => []OnePendingPerStep)
  <1>1. SerialInv => OnePendingPerStep
    BY DEF SerialInv
  <1>2. CASE OneAtATime
    <2>1. Spec => [](TypeOK /\ SerialInv)
      BY <1>2, WorkflowIsSerial
    <2>2. Spec => []OnePendingPerStep
      BY <1>1, <2>1, PTL
    <2> QED
      BY <2>2
  <1> QED
    BY <1>2
\* A call that ends with a decision decided a request that was pending.
LEMMA DecidesOnce ==
  ASSUME TypeOK, SerialInv, OneAtATime, NEW u \in Users, TaskStep(u) \/ ValidationStep(u),
         NEW r \in Requests, request[r].status \in Decisions
  PROVE  /\ request'[r] = request[r]
         /\ \A v \in Users: call[v].at \in {"approve", "reject"} /\ call'[v] = Idle
                              => call[v].request # r
  <1>0. request[r].status # "pending" /\ request[r].status # "none"
    BY DEF Decisions
  <1>1. request'[r] = request[r]
    <2>1. ASSUME NEW q \in Requests, InsertRequest(u, q) PROVE request'[r] = request[r]
      BY <1>0, <2>1 DEF InsertRequest, TypeOK
    <2>2. ASSUME NEW q \in Requests, NEW decision \in Decisions,
                 request[q].status = "pending",
                 request' = [request EXCEPT ![q].status = decision]
          PROVE  request'[r] = request[r]
      BY <1>0, <2>2 DEF TypeOK
    <2> QED
      BY <2>1, <2>2, RequestSteps DEF SerialInv
  <1>2. \A v \in Users: call[v].at \in {"approve", "reject"} => call[v].request # r
    BY <1>0 DEF SerialInv, ReadsAreFresh
  <1> QED
    BY <1>1, <1>2

\* When calls are served one after the other, a request already approved or rejected is
\* never decided again, whoever asks: approveValidationRequest and
\* rejectValidationRequest find it treated.
THEOREM RequestsAreDecidedOnce == OneAtATime => (Spec => RequestDecidedOnce)
  <1> DEFINE Once == \A r \in Requests: request[r].status \in Decisions =>
                       /\ request'[r] = request[r]
                       /\ \A u \in Users: call[u].at \in {"approve", "reject"} /\ call'[u] = Idle
                                            => call[u].request # r
  <1>1. ASSUME OneAtATime, TypeOK, SerialInv, [Next]_vars PROVE [Once]_vars
    <2>1. ASSUME NEW u \in Users, TaskStep(u) \/ ValidationStep(u) PROVE Once
      BY <1>1, <2>1, DecidesOnce
    <2> QED
      BY <1>1, <2>1 DEF Next
  <1> HIDE DEF Once
  <1>2. CASE OneAtATime
    <2>1. Spec => [](TypeOK /\ SerialInv)
      BY <1>2, WorkflowIsSerial
    <2>2. TypeOK /\ SerialInv /\ [Next]_vars => [Once]_vars
      BY <1>1, <1>2
    <2>3. Spec => [][Once]_vars
      BY <2>1, <2>2, PTL DEF Spec
    <2> QED
      BY <2>3 DEF Once, RequestDecidedOnce
  <1> QED
    BY <1>2

-----------------------------------------------------------------------------
(* The walk through the gates *)

\* Where a task is, and what was approved for it, as GatedTask sees them.
Position == [t \in Tasks |-> IF task[t].step = NoStep THEN 1 ELSE task[t].step]
Approved == [t \in Tasks |-> {s \in Steps: HasApproval(t, s)}]
GateSteps == {s \in Steps: Workflow[s].gate}

\* A decision adds its step to the approved ones of its task when it is an approval, and
\* approves nothing otherwise.
LEMMA RecordApproves ==
  ASSUME TypeOK, NEW u \in Users, NEW t \in Tasks, NEW s \in Steps, NEW decision \in Decisions,
         Record(u, t, s, decision)
  PROVE  Approved' = IF decision = "approved" THEN [Approved EXCEPT ![t] = @ \cup {s}]
                     ELSE Approved
  <1> DEFINE last == Len(validations) + 1
             n == Len(validations)
  <1>1. /\ DOMAIN validations' = DOMAIN validations \cup {last}
        /\ \A k \in DOMAIN validations: validations'[k] = validations[k]
        /\ validations'[last] = [task |-> t, step |-> s, by |-> u, decision |-> decision]
    <2>1. /\ DOMAIN validations = 1..n
          /\ n \in Nat
          /\ DOMAIN validations' = 1..(n + 1)
          /\ \A k \in DOMAIN validations: validations'[k] = validations[k]
          /\ validations'[n + 1] = [task |-> t, step |-> s, by |-> u, decision |-> decision]
      BY RecordAppends
    <2>2. \A m \in Nat: 1..(m + 1) = 1..m \cup {m + 1}
      OBVIOUS
    <2> QED
      BY <2>1, <2>2
  <1>2. /\ validations'[last].task = t
        /\ validations'[last].step = s
        /\ validations'[last].decision = decision
    BY <1>1
  <1> HIDE DEF last
  <1>3. \A t2 \in Tasks, s2 \in Steps:
          HasApproval(t2, s2)' <=>
            HasApproval(t2, s2) \/ (t2 = t /\ s2 = s /\ decision = "approved")
    BY <1>1, <1>2 DEF HasApproval
  <1>4. \A t2 \in Tasks:
          {s2 \in Steps: HasApproval(t2, s2)'} =
            IF t2 = t /\ decision = "approved" THEN {s2 \in Steps: HasApproval(t2, s2)} \cup {s}
            ELSE {s2 \in Steps: HasApproval(t2, s2)}
    BY <1>3
  <1> QED
    BY <1>4 DEF Approved

\* Every step of a call served alone is one of GatedTask, or changes nothing it sees.
LEMMA GatedStep ==
  ASSUME OneAtATime, TypeOK, NextStepExists, SerialInv, [Next]_vars
  PROVE  [Gated!Next]_(Gated!vars)
  <1> DEFINE Stutter == Position' = Position /\ Approved' = Approved
             Advances(t) == /\ Position[t] < Len(Workflow)
                            /\ Position[t] \in GateSteps => Position[t] \in Approved[t]
                            /\ Position' = [Position EXCEPT ![t] = @ + 1]
                            /\ Approved' = Approved
             IsSentBack(t) == /\ Position[t] > 1
                              /\ Position' = [Position EXCEPT ![t] = @ - 1]
                              /\ Approved' = Approved
             IsApproved(t, s) == /\ Approved' = [Approved EXCEPT ![t] = @ \cup {s}]
                                 /\ Position' = Position
             Goal == \/ Stutter
                     \/ \E t \in Tasks: Advances(t) \/ IsSentBack(t)
                                        \/ \E s \in GateSteps: IsApproved(t, s)
  <1>0. /\ UNCHANGED task => Position' = Position
        /\ UNCHANGED validations => Approved' = Approved
    BY DEF Position, Approved, HasApproval
  <1>1. ASSUME NEW u \in Users, InitStep(u) PROVE Stutter
    <2>1. call[u].task \in Tasks /\ task[call[u].task].step = NoStep
      BY <1>1, CallShapes DEF InitStep, TypeOK, SerialInv, ReadsAreFresh
    <2>2. \A t \in Tasks: \/ task'[t].step = task[t].step
                          \/ task[t].step = NoStep /\ task'[t].step = 1
      BY <1>1, <2>1 DEF InitStep, TypeOK, TaskRow
    <2>3. Position' = Position
      BY <2>2 DEF Position, NoStep
    <2> QED
      BY <1>0, <1>1, <2>3 DEF InitStep
  <1>2. ASSUME NEW u \in Users, WriteMove(u) PROVE Goal
    <2> DEFINE t == call[u].task
               s == call[u].step
    <2>1. t \in Tasks /\ s \in Steps /\ s + 1 \in Steps /\ s # NoStep /\ s + 1 # NoStep
      BY <1>2, CallShapes DEF WriteMove, TypeOK, NextStepExists, Steps, NoStep
    <2>2. task[t].step = s /\ (Workflow[s].gate => HasApproval(t, s))
      BY <1>2 DEF WriteMove, SerialInv, ReadsAreFresh
    <2>3. task' = [task EXCEPT ![t] = Entered(task[t], s + 1)]
      BY <1>2 DEF WriteMove
    <2>4. Entered(task[t], s + 1).step = s + 1
      BY DEF Entered
    <2>5. Position[t] = s
      BY <2>1, <2>2 DEF Position
    <2>6. /\ \A t2 \in Tasks \ {t}: task'[t2] = task[t2]
          /\ task'[t].step = s + 1
      BY <2>1, <2>3, <2>4 DEF TypeOK
    <2>7. Position' = [Position EXCEPT ![t] = @ + 1]
      BY <2>1, <2>5, <2>6 DEF Position
    <2>8. s < Len(Workflow)
      BY <2>1, StepsOfWorkflow DEF Steps
    <2>9. Position[t] \in GateSteps => Position[t] \in Approved[t]
      BY <2>1, <2>2, <2>5 DEF GateSteps, Approved
    <2>10. Approved' = Approved
      BY <1>0, <1>2 DEF WriteMove
    <2> QED
      BY <2>1, <2>5, <2>7, <2>8, <2>9, <2>10
  \* a rejection sends the task back from the step it is on, if it is not the first
  <1>3. ASSUME NEW t \in Tasks, NEW s \in Steps \cup {NoStep},
               s = task[t].step \/ (task[t].step = NoStep /\ s = 1),
               NEW row \in TaskRow, row.step = s,
               task' = [task EXCEPT ![t] = RolledBack(row, s)],
               Approved' = Approved
        PROVE  Goal
    <2>0. /\ \A t2 \in Tasks \ {t}: task'[t2] = task[t2]
          /\ task'[t] = RolledBack(row, s)
      BY <1>3 DEF TypeOK
    <2>1. CASE s > 1
      <3>1. s \in Steps /\ s - 1 \in Steps /\ s # NoStep /\ s - 1 # NoStep
        BY <2>1, StepsOfWorkflow DEF NoStep
      <3>2. RolledBack(row, s).step = s - 1
        BY <1>3, <2>1 DEF RolledBack, TaskRow
      <3>3. Position[t] = s
        BY <1>3, <2>1, <3>1 DEF Position
      <3>4. Position' = [Position EXCEPT ![t] = @ - 1]
        BY <2>0, <3>1, <3>2, <3>3 DEF Position
      <3> QED
        BY <1>3, <2>1, <3>3, <3>4
    <2>2. CASE ~(s > 1)
      <3>1. s \in {NoStep, 1}
        BY <2>2, StepsOfWorkflow DEF NoStep, Steps
      <3>2. task'[t].step = s
        BY <1>3, <2>0, <2>2 DEF RolledBack
      <3>3. Position' = Position
        BY <1>3, <2>0, <3>1, <3>2 DEF Position, NoStep
      <3> QED
        BY <1>3, <3>3
    <2> QED
      BY <2>1, <2>2
  <1>4. ASSUME NEW u \in Users, NEW t \in Tasks, NEW decision \in Decisions,
               SubmitValidation(u, t, decision)
        PROVE  Goal
    <2> DEFINE s == IF task[t].step = NoStep THEN 1 ELSE task[t].step
               row == [task[t] EXCEPT !.step = s]
    <2>1. s \in Steps /\ row \in TaskRow /\ row.step = s
      BY StepsOfWorkflow DEF TypeOK, TaskRow
    <2>2. /\ Workflow[s].gate
          /\ Record(u, t, s, decision)
          /\ task' = [task EXCEPT ![t] = IF decision = "rejected" THEN RolledBack(row, s) ELSE row]
      BY <1>4 DEF SubmitValidation
    <2>3. s = task[t].step \/ (task[t].step = NoStep /\ s = 1)
      OBVIOUS
    <2> HIDE DEF s, row
    <2>4. CASE decision = "rejected"
      <3>1. Approved' = Approved
        BY <2>1, <2>2, <2>4, RecordApproves
      <3> QED
        BY <1>3, <2>1, <2>2, <2>3, <2>4, <3>1
    <2>5. CASE decision = "approved"
      <3>1. Approved' = [Approved EXCEPT ![t] = @ \cup {s}]
        BY <2>1, <2>2, <2>5, RecordApproves
      <3>2. /\ \A t2 \in Tasks \ {t}: task'[t2] = task[t2]
            /\ task'[t] = row
        BY <2>2, <2>5 DEF TypeOK
      <3>3. s # NoStep
        BY <2>1 DEF Steps, NoStep
      <3>4. Position' = Position
        BY <2>1, <2>3, <3>2, <3>3 DEF Position
      <3>5. s \in GateSteps
        BY <2>1, <2>2 DEF GateSteps
      <3> QED
        BY <3>1, <3>4, <3>5
    <2> QED
      BY <2>4, <2>5 DEF Decisions
  <1>5. ASSUME NEW u \in Users, CommitApprove(u) PROVE Goal
    <2> DEFINE r == call[u].request
    <2>1. r \in Requests /\ request[r].status = "pending"
      BY <1>5, CallShapes DEF CommitApprove, TypeOK, SerialInv, ReadsAreFresh
    <2>2. request[r].task \in Tasks /\ request[r].step \in Steps
      BY <2>1 DEF TypeOK, RequestRow
    <2>3. request[r].step \in GateSteps
      BY <2>1, <2>2 DEF SerialInv, RequestsAreOfGates, GateSteps
    <2>4. Approved' = [Approved EXCEPT ![request[r].task] = @ \cup {request[r].step}]
      BY <1>5, <2>2, RecordApproves DEF CommitApprove, Decisions
    <2>5. Position' = Position
      BY <1>0, <1>5 DEF CommitApprove
    <2> HIDE DEF r
    <2> QED
      BY <2>2, <2>3, <2>4, <2>5
  <1>6. ASSUME NEW u \in Users, CommitReject(u) PROVE Goal
    <2> DEFINE r == call[u].request
               t == request[r].task
               s == call[u].step
    <2>1. r \in Requests /\ s \in Steps \cup {NoStep} /\ s = task[t].step
      BY <1>6, CallShapes DEF CommitReject, TypeOK, SerialInv, ReadsAreFresh
    <2>2. t \in Tasks /\ request[r].step \in Steps
      BY <2>1 DEF TypeOK, RequestRow
    <2>3. Approved' = Approved
      BY <1>6, <2>2, RecordApproves DEF CommitReject, Decisions
    <2>4. task' = [task EXCEPT ![t] = RolledBack(task[t], s)]
      BY <1>6 DEF CommitReject
    <2>5. task[t] \in TaskRow
      BY <2>2 DEF TypeOK
    <2> HIDE DEF s, t
    <2> QED
      BY <1>3, <2>1, <2>2, <2>3, <2>4, <2>5
  <1>7. ASSUME NEW u \in Users,
               \/ \E t \in Tasks: \/ BeginMove(u, t) \/ BeginState(u, t) \/ BeginRequest(u, t)
                                  \/ ValidateTask(u, t)
                                  \/ \E status \in BodyStatuses: UpdateStatus(u, t, status)
               \/ \E r \in Requests: \/ InsertRequest(u, r) \/ BeginApprove(u, r)
                                     \/ BeginReject(u, r)
               \/ CheckMove(u) \/ RefuseMove(u)
        PROVE  Stutter
    <2>1. ASSUME NEW t \in Tasks, BeginMove(u, t) \/ BeginState(u, t) \/ BeginRequest(u, t)
          PROVE  Stutter
      BY <1>0, <2>1 DEF BeginMove, BeginState, BeginRequest, Continue
    <2>2. ASSUME NEW t \in Tasks,
                 ValidateTask(u, t) \/ \E status \in BodyStatuses: UpdateStatus(u, t, status)
          PROVE  Stutter
      <3>1. \A t2 \in Tasks: task'[t2].step = task[t2].step
        BY <2>2 DEF ValidateTask, UpdateStatus, TypeOK, TaskRow
      <3> QED
        BY <1>0, <2>2, <3>1 DEF ValidateTask, UpdateStatus, Position
    <2>3. ASSUME NEW r \in Requests, InsertRequest(u, r) \/ BeginApprove(u, r) \/ BeginReject(u, r)
          PROVE  Stutter
      BY <1>0, <2>3 DEF InsertRequest, BeginApprove, BeginReject, Continue
    <2>4. CASE CheckMove(u) \/ RefuseMove(u)
      BY <1>0, <2>4 DEF CheckMove, RefuseMove, Continue
    <2> QED
      BY <1>7, <2>1, <2>2, <2>3, <2>4
  <1>8. Goal
    <2>1. CASE UNCHANGED vars
      BY <1>0, <2>1 DEF vars
    <2>2. CASE Next
      BY <1>1, <1>2, <1>4, <1>5, <1>6, <1>7, <2>2 DEF Next, TaskStep, ValidationStep
    <2> QED
      BY <2>1, <2>2
  <1>9. Goal => [Gated!Next]_(Gated!vars)
    BY DEF Gated!Next, Gated!vars, Gated!Advance, Gated!SendBack, Gated!Approve,
           Position, Approved, GateSteps
  <1> QED
    BY <1>8, <1>9
LEMMA GatedInit == Init => Gated!Init
  <1> SUFFICES ASSUME Init PROVE Gated!Init
    OBVIOUS
  <1>1. \A t \in Tasks: task[t].step \in {NoStep, 1}
    BY ConstantsAssumption DEF Init, NoStep
  <1>2. Position = [t \in Tasks |-> 1]
    BY <1>1 DEF Position
  <1>3. \A t \in Tasks, s \in Steps: ~HasApproval(t, s)
    BY DEF Init, HasApproval
  <1>4. Approved = [t \in Tasks |-> {}]
    BY <1>3 DEF Approved
  <1> QED
    BY <1>2, <1>4 DEF Gated!Init, Position, Approved

LEMMA SerialWalk == OneAtATime => (Spec => [](TypeOK /\ NextStepExists /\ SerialInv))
  <1>1. Init => TypeOK /\ NextStepExists
    BY InitTyped
  <1>2. TypeOK /\ NextStepExists /\ [Next]_vars => (TypeOK /\ NextStepExists)'
    BY NextTyped
  <1>3. Spec => [](TypeOK /\ NextStepExists)
    BY <1>1, <1>2, PTL DEF Spec
  <1>4. CASE OneAtATime
    <2>1. Spec => [](TypeOK /\ SerialInv)
      BY <1>4, WorkflowIsSerial
    <2>2. Spec => [](TypeOK /\ NextStepExists /\ SerialInv)
      BY <1>3, <2>1, PTL
    <2> QED
      BY <2>2
  <1> QED
    BY <1>4

\* Calls served one after the other implement GatedTask: whatever users ask for, a task moves
\* one step at a time, leaves a gate only after an approval of it, and is sent back at most
\* one step by a rejection.
THEOREM WorkflowImplementsGatedTask == OneAtATime => (Spec => TasksWalkTheirGates)
  <1>1. Init => Gated!Init
    BY GatedInit
  <1>2. CASE OneAtATime
    <2>1. Spec => [](TypeOK /\ NextStepExists /\ SerialInv)
      BY <1>2, SerialWalk
    <2>2. TypeOK /\ NextStepExists /\ SerialInv /\ [Next]_vars => [Gated!Next]_(Gated!vars)
      BY <1>2, GatedStep
    <2>3. Spec => Gated!Spec
      BY <1>1, <2>1, <2>2, PTL DEF Spec, Gated!Spec
    <2> QED
      BY <2>3 DEF TasksWalkTheirGates
  <1> QED
    BY <1>2

\* What GatedTask keeps: every gate behind a task was approved.
LEMMA GatesStayApproved ==
  ASSUME TypeOK, GatesPassedAreApproved, [Gated!Next]_(Gated!vars)
  PROVE  \A t \in Tasks, s \in GateSteps: s < Position'[t] => s \in Approved'[t]
  <1>1. \A t \in Tasks, s \in GateSteps: s < Position[t] => s \in Approved[t]
    BY StepsOfWorkflow DEF GatesPassedAreApproved, GateSteps, Position, Approved, NoStep, Steps
  <1>2. \A t \in Tasks: Position[t] \in Steps
    BY StepsOfWorkflow DEF TypeOK, TaskRow, Position
  <1>3. DOMAIN Position = Tasks /\ DOMAIN Approved = Tasks
    BY DEF Position, Approved
  <1>4. Steps \subseteq Nat /\ GateSteps \subseteq Steps
    BY StepsOfWorkflow DEF GateSteps
  <1>5. ASSUME NEW t \in Tasks, Gated!Advance(t)
        PROVE  \A t2 \in Tasks, s \in GateSteps: s < Position'[t2] => s \in Approved'[t2]
    <2>1. /\ Position[t] \in GateSteps => Position[t] \in Approved[t]
          /\ Position' = [Position EXCEPT ![t] = @ + 1]
          /\ Approved' = Approved
      BY <1>5 DEF Gated!Advance, Position, Approved, GateSteps
    <2>2. \A t2 \in Tasks: Position'[t2] = IF t2 = t THEN Position[t] + 1 ELSE Position[t2]
      BY <1>3, <2>1
    <2> SUFFICES ASSUME NEW t2 \in Tasks, NEW s \in GateSteps, s < Position'[t2]
                 PROVE  s \in Approved[t2]
      BY <2>1
    <2>3. s \in Nat /\ Position[t2] \in Nat
      BY <1>2, <1>4
    <2>4. s < Position[t2] \/ (t2 = t /\ s = Position[t2])
      BY <2>2, <2>3
    <2> QED
      BY <1>1, <2>1, <2>4
  <1>6. ASSUME NEW t \in Tasks, Gated!SendBack(t)
        PROVE  \A t2 \in Tasks, s \in GateSteps: s < Position'[t2] => s \in Approved'[t2]
    <2>1. /\ Position' = [Position EXCEPT ![t] = @ - 1]
          /\ Approved' = Approved
      BY <1>6 DEF Gated!SendBack, Position, Approved
    <2>2. \A t2 \in Tasks: Position'[t2] = IF t2 = t THEN Position[t] - 1 ELSE Position[t2]
      BY <1>3, <2>1
    <2> SUFFICES ASSUME NEW t2 \in Tasks, NEW s \in GateSteps, s < Position'[t2]
                 PROVE  s \in Approved[t2]
      BY <2>1
    <2>3. s \in Nat /\ Position[t2] \in Nat
      BY <1>2, <1>4
    <2>4. s < Position[t2]
      BY <2>2, <2>3
    <2> QED
      BY <1>1, <2>1, <2>4
  <1>7. ASSUME NEW t \in Tasks, NEW gate, Gated!Approve(t, gate)
        PROVE  \A t2 \in Tasks, s \in GateSteps: s < Position'[t2] => s \in Approved'[t2]
    <2>1. /\ Approved' = [Approved EXCEPT ![t] = @ \cup {gate}]
          /\ Position' = Position
      BY <1>7 DEF Gated!Approve, Position, Approved
    <2> QED
      BY <1>1, <1>3, <2>1
  <1>8. CASE UNCHANGED Gated!vars
    <2>1. Position' = Position /\ Approved' = Approved
      BY <1>8 DEF Gated!vars, Position, Approved
    <2> QED
      BY <1>1, <2>1
  <1> QED
    BY <1>5, <1>6, <1>7, <1>8 DEF Gated!Next

\* When calls are served one after the other, no task is past a step that requires a
\* validation unless somebody approved that step for it, for any workflow and any number of
\* users, tasks and requests.
THEOREM GatesHold == OneAtATime => (Spec => []GatesPassedAreApproved)
  <1>1. Init => GatesPassedAreApproved
    <2> SUFFICES ASSUME Init, NEW t \in Tasks, NEW s \in Steps PROVE ~(s < task[t].step)
      BY DEF GatesPassedAreApproved
    <2>1. task[t].step \in {0, 1}
      BY ConstantsAssumption DEF Init
    <2>2. s \in Nat /\ s > 0
      BY StepsOfWorkflow DEF Steps
    <2> QED
      BY <2>1, <2>2
  <1>2. ASSUME TypeOK, TypeOK', GatesPassedAreApproved, [Gated!Next]_(Gated!vars)
        PROVE  GatesPassedAreApproved'
    <2>1. \A t \in Tasks, s \in GateSteps: s < Position'[t] => s \in Approved'[t]
      BY <1>2, GatesStayApproved
    <2>2. \A t \in Tasks: Position'[t] = IF task'[t].step = NoStep THEN 1 ELSE task'[t].step
      BY DEF Position
    <2>3. \A t \in Tasks: Approved'[t] = {s \in Steps: HasApproval(t, s)'}
      BY DEF Approved
    <2> SUFFICES ASSUME NEW t \in Tasks, NEW s \in Steps, Workflow[s].gate, s < task'[t].step
                 PROVE  HasApproval(t, s)'
      BY DEF GatesPassedAreApproved
    <2>4. s \in Nat /\ s > 0
      BY StepsOfWorkflow DEF Steps
    <2>5. s < Position'[t]
      BY <2>2, <2>4 DEF NoStep
    <2> QED
      BY <2>1, <2>3, <2>5 DEF GateSteps
  <1>3. CASE OneAtATime
    <2>1. Spec => [](TypeOK /\ NextStepExists /\ SerialInv)
      BY <1>3, SerialWalk
    <2>2. TypeOK /\ NextStepExists /\ SerialInv /\ [Next]_vars => [Gated!Next]_(Gated!vars)
      BY <1>3, GatedStep
    <2>3. /\ TypeOK /\ NextStepExists /\ SerialInv
          /\ (TypeOK /\ NextStepExists /\ SerialInv)'
          /\ GatesPassedAreApproved
          /\ [Next]_vars
          => GatesPassedAreApproved'
      BY <1>2, <2>2
    <2>4. Spec => []GatesPassedAreApproved
      BY <1>1, <2>1, <2>3, PTL DEF Spec
    <2> QED
      BY <2>4
  <1> QED
    BY <1>3
-----------------------------------------------------------------------------
(* Completed tasks *)

\* Statuses only come from the workflow: the names that complete a task, and those that
\* leave it its status, are given to final steps only, and no client sends "completed".
StatusesComeFromSteps ==
  /\ \A s \in Steps: ~Workflow[s].final => Workflow[s].name \notin {"termine", "done", "other"}
  /\ \/ "completed" \notin BodyStatuses
     \/ \A u \in Users: "update" \notin Calls[u]

\* A call about to write the first step of a task found it without one, and it still is.
FirstStepIsMissing ==
  \A u \in Users: call[u].at \in {"moveInit", "stateInit"} => task[call[u].task].step = NoStep

\* A completed task is on a final step.
CompletedOnlyOnFinalStep == \A t \in Tasks: ~CompletedElsewhere(task[t])

\* What a task's row must satisfy.
FinalIfCompleted(row) ==
  row.status = "completed" => row.step # NoStep /\ Workflow[row.step].final

LEMMA StepsNameStatuses ==
  ASSUME StatusesComeFromSteps, NEW s \in Steps, ~Workflow[s].final
  PROVE  ForwardStatus(s) \notin {"kept", "completed"} /\ RollbackStatus(s) # "completed"
  <1>1. Workflow[s].name \in StepNames \ {"termine", "done", "other"}
    <2>1. Workflow[s] \in Step
      BY ConstantsAssumption, ElementOfSeq DEF Steps
    <2> QED
      BY <2>1 DEF StatusesComeFromSteps, Step
  <1>2. \E row \in ForwardNames: Workflow[s].name \in row.names
    <2> DEFINE Has(status, names) == [status |-> status, names |-> names] \in ForwardNames
    <2>1. /\ Has("todo", {"a_faire", "todo", "draft"})
          /\ Has("in_progress", {"en_cours", "in_progress"})
          /\ Has("review", {"review"})
          /\ Has("approved", {"approved"})
      BY DEF ForwardNames
    <2>2. \A status, names: Has(status, names) /\ Workflow[s].name \in names
                              => \E row \in ForwardNames: Workflow[s].name \in row.names
      OBVIOUS
    <2> HIDE DEF Has
    <2>3. Workflow[s].name \in {"a_faire", "todo", "draft"} \cup {"en_cours", "in_progress"}
                                 \cup {"review"} \cup {"approved"}
      BY <1>1 DEF StepNames
    <2> QED
      BY <2>1, <2>2, <2>3
  <1>3. \A row \in ForwardNames: Workflow[s].name \in row.names => row.status \notin {"kept", "completed"}
    <2>1. \A row \in ForwardNames:
            /\ row.status # "kept"
            /\ row.status = "completed" => row.names = {"termine", "done"}
      BY DEF ForwardNames
    <2> QED
      BY <1>1, <2>1
  <1>4. ForwardStatus(s) \notin {"kept", "completed"}
    <2> DEFINE found == {row \in ForwardNames: Workflow[s].name \in row.names}
    <2>1. found # {} /\ \A row \in found: row.status \notin {"kept", "completed"}
      BY <1>2, <1>3
    <2>2. ForwardStatus(s) = (CHOOSE row \in found: TRUE).status
      BY <2>1 DEF ForwardStatus, StatusNamed
    <2> HIDE DEF found
    <2> QED
      BY <2>1, <2>2
  <1>5. RollbackStatus(s) # "completed"
    <2> DEFINE found == {row \in RollbackNames: Workflow[s].name \in row.names}
    <2>1. \A row \in found: row.status # "completed"
      <3>1. \A row \in RollbackNames: row.status = "completed" => row.names = {"termine", "done"}
        BY DEF RollbackNames
      <3> QED
        BY <1>1, <3>1
    <2>2. RollbackStatus(s) = IF found = {} THEN "revision" ELSE (CHOOSE row \in found: TRUE).status
      BY DEF RollbackStatus, StatusNamed
    <2> HIDE DEF found
    <2> QED
      BY <2>1, <2>2
  <1> QED
    BY <1>4, <1>5

\* Entering a step, and being sent back from one, keep a row so, whatever step the call
\* believed the task to be on.
LEMMA EnteredIsFinalIfCompleted ==
  ASSUME StatusesComeFromSteps, NEW row, NEW s \in Steps
  PROVE  FinalIfCompleted(Entered(row, s))
  <1>1. s # NoStep
    BY DEF Steps, NoStep
  <1>2. Entered(row, s).step = s
    BY DEF Entered
  <1>3. CASE ~Workflow[s].final
    <2>1. Entered(row, s).status = ForwardStatus(s)
      BY <1>3, StepsNameStatuses DEF Entered
    <2> QED
      BY <1>3, <2>1, StepsNameStatuses DEF FinalIfCompleted
  <1> QED
    BY <1>1, <1>2, <1>3 DEF FinalIfCompleted

LEMMA RolledBackIsFinalIfCompleted ==
  ASSUME StatusesComeFromSteps, NEW row \in TaskRow, FinalIfCompleted(row),
         NEW s \in Steps \cup {NoStep}
  PROVE  FinalIfCompleted(RolledBack(row, s))
  <1>1. CASE s > 1
    <2>1. s - 1 \in Steps /\ s - 1 # NoStep
      BY <1>1, StepsOfWorkflow DEF NoStep
    <2>2. /\ RolledBack(row, s).step = s - 1
          /\ RolledBack(row, s).status = RollbackStatus(s - 1)
      BY <1>1 DEF RolledBack, TaskRow
    <2> QED
      BY <2>1, <2>2, StepsNameStatuses DEF FinalIfCompleted
  <1> QED
    BY <1>1 DEF RolledBack

\* No step parts a completed task from the final step but the initialisation of its step.
LEMMA PartedOnlyByInit ==
  ASSUME TypeOK, NextStepExists, StatusesComeFromSteps, [Next]_vars
  PROVE  \A t \in Tasks: \/ FinalIfCompleted(task[t]) => FinalIfCompleted(task'[t])
                         \/ \E u \in Users: InitStep(u) /\ call[u].task = t
  <1> DEFINE Kept(t) == \/ FinalIfCompleted(task[t]) => FinalIfCompleted(task'[t])
                        \/ \E u \in Users: InitStep(u) /\ call[u].task = t
  <1> SUFFICES \A t2 \in Tasks: Kept(t2)
    OBVIOUS
  <1>0. \A t \in Tasks: task[t] \in TaskRow
    BY DEF TypeOK
  <1>1. ASSUME NEW t \in Tasks, NEW row, FinalIfCompleted(task[t]) => FinalIfCompleted(row),
               task' = [task EXCEPT ![t] = row]
        PROVE  \A t2 \in Tasks: Kept(t2)
    <2>1. task'[t] = row /\ \A t2 \in Tasks \ {t}: task'[t2] = task[t2]
      BY <1>1 DEF TypeOK
    <2> QED
      BY <1>1, <2>1
  <1>2. CASE UNCHANGED task
    BY <1>2
  <1>3. ASSUME NEW u \in Users, InitStep(u) PROVE \A t2 \in Tasks: Kept(t2)
    <2>1. \A t2 \in Tasks: t2 # call[u].task => task'[t2] = task[t2]
      BY <1>3 DEF InitStep, TypeOK
    <2> QED
      BY <1>3, <2>1
  <1>4. ASSUME NEW u \in Users, WriteMove(u) PROVE \A t2 \in Tasks: Kept(t2)
    <2>1. call[u].task \in Tasks /\ call[u].step + 1 \in Steps
      BY <1>4, CallShapes DEF WriteMove, TypeOK, NextStepExists
    <2>2. task' = [task EXCEPT ![call[u].task] = Entered(task[call[u].task], call[u].step + 1)]
      BY <1>4 DEF WriteMove
    <2>3. FinalIfCompleted(Entered(task[call[u].task], call[u].step + 1))
      BY <2>1, EnteredIsFinalIfCompleted
    <2> QED
      BY <1>1, <2>1, <2>2, <2>3
  <1>5. ASSUME NEW u \in Users, NEW t \in Tasks, NEW status \in BodyStatuses,
               UpdateStatus(u, t, status)
        PROVE  \A t2 \in Tasks: Kept(t2)
    <2>1. status # "completed"
      BY <1>5 DEF UpdateStatus, MayCall, StatusesComeFromSteps
    <2>2. task' = [task EXCEPT ![t] = [task[t] EXCEPT !.status = status]]
      BY <1>5 DEF UpdateStatus
    <2>3. FinalIfCompleted(task[t]) => FinalIfCompleted([task[t] EXCEPT !.status = status])
      BY <1>0, <2>1 DEF FinalIfCompleted, TaskRow
    <2> QED
      BY <1>1, <2>2, <2>3
  <1>6. ASSUME NEW u \in Users, NEW t \in Tasks, ValidateTask(u, t)
        PROVE  \A t2 \in Tasks: Kept(t2)
    <2> DEFINE row == [task[t] EXCEPT !.status = "approved", !.completedAt = TRUE]
    <2>1. task' = [task EXCEPT ![t] = row]
      BY <1>0, <1>6 DEF ValidateTask, TypeOK, TaskRow
    <2>2. FinalIfCompleted(row)
      BY <1>0 DEF FinalIfCompleted, TaskRow
    <2> HIDE DEF row
    <2> QED
      BY <1>1, <2>1, <2>2
  <1>7. ASSUME NEW u \in Users, NEW t \in Tasks, NEW decision \in Decisions,
               SubmitValidation(u, t, decision)
        PROVE  \A t2 \in Tasks: Kept(t2)
    <2> DEFINE s == IF task[t].step = NoStep THEN 1 ELSE task[t].step
               row == [task[t] EXCEPT !.step = s]
               newRow == IF decision = "rejected" THEN RolledBack(row, s) ELSE row
    <2>1. s \in Steps /\ row \in TaskRow
      BY StepsOfWorkflow DEF TypeOK, TaskRow
    <2>2. FinalIfCompleted(task[t]) => FinalIfCompleted(row)
      BY <1>0 DEF FinalIfCompleted, TaskRow
    <2>3. FinalIfCompleted(task[t]) => FinalIfCompleted(newRow)
      <3> HIDE DEF row, s
      <3> QED
        BY <2>1, <2>2, RolledBackIsFinalIfCompleted
    <2>4. task' = [task EXCEPT ![t] = newRow]
      BY <1>7 DEF SubmitValidation
    <2> HIDE DEF newRow
    <2> QED
      BY <1>1, <2>3, <2>4
  <1>8. ASSUME NEW u \in Users, CommitReject(u) PROVE \A t2 \in Tasks: Kept(t2)
    <2> DEFINE t == request[call[u].request].task
    <2>1. t \in Tasks /\ call[u].step \in Steps \cup {NoStep}
      BY <1>8, CallShapes DEF CommitReject, TypeOK, RequestRow
    <2>2. task' = [task EXCEPT ![t] = RolledBack(task[t], call[u].step)]
      BY <1>8 DEF CommitReject
    <2>3. FinalIfCompleted(task[t]) => FinalIfCompleted(RolledBack(task[t], call[u].step))
      BY <1>0, <2>1, RolledBackIsFinalIfCompleted
    <2> HIDE DEF t
    <2> QED
      BY <1>1, <2>1, <2>2, <2>3
  <1>9. CASE Next
    <2> HIDE DEF Kept
    <2> QED
      BY <1>2, <1>3, <1>4, <1>5, <1>6, <1>7, <1>8, <1>9
         DEF Next, TaskStep, ValidationStep, BeginMove, BeginState, CheckMove, RefuseMove,
             BeginRequest, InsertRequest, BeginApprove, BeginReject, CommitApprove, Continue
  <1> QED
    BY <1>2, <1>9 DEF vars

LEMMA KeepsCompletedFinal ==
  ASSUME TypeOK, NextStepExists, StatusesComeFromSteps, FirstStepIsMissing,
         CompletedOnlyOnFinalStep, [Next]_vars
  PROVE  CompletedOnlyOnFinalStep'
  <1>0. \A t \in Tasks: task[t] \in TaskRow /\ FinalIfCompleted(task[t])
    BY DEF TypeOK, CompletedOnlyOnFinalStep, CompletedElsewhere, FinalIfCompleted
  <1>1. ASSUME NEW t \in Tasks, NEW u \in Users, InitStep(u), call[u].task = t
        PROVE  FinalIfCompleted(task'[t])
    <2>1. task[t].step = NoStep
      BY <1>1 DEF InitStep, FirstStepIsMissing
    <2>2. task'[t] = [task[t] EXCEPT !.step = 1]
      BY <1>1 DEF InitStep, TypeOK
    <2>3. task[t].status # "completed"
      BY <1>0, <2>1 DEF FinalIfCompleted
    <2> QED
      BY <1>0, <2>2, <2>3 DEF FinalIfCompleted, TaskRow
  <1>2. \A t \in Tasks: FinalIfCompleted(task'[t])
    BY <1>0, <1>1, PartedOnlyByInit
  <1> QED
    BY <1>2 DEF CompletedOnlyOnFinalStep, CompletedElsewhere, FinalIfCompleted

\* Where every task starts on a step, none is ever found without one.
StepsAreGiven ==
  /\ \A t \in Tasks: task[t].step # NoStep
  /\ \A u \in Users: call[u].at \notin {"moveInit", "stateInit"}

LEMMA KeepsStepsGiven ==
  ASSUME TypeOK, NextStepExists, StepsAreGiven, [Next]_vars
  PROVE  StepsAreGiven'
  <1>1. CASE UNCHANGED vars
    BY <1>1 DEF vars, StepsAreGiven
  <1>2. ASSUME NEW u \in Users, TaskStep(u) \/ ValidationStep(u) PROVE StepsAreGiven'
    <2>1. call'[u].at \notin {"moveInit", "stateInit"}
      <3>1. ASSUME NEW t \in Tasks, BeginMove(u, t) PROVE call'[u].at \notin {"moveInit", "stateInit"}
        <4>1. call'[u] = [at |-> "moveCheck", task |-> t, step |-> task[t].step]
          BY <3>1 DEF BeginMove, Continue, TypeOK, StepsAreGiven
        <4> QED
          BY <4>1
      <3>2. ASSUME NEW t \in Tasks,
                   \/ BeginState(u, t) \/ ValidateTask(u, t) \/ BeginRequest(u, t)
                   \/ \E status \in BodyStatuses: UpdateStatus(u, t, status)
                   \/ \E decision \in Decisions: SubmitValidation(u, t, decision)
            PROVE  call'[u].at \notin {"moveInit", "stateInit"}
        BY <3>2 DEF BeginState, ValidateTask, BeginRequest, UpdateStatus, SubmitValidation,
                    Continue, TypeOK, StepsAreGiven
      <3>3. CASE CheckMove(u)
        <4>1. call'[u].at = "moveWrite"
          BY <3>3 DEF CheckMove, Continue, TypeOK, Call, Idle
        <4> QED
          BY <4>1
      <3>4. CASE InitStep(u) \/ RefuseMove(u) \/ WriteMove(u) \/ CommitApprove(u) \/ CommitReject(u)
        BY <3>4 DEF InitStep, RefuseMove, WriteMove, CommitApprove, CommitReject, Continue, Finish,
                    Idle, TypeOK, StepsAreGiven
      <3>5. ASSUME NEW r \in Requests, InsertRequest(u, r) \/ BeginApprove(u, r) \/ BeginReject(u, r)
            PROVE  call'[u].at \notin {"moveInit", "stateInit"}
        BY <3>5 DEF InsertRequest, BeginApprove, BeginReject, Continue, Finish, Idle, TypeOK
      <3> QED
        BY <1>2, <3>1, <3>2, <3>3, <3>4, <3>5 DEF TaskStep, ValidationStep
    <2>2. \A v \in Users: call'[v].at \notin {"moveInit", "stateInit"}
      BY <1>2, <2>1, OthersStay DEF StepsAreGiven
    <2>3. \A t \in Tasks: task'[t].step # NoStep
      <3>1. CASE UNCHANGED task
        BY <3>1 DEF StepsAreGiven
      <3>2. ASSUME NEW t \in Tasks, NEW row, row.step # NoStep, task' = [task EXCEPT ![t] = row]
            PROVE  \A t2 \in Tasks: task'[t2].step # NoStep
        BY <3>2 DEF StepsAreGiven, TypeOK
      <3>3. CASE WriteMove(u)
        <4>1. call[u].task \in Tasks /\ call[u].step + 1 \in Steps
          BY <3>3, CallShapes DEF WriteMove, TypeOK, NextStepExists
        <4>2. Entered(task[call[u].task], call[u].step + 1).step # NoStep
          BY <4>1 DEF Entered, Steps, NoStep
        <4> QED
          BY <3>2, <3>3, <4>1, <4>2 DEF WriteMove
      <3>4. ASSUME NEW t \in Tasks,
                   ValidateTask(u, t) \/ \E status \in BodyStatuses: UpdateStatus(u, t, status)
            PROVE  \A t2 \in Tasks: task'[t2].step # NoStep
        <4>1. \A t2 \in Tasks: task'[t2].step = task[t2].step
          BY <3>4 DEF ValidateTask, UpdateStatus, TypeOK, TaskRow
        <4> QED
          BY <4>1 DEF StepsAreGiven
      <3>5. ASSUME NEW row \in TaskRow, row.step # NoStep, NEW s \in Steps \cup {NoStep}
            PROVE  RolledBack(row, s).step # NoStep
        BY <3>5, StepsOfWorkflow DEF RolledBack, TaskRow, NoStep, Steps
      <3>6. ASSUME NEW t \in Tasks, NEW decision \in Decisions, SubmitValidation(u, t, decision)
            PROVE  \A t2 \in Tasks: task'[t2].step # NoStep
        <4> DEFINE s == IF task[t].step = NoStep THEN 1 ELSE task[t].step
                   row == [task[t] EXCEPT !.step = s]
        <4>1. row \in TaskRow /\ s \in Steps /\ row.step # NoStep
          BY StepsOfWorkflow DEF TypeOK, TaskRow, StepsAreGiven
        <4>2. task' = [task EXCEPT ![t] = IF decision = "rejected" THEN RolledBack(row, s) ELSE row]
          BY <3>6 DEF SubmitValidation
        <4> HIDE DEF row, s
        <4> QED
          BY <3>2, <3>5, <4>1, <4>2
      <3>7. CASE CommitReject(u)
        <4> DEFINE t == request[call[u].request].task
        <4>1. t \in Tasks /\ call[u].step \in Steps \cup {NoStep}
          BY <3>7, CallShapes DEF CommitReject, TypeOK, RequestRow
        <4>2. task' = [task EXCEPT ![t] = RolledBack(task[t], call[u].step)]
          BY <3>7 DEF CommitReject
        <4>3. task[t] \in TaskRow /\ task[t].step # NoStep
          BY <4>1 DEF TypeOK, StepsAreGiven
        <4> HIDE DEF t
        <4> QED
          BY <3>2, <3>5, <4>1, <4>2, <4>3
      <3>8. ~InitStep(u)
        BY DEF InitStep, StepsAreGiven
      <3> QED
        BY <1>2, <3>1, <3>3, <3>4, <3>6, <3>7, <3>8
           DEF TaskStep, ValidationStep, BeginMove, BeginState, CheckMove, RefuseMove,
               BeginRequest, InsertRequest, BeginApprove, BeginReject, CommitApprove, Continue
    <2> QED
      BY <2>2, <2>3 DEF StepsAreGiven
  <1> QED
    BY <1>1, <1>2 DEF Next

\* Where statuses only come from the workflow, for any number of users whose calls overlap,
\* moves, decisions and rollbacks never leave a task completed off a final step: only the
\* initialisation of a missing step can.
THEOREM OnlyInitParts ==
  ASSUME StatusesComeFromSteps
  PROVE  Spec => OnlyInitPartsCompletion
  <1> DEFINE Kept == \A t \in Tasks: CompletedElsewhere(task'[t]) =>
                        \/ CompletedElsewhere(task[t])
                        \/ \E u \in Users: /\ call[u].at \in {"moveInit", "stateInit"}
                                           /\ call[u].task = t
                                           /\ call'[u] # call[u]
  <1>1. Init => TypeOK /\ NextStepExists
    BY InitTyped
  <1>2. TypeOK /\ NextStepExists /\ [Next]_vars => (TypeOK /\ NextStepExists)'
    BY NextTyped
  <1>3. ASSUME TypeOK, NEW u \in Users, InitStep(u)
        PROVE  call[u].at \in {"moveInit", "stateInit"} /\ call'[u] # call[u]
    <2>1. call[u].at \in {"moveInit", "stateInit"}
      BY <1>3 DEF InitStep
    <2>2. call'[u].at \in {"moveCheck", "idle"}
      BY <1>3 DEF InitStep, Finish, Idle, TypeOK
    <2> QED
      BY <2>1, <2>2
  <1>4. \A row: CompletedElsewhere(row) <=> ~FinalIfCompleted(row)
    BY DEF CompletedElsewhere, FinalIfCompleted
  <1>5. TypeOK /\ NextStepExists /\ [Next]_vars => [Kept]_vars
    BY <1>3, <1>4, PartedOnlyByInit
  <1> HIDE DEF Kept
  <1>6. Spec => [][Kept]_vars
    BY <1>1, <1>2, <1>5, PTL DEF Spec
  <1> QED
    BY <1>6 DEF Kept, OnlyInitPartsCompletion

\* Where statuses only come from the workflow, a task is completed only on a final step: for
\* any number of overlapping calls when every task starts on a step, and when some have
\* none, for calls served one after the other.
THEOREM CompletedTasksAreFinal ==
  ASSUME StatusesComeFromSteps, OneAtATime \/ InitialSteps = {1}
  PROVE  Spec => []CompletedOnlyOnFinalStep
  <1>1. Init => TypeOK /\ NextStepExists
    BY InitTyped
  <1>2. TypeOK /\ NextStepExists /\ [Next]_vars => (TypeOK /\ NextStepExists)'
    BY NextTyped
  <1>3. Init => CompletedOnlyOnFinalStep
    BY ConstantsAssumption DEF Init, CompletedOnlyOnFinalStep, CompletedElsewhere
  <1>4. TypeOK /\ NextStepExists /\ FirstStepIsMissing /\ CompletedOnlyOnFinalStep /\ [Next]_vars
          => CompletedOnlyOnFinalStep'
    BY KeepsCompletedFinal
  <1>5. CASE OneAtATime
    <2>1. Spec => [](TypeOK /\ SerialInv)
      BY <1>5, WorkflowIsSerial
    <2>2. SerialInv => FirstStepIsMissing
      BY DEF SerialInv, ReadsAreFresh, FirstStepIsMissing
    <2> QED
      BY <1>1, <1>2, <1>3, <1>4, <2>1, <2>2, PTL DEF Spec
  <1>6. CASE InitialSteps = {1}
    <2>1. Init => StepsAreGiven
      <3> SUFFICES ASSUME Init PROVE StepsAreGiven
        OBVIOUS
      <3>1. \A t \in Tasks: task[t].step = 1
        BY <1>6 DEF Init
      <3>2. \A u \in Users: call[u].at = "idle"
        BY DEF Init, Idle
      <3> QED
        BY <3>1, <3>2 DEF StepsAreGiven, NoStep
    <2>2. TypeOK /\ NextStepExists /\ StepsAreGiven /\ [Next]_vars => StepsAreGiven'
      BY KeepsStepsGiven
    <2>3. StepsAreGiven => FirstStepIsMissing
      BY DEF StepsAreGiven, FirstStepIsMissing
    <2> QED
      BY <1>1, <1>2, <1>3, <1>4, <2>1, <2>2, <2>3, PTL DEF Spec
  <1> QED
    BY <1>5, <1>6
=============================================================================
