# A formal model of the LYDG backend

The backend is a NestJS application over TypeORM 0.3 and PostgreSQL: one process (or several)
serving HTTP calls and sockets, a few nightly jobs, and no message queue. Its state is the database,
two caches of rights and a count of open sockets. What makes it hard is not the size of a handler
but what happens between its `await`s: almost every handler reads a row, decides, and writes by id
in a later statement, at READ COMMITTED and without a lock, while other calls do the same. These
modules state what the handlers promise about the rows, model every read and every write of a
handler as a step of its own, check the promises on small instances with TLC, and prove with TLAPS,
for every instance, those that are not liveness.

Paths below are relative to `src/src/core/` unless they start with `src/`.

## 1. Inventory

### 1.1 Components, their state and their operations

| component | state | operations | what must hold |
|---|---|---|---|
| Invoices and payments (`finance`) | `invoices`, `invoice_items`, `payments`; `paid_amount` kept by a database trigger | create, update, issue, cancel, delete an invoice; create, update, reconcile, delete a payment; `syncInvoiceStatus` | status, total, lines and money received of an invoice agree; a cancelled one is final; nobody pays a draft; numbers have no gap |
| Task workflow and validation (`projects`) | step and status of a task, `task_workflow_validations`, `validation_requests` | move, read state, submit, request, approve, reject a validation; update or validate a task | no gate passed without an approval; a request decided once, and traced; one submission per validator |
| Project set-up | `projects`, `project_members`, assignee of a task | create, change status and dates, give a task (three endpoints) | an active project has a start; whoever has a task is a member |
| Reading of tasks | rights of the reader per organisation, a list of accessible organisations kept 5 min | list, open a task | the list and the page agree on the tasks one was given |
| Task dependencies | `task_dependencies` | add, remove, test before a change of status, critical path | no task waits for itself; the critical path is a longest chain |
| Subtasks and progress | `subtasks`, progress of tasks and of the project | create, tick, delete, recount | the progress is that of the live tasks and subtasks |
| Comments, gateways, presence | rooms of sockets, a count of sockets per user in memory, `project_comments` | connect, join, leave, subscribe, comment, disconnect; restart | no comment lost between the snapshot and the messages; whoever has a tab open is online |
| Leave (`hr`) | `leave_requests`, `leave_deducted_*` columns, `leave_deduction_histories` | create, approve, reject, cancel, delete a request; apply and cancel a deduction | annual right (lengths may be negative), joker quota, nothing deducted twice, the history reconstitutes the balance |
| Attendance and sanctions | `office_attendances`, `employee_sanctions` | check in, check out, complete, justify, mark absent, manual entry; automatic check, approve, cancel a sanction | no lateness on a day off, departures kept, one sanction per fault, escalation by degrees |
| Salaries and schedules | `salary_schedules`, `salary_payments`, `employee_salary_history` | schedules, generation of a month, mark paid, raises | one payment on a date, in its month |
| Overtime | none: computed from attendance | the timesheet of a month | over and under balance with what was worked and due |
| Reminders | the notifications sent, an advisory lock | the daily job of deadlines, three ticks of attendance; crash | everyone is told, and once a day |
| Evaluations, reviews | `monthly_evaluations`, weights, `performance_reviews` | score, submit, validate, contest, reweigh | a result is an average of what was scored, unless a weight is negative |
| Regulations, HR documents, files of employees | status of each row, assignments, signatures, the six steps of the initiation | publish, sign, refuse, archive; quiz, upload, validate, remind | one regulation in force; the verdict of the quiz stands |
| HR desk, journals | tickets, events, rituals, journals, answers | status changes; preparation of the journal at a departure | what was written by hand is not lost; events last |
| Recruitment | openings, applications, positions held | publish, apply, close; set positions | one application each, one main position |
| Roles and permissions (`rbac`) | roles, links, permissions; answers of the guard kept 30 s | seed, assign, replace permissions, guard | the guard answers what the tables grant, unless no event told it of the change |
| Authentication, devices, users | `users`, accounts at Firebase, contexts kept 5 min, `user_devices` | create, close, restore; guard; register, revoke a device | a device two accounts share is noticed (its announcement is best effort) |
| Organisations, departments | trees of rows | create, attach, change of root, delete | no row below a deleted one |
| Academy | courses, sessions, enrolments | create, move, cancel; enrol, complete; nightly job | one live place per learner and session, found by one id at a time; past sessions close |
| Documents and folders | libraries, tree of folders | create, make default, move, delete | no folder in itself; one default library |
| Contacts, employees, geofences, leave types, notifications, dashboards, audit, storage | rows nothing else here decides on, or none | - | - |

### 1.2 How they interact

* Shared rows. There are few calls between services; components meet in the database. A
  payment changes its invoice through a trigger and then through `syncInvoiceStatus`. A late
  arrival recorded by attendance is counted by the sanctions, by the overtime and, when absent,
  by the leave balance. A task is written by the workflow, by the validations, by the subtasks,
  by a plain PATCH; who may read it depends on projects, roles and organisations together.
* Calls in the background. `checkIn` starts the check of the sanctions without waiting
  for it; notifications and realtime events are sent the same way and their failures are
  swallowed. A comment is saved, and then sent to the room of its project.
* Memory of the process. The guards keep accounts and permissions for a while, and events
  clear them; presence counts sockets. A restart loses all of it.
* Scheduled jobs: reminders, end of sessions.
* What is taken from outside: PostgreSQL at READ COMMITTED, unique indexes, CHECK constraints,
  the trigger `recompute_invoice_paid_amount` (its code is not in the repository; the services
  say what it does), the semantics of `repository.save`, of null conditions and of
  `manager.query` in TypeORM, socket.io rooms, Firebase.

### 1.3 What is hard

1. A decision on a row read earlier (nearly every handler), written by id whatever the row
   has become.
2. The same row read twice in one handler (`moveTaskToNextWorkflowStep`), with another
   call in between.
3. One operation in two transactions (`reconcile`, `softDelete` of a payment), or on two
   connections (`deleteTask`).
4. Look, then insert (numbers, requests, jokers, attendance rows, sanctions, enrolments).
5. Long legal sequences: delete then patch, deduct then cancel, restore twice, replace and
   revive a schedule, detach and delete an organisation.
6. Results of the library misread: a column that is not selected by default, the pair that
   `UPDATE ... RETURNING` gives, a null condition that is left out, a relation that was loaded.
7. Boundaries: totals of zero, numbers that outgrow their padding, a departure before the
   arrival, the last day of a month, the turn of the year.
8. Messages, lost connections and restarts: a snapshot read before or after the room was
   entered, a socket lost while it is authenticated, a server that dies holding a lock.
9. Caches: an answer read before a change and kept after it, an event that is not sent.

`PROJECT.json` lists each hazard at its line with the properties that watch it, and says of
the others why nothing does.

## 2. Modules

### 2.1 How a handler becomes actions

A service method is cut where another call can be served and make a difference:

* `BeginX(c, ...)` is everything from the start of call `c` to the last read it decides on:
  guards and early returns of the code are its conjuncts. What the handler keeps in local
  variables goes into `req[c]` or `call[c]`, with the field `at` in the role of a program
  counter.
* `WriteX`, `CommitX`, `SaveX` is the write. A write by id does not look at the row again,
  so neither does the action, unless the statement has a WHERE, an index or a CHECK that does.
* A transaction holds the lock of a row from its first write of it to its commit. From that
  write on, what it does to that row is one action.
* A refused call changes nothing and is not an action of its own, except where it was in
  flight (`RefuseMove`, `AbortPay`, `Collide`).

`OneAtATime = TRUE` lets a call start only when no other one is in flight: it is the system
with one client, or with an idle gap between calls. Which properties need it, and what goes
wrong without it, is said run by run.

Modules written on `Callers` share its variables `call[c]` and `focus`, and its forms of a guard:
`MayRun` for a handler of one step, `MayStart` for the first step of a longer one, `Goto` and
`Return` for the next. `Overlapping` names the components whose calls may overlap; the calls
of the others are made one after the other. The components of a family do not write each other's
rows, so a product of their states would say nothing more: a behaviour of `MCStaff` or
`MCOffice` exercises one of them, its `focus`, and keeps the others at their start.

### 2.2 `InvoiceLedger`, `InvoiceLifecycle`, `InvoiceLedger_proofs`, `MCInvoiceLedger`

`invoice[i]` is a row with its status, total, the sum of its lines, `paid` and whether it
was deleted; `payment[p]` a row with status, amount, invoice and deletion; `req[c]` the
request of client c. Amounts are integers (cents): the tolerance of 0.005 in the code
compares integers.

Two ways of finding a row matter. `findOne` with `deletedAt: IsNull()` is `Visible`; a bare
`findOne({ id })` is `Found`, and since `deleted_at` is `select: false` the handlers' own
test of `deletedAt` on such a row never fires.

| code | actions |
|---|---|
| `InvoiceService.create / update / issue / cancel / softDelete` | `CreateInvoice`, `BeginUpdateInvoice` + `CommitUpdateInvoice`, `BeginIssue` + `CommitIssue`, `BeginCancel` + `CommitCancel`, `BeginDeleteInvoice` + `CommitDeleteInvoice` |
| `PaymentService.create / update` (one transaction, `syncInvoiceStatus` included) | `BeginPay` + `CommitPay` or `AbortPay`, `BeginUpdatePayment` + `CommitUpdatePayment` |
| `PaymentService.reconcile / softDelete` (an autocommitted statement, then a transaction) | `BeginReconcile` + `WriteReconcile`, `BeginDeletePayment` + `WriteDeletePayment`, then `SyncRead` + `SyncWrite` |
| trigger, CHECK `paid_amount <= total_amount` | `Recomputed`, `PaidFits` (external) |

`InvoiceLifecycle` is what an accountant expects of an invoice, without requests, payments
or derived statuses. `InvoicesLiveTheirLives` says that the ledger implements it under the
mapping that forgets them.

### 2.3 `TaskWorkflow`, `GatedTask`, `TaskWorkflow_proofs`, `MCTaskWorkflow`

`task[t]` has the step (0: none yet), the status and whether `completed_at` is set;
`request[r]` is a validation request; `validations` the rows of decisions, in order;
`call[u]` what user u's call keeps. The workflow is a constant sequence of steps.

| code | actions |
|---|---|
| `moveTaskToNextWorkflowStep` | `BeginMove` (first read), `InitStep` (no step yet), `CheckMove` (`assertCanTransition` reads again) or `RefuseMove`, `WriteMove` |
| `getTaskWorkflowState` | `BeginState`, `InitStep` |
| `updateTask`, `validateTask` | `UpdateStatus`, `ValidateTask` |
| `submitValidation` | `SubmitValidation`: one action, as it locks the task first |
| `createValidationRequest` | `BeginRequest`, `InsertRequest` |
| `approveValidationRequest`, `rejectValidationRequest` (by id and by task) | `BeginApprove` + `CommitApprove`, `BeginReject` + `CommitReject` |

`SubmitValidation` is atomic with respect to approve and reject as well: inserting a
validation takes a shared lock on the task through its foreign key, and waits for the lock
`submitValidation` holds. `RefuseMove` may happen whenever a move is being checked: it also
stands for a dependency that is not satisfied, which this module does not model.

`GatedTask` is the promise: a task walks its steps one at a time and leaves no gate that
nobody approved.

### 2.4 Projects, around the workflow (`MCOffice`; `TaskDependencies_proofs`, `Realtime_proofs`, `Office_proofs`)

| module | state and actions, and the code they stand for |
|---|---|
| `DocumentNumbering` | `generateInvoiceNumber`, `generatePaymentNumber`: the greatest number in the order of text, plus one, then an INSERT that a unique index may refuse. The order of text is modelled digit by digit (`TextLeq`) |
| `TaskDependencies` | rows `[task, on, type, lag]`; `BeginAddDependency` looks for a cycle, `AddDependency` inserts; `BeginSetStatus`, `SetStatus`, `ValidateTask` with `assertDependenciesSatisfied`; the two passes of `computeCriticalPath` (`EarlyFinish`, `LateFinish`) as operators, compared with the longest chains |
| `TaskProgress` | progress of two tasks and the project; each endpoint writes its row and then goes through `CountSubtasks`, `WriteTaskProgress`, `AverageTasks`, `WriteProjectProgress`; `DeleteTask` averages before `CommitDeletion`. A client may send any integer as the progress of a task (`projects/tasks.controller.ts:59-61` and 97-99 say `@IsInt` and no more); the run sends 0 and 130 |
| `ProjectSetup` | `CreateProject`, status (`BeginProjectStatus`, `SetProjectStatus`, `DateTheStart`), `SetDeadline`, the three ways to give a task. `Assign` saves an entity with its assignee loaded, and a save by id then keeps the loaded one (`SavedAssignee`) |
| `TaskReading` | `ListTasks`, `OpenTask` as the code decides them (`Shown`, `Opens`): rights in the organisation of the call, what `PermissionGuard` adds for members, and `knownTenants`, the organisations kept for five minutes |
| `Realtime` | one step per `await` of the two gateways: `Connect`, `Authenticated`, `Refused`, `Disconnect`; `BeginJoin`, `EnterRoom`, `ReadSnapshot`, `EmitSnapshot`; `SaveComment`, `EmitCommentCreated`; `Restart` of the process. `followedFrom` is history: it says what a tab may expect to have seen |

### 2.5 Rights, people, pay, organisations, training, documents (`MCOffice`; `Office_proofs`)

| module | state and actions, and the code they stand for |
|---|---|
| `UserAccess` | an account in the table and at Firebase, the context the guard keeps (`context`), devices; a change of access is `BeginSetActive` (row, then Firebase) and `FinishSetActive` (purge); a request reads (`BeginRequest`), keeps (`AnswerRequest`) and registers its device (`FindOwners`, `RegisterDevice`). `reported` is history: the pairs `notifyHrSharedDevice` was called for, and whether the call got through; it is best effort (`user-device.service.ts:45`, 105-114), ends silently without an HR administrator (268-269), and is never made again, as the row is saved by then |
| `RolePermissions` | roles, links, permissions, `cached`; replacing the permissions of a role is a deletion and an insertion (`BeginSetPermissions`, `SavePermissions`) and an event (`RoleChanged`); the guard reads (`ReadPermissions`) and keeps (`CachePermissions`), and `ExpireAnswer` is the end of the 30 seconds. Every change of a right is a `Notify(told, changed)`: the answers its event clears, and those it makes wrong; what is wrong and not cleared goes into the history `untold` |
| `Payroll` | `generateMonthlyPayments` schedule after schedule (`BeginGenerate`, `LookForPayment`, `InsertPayment`), `PayDay` in short months, schedules and the raises of `EmployeeSalaryHistory`. The finders also find deleted rows |
| `Branches` | organisations, roots and parents; deletion reads the children (`BeginDeleteOrganization`) and then deletes; departments and the codes made for them |
| `Academy` | courses, sessions with or without a course, enrolments by the learner or by an administrator, completion, and the nightly `AutoCompletePastSessions`. A row of a learner who enrols herself holds her employee and her user id, one an administrator makes holds one of them |
| `Library` | libraries and folders; `Below`, the least set of folders closed under being a child, is the recursive query that refuses a move into its own subtree |

### 2.6 Human resources (`MCStaff`; `LeaveBalance_proofs`, `Staff_proofs`)

| module | state and actions, and the code they stand for |
|---|---|
| `LeaveBalance` | one employee, lengths in parts of a day (`OneDay`), of any sign. `BeginCreate`, `InsertRequest` (`assertLeaveVolumePolicy`, joker quota); `BeginDecide` or `BeginCancel`, `WriteStatus`; `DeleteRequest`; `BeginApply` + `WriteDeduction`, `BeginUndo` + `WriteUndo`; `NextWeek`. `ReturnedLength` is the length of what `manager.query` returns for `UPDATE ... RETURNING`: always 2 |
| `Discipline` | one employee, a clock of days and hours. `BeginCheckIn`, `BeginCheckOut`, `BeginCompleteCheckout`, `BeginJustify`, `BeginManualEntry`, each then `SaveRow`; `MarkAbsent`; `BeginCheck`, `CountForRule`, `LookForIssued`, `ApplySanction`; `BeginApprove`, `BeginCancelSanction`, then `SaveSanction`. `repository.save` of an entity read earlier is `Saved`: the whole entity or, when the other write lands between its two reads, only what the handler changed |
| `Overtime` | a timesheet is an initial state; the sums of `overtime.service.ts` are operators |
| `Reminders` | the daily job on each server with its lock (`TakeLock`, `QueryProjects`, `QueryTasks`, `SendTaskReminder`, `EndJob`, `Crash`, `Restart`); the three ticks of attendance, each a look and an insertion |
| `Evaluations` | points and weights of the KPIs, integers of any sign (an indicator the position gives no weight counts with its default; a row keeps the weights it was made with), the level (`DetermineLevel`) and the bonus, the life of evaluations and of reviews |
| `Regulations` | publication in three awaits (`ArchiveActive`, `Activate`, `AssignToAllEmployees`), signatures in two; the HR documents and their sheets |
| `PersonnelFile` | the six steps of the initiation and its quiz; required documents and `SendDailyReminders` |
| `HrDesk` | tickets; events with `DayPasses`; the occurrences `GenerateOccurrences` makes of a ritual |
| `DailyRecords` | the journal, `PrefillFromCompletedTasks` and `SubmitJournal`; answers of the guardian |
| `Hiring` | openings, applications (`BeginApplication`, `LookForDuplicate`, `InsertApplication`); the positions of an employee replaced in five awaits, any of which may fail (`SetPositionsFails`) |

## 3. What is checked

A run passes unless a counterexample is what it is for.

| run | calls | question | distinct states |
|---|---|---|---|
| `ledger_serial` | one at a time, all endpoints | Does every sequence of calls keep status, total, lines and money in agreement, and every invoice on the life of `InvoiceLifecycle`? | 212 000 |
| `ledger_tellers` | overlapping; one client issues, cancels and deletes, two create and correct payments | Is the synchronisation inside the transaction of a payment enough? Is a draft never paid, and does a cancelled invoice stay so? | 17 000 |
| `ledger_deleted_payment` | one at a time | Does a deleted payment stay out of the paid amount of its invoice? No. | counterexample |
| `workflow_serial` | one at a time, all endpoints, tasks with and without a step | Are gates passed only when approved, requests unique and decided once, and does a task walk as `GatedTask` promises? | 823 000 |
| `workflow_concurrent` | overlapping, three users, one of whom only submits | Does every decided request leave its trace, do only initialisations of a missing step part status and step, is the locked submission unique? | 130 000 |
| `gate_bypassed` | overlapping, two users | Is a gate ever passed without an approval? Yes. | counterexample |
| `decided_twice` | overlapping, two users | Is a request ever decided twice? Yes. | counterexample |
| `staff_serial` | one at a time, the background check of a late arrival included; clocks run in the middle of calls, a server crashes during the reminders | the ten modules of 2.6, see below | 1 457 000 |
| `leave_undone_twice` | one at a time | Does the history add up to what is deducted? No. | counterexample |
| `late_day_off` | one at a time | Is a day off never late? No. | counterexample |
| `office` | `DocumentNumbering` and `Realtime` overlap, with lost connections and restarts; the others one at a time | the twelve modules of 2.4 and 2.5, see below | 525 000 |
| `deleted_task_counts` | one at a time | Does a deleted task leave the average of its project? No. | counterexample |

What `staff_serial` asks, next to types:

* `LeaveQuotas`: neither the annual right nor the jokers of a week are spent twice over, whatever waits for a
  decision. A request of a negative length adds to the right while it stands, and what was
  granted on it stays granted when it is withdrawn: the bound is the right plus what such requests lent
  (`Lent`). `NeverAppliedTwice`: between two deductions of a record lies its restoration.
* `OneSanctionPerDay`, `EscalationIsGradual`: a fault is punished once; a suspension or a
  termination rests on enough sanctions that stand, for faults of different days.
  `DepartureKept`: only a manual entry changes a departure.
* `DueIsTold`: when the job ended on one server, no task due is left untold, although another
  found the lock taken or died on the way.
* `NoTwoOfOne`: one regulation in force (`OneInForce`), one application per person and opening
  (`OneApplicationEach`), one main position (`OneMainPosition`), one reminder of a kind a day
  (`RemindedOncePerDay`).
* `ResultsAddUp`: an evaluation lies between its lowest and its highest indicator unless a weight it
  was made with is negative (`ScoreIsAnAverage`), the timesheet balances (`OvertimeBalances`), a
  quiz passed stays so and a failure took three attempts (`QuizVerdictStands`), an event ends after
  it starts (`EventsLast`).
* `WrittenStays`: preparing a journal from the tasks of the day never erases what was written.

What `office` asks, next to types:

* `NoGap`: concurrent creations leave no gap in the numbers.
* `SomeTaskMayProceed`: dependencies have no cycle, so there is always an unfinished task to work on.
  `CriticalPathIsLongest`: the tasks without float are those on a longest chain, and the project ends when
  such a chain does, as long as no lead (a negative lag) is longer than a task it is between (`LeadsFit`).
* `ReturnsRecounted`: every call but a deletion returns with the project at the weighted average
  of its live tasks.
* `ActiveAndStaffed`: an active project has its start date, and a task only goes to a member.
* `GivenIsReadable`: the list and the page of a task, decided by different code with different
  ideas of an organisation, both show a task to whom it was given.
* `OnlineWhileOpen`, `NothingFallsBetween`: a user with a tab open counts as online; no comment is
  lost between the snapshot of a tab and its messages.
* `SharedDeviceNoticed`: of two accounts that hold one device, the one that came second was noticed when
  it registered, whatever was revoked in between. Whether the one report got through is another matter (3.4).
* `NoTwoOfOne`: one live enrolment per learner and session, or course outside its sessions, but for
  one an administrator made under her account beside one under her employee id
  (`SecondPlaceOnlyByAccount`), one payment of an employee on a date (`OnePaymentPerDate`), one
  default library (`OneDefaultLibrary`). `TreesHold`: no organisation below a deleted one
  (`ParentsExist`), no folder in itself (`FoldersNest`).
* `OnlyUntoldAnswersDiffer`: between two changes of a role, an answer of the guard that differs from the
  tables is one that no event cleared when its rights changed.
* `PastSessionsClose`: liveness, see 3.2.

### 3.1 Bounds, and why they are enough

* Ledger: one invoice, since no handler looks at two; two payments, so that one may be
  corrected while the other counts; amounts 1 and 2 against totals 0 and 2, so that a payment
  is partial, exact or too much and the invoice without lines appears. The tellers' run has
  three clients: one changes the invoice between the reads of two others.
* Numbers: base 3, width 2 and at most 8 documents: all numbers of two digits, after which
  the text no longer grows with the number. `MaxDocuments` is Base^Width - 1: 100000 sorts
  before 99999 in the code, and from there on every creation collides.
* Workflow: one task, as tasks only meet in dependencies; two requests, which is the least
  for a second one to be wrongly made; workflows of three and four steps with one and two
  gates. `MaxValidations` bounds the rows of decisions (3 or 4): enough for an approval, a
  rejection, a second pass and its approval.
* Dependencies: three tasks and three rows (the least cycle that is not two rows facing each other),
  durations of one and two days, a lag and a lead of one day, one type of dependency, the one that
  waits for completion (the theorems of 4.3 are of any types). Progress: two tasks, two subtasks, so
  that a weight of two meets a weight of one; 130 percent, which the DTO lets through. Set-up: two
  people, one task.
* Reading: three organisations, one of them above another, the project in the lower one: the reader acts
  from the organisation of the task, from above it, and from beside it.
* Realtime: two tabs of one user, a snapshot of one comment and two comments, so that one is
  in the snapshot, one comes while it is read and one does not fit; `MaxOnline` = 3 is one more
  than the tabs, since a socket lost while it is authenticated stays counted.
* Rights: a basic role, a role of an organisation and a global one, one permission. Accounts:
  two, one of which predates Firebase, and one device to share. Pay: two
  schedules of one employee with days 2 and 3 in a month of two days, so that both fall on its last.
  Trees: two organisations, two departments, two folders. Academy: one
  course, one session that has it or not, two enrolments of an employee, two days.
* Leave: two requests and an absence, lengths of minus a half, of one and of one and a half day (in halves)
  against an annual right of one day and at most one and a half per request, so that what a
  negative request lends is spent; one year, two weeks, 3 rows of history.
* Discipline: two days of two hours, one attendance row (two would be two days of the same
  kind), four sanctions, thresholds lowered so that every rule of the ladder applies.
* The rest of `staff_serial`: two servers and three days for the reminders, two indicators with
  points and weights of which one is 0 and one negative, two regulations, two rituals (daily and
  monthly), two positions, an address that may apply twice a day (10 in the code).
* No bound is in the way of a property: bounds only keep an action from starting
  (`RoomForDecision`, `Room`, `SanctionLeft`, the last day, the exhausted row sets). Runs
  in which they may stop the whole system say CHECK_DEADLOCK FALSE; the others check
  that it cannot stop.

### 3.2 Fairness

Clients promise nothing: they may stop calling at any time, also in the middle of a call.
Of what happens by itself, one thing is assumed to happen in time:

* `AcademyFairness`, weak fairness of `AutoCompletePastSessions`: the scheduler of the
  server runs the job every night (`@Cron`), so a session that stays overdue is met by it.
  `PastSessionsClose` needs it.

The reminders are not stated as liveness: a server may crash on the way and a day that was
skipped is not made up for (3.4), so what the code gives is `DueIsTold`, of a job that did end.

### 3.3 What the runs with a single call in flight do not cover

The code does not keep calls apart, so the following are checked, and most of them hold, only when
they do not overlap:
`InvoicesLiveTheirLives`, `TotalMatchesLines`, `GatesPassedAreApproved`, `OnePendingPerStep`,
`RequestDecidedOnce`, all of `staff_serial`, and all of `office` except `NoGap`,
`OnlineWhileOpen` and `NothingFallsBetween`. They still range over every sequence of calls.
With two clients, for instance:

* an invoice is amended after it was issued (update reads the draft, issue writes, update writes);
* the status of an invoice is left behind its paid amount (`SyncRead` of a reconciliation, a
  payment commits, `SyncWrite` puts the older status back), and an invoice cancelled by one
  call is brought back to `partial` by that same write;
* there are two pending requests for one step;
* a deduction is applied twice to the same record (two selections, two updates), although
  `hr/hr.service.ts:1102-1103` calls the operation idempotent without duplicates in the history;
* there are two attendance rows for one day from a double click, as the table has no unique index;
* two dependencies added at once close a cycle; two ticks of subtasks leave the older count;
  two publications leave two regulations in force; an organisation is given a child while it is being deleted;
* a right withdrawn between the read of the guard and its write to the cache stays for 30 seconds.

`StatusFollowsPayments` and `CancelledIsFinal` (as long as only `create` and `update` touch
payments), `NoPaymentOnDraft`, `DecidedRequestsAreTraced`, `OnlyInitPartsCompletion`,
`OneSubmissionPerValidator`, `NoGap`, `OnlineWhileOpen` and `NothingFallsBetween` are
checked with overlapping calls.

### 3.4 Disagreements between the code and what it says of itself

Six runs end in a counterexample; `PROJECT.json` quotes the line each one refutes.

1. `ledger_deleted_payment`: a PATCH of a deleted payment makes it count again in the paid amount of
   its invoice.
2. `gate_bypassed`: a rejection between the two reads of a move lets a task jump over a gate.
3. `decided_twice`: two validators approve and reject the same request.
4. `leave_undone_twice`: restoring a deduction twice leaves a history that does not add up.
5. `late_day_off`: an arrival entered by hand on a day off counts as late.
6. `deleted_task_counts`: `deleteTask` averages on another connection, before its own
   transaction has committed, and so counts the task it deletes.

Noted while modelling, without a run of their own; the modules do what the code does:

* Projects. `initStep` writes the first step on an earlier read and leaves the status: with
  overlapping calls a task completed meanwhile is completed on the first step. A task rejected on
  its final step keeps `completed_at`, which two dashboards read differently
  (`projects.service.ts:2490-2491`). Reassigning a task whose assignee is loaded writes nothing
  (`projects.service.ts:2800`). Several concurrent deletions of tasks each hold a connection and
  wait for a second one of the same pool.
* Reading. `is_member` of the guard is 1 where `manager_id` is null (`permission.guard.ts:168` and
  185), so outsiders pass it there; a task its creator sees in the list may then be refused on
  opening. The scope `project` of the list spans organisations, that of the page does not. Scopes of
  department and team look at the department of the assignee in the list and of the project on the
  page (comment at `projects.service.ts:1701`).
* Reminders. "BETWEEN to catch deadlines ... missed if cron skipped a day"
  (`deadline-reminder.service.ts:83` and 129), while each window is one day long; projects are asked
  for with the status `in_progress`, which none has (`:88`). The morning tick of attendance compares
  full names of days with the short ones stored (`attendance-reminder.service.ts:216` and 425).
* Realtime. A socket lost while it is being authenticated is counted until the next restart
  (`task-comments.gateway.ts:133`, `presence.service.ts:6`); the snapshot holds the oldest 100 comments
  (`project-comments.gateway.ts:228-231`); unsubscribing from a project leaves the room of
  its comments too, as they share a name; rights are looked at on entering a room and never again.
* Human resources. A leave over New Year is in the usage of no year (`hr/hr.service.ts:932`). An
  employee terminated by a deletion or in bulk keeps open positions (`hr.service.ts:463-549`, "Un
  collaborateur qui part quitte ses postes"). `assertValidManager` speaks of an active colleague
  (`:368`) and does not look. `linkEmployeesToUsersByEmail` counts the pair of `UPDATE ...
  RETURNING` (`:137-166`). Starting the initiation after choosing a sponsor puts the step back.
  Closing an opening leaves it public. "3 candidatures max par IP" is `>= 10`
  (`public-careers.service.ts:184` and 191). The calendar of events shows drafts for want of
  parentheses (`internal-event.service.ts:250-284`).
* Leave and evaluations. Lengths of a leave have an upper limit and no lower one
  (`leave-request.controller.ts:57`, `leave-request.service.ts:199-231`): a negative request makes
  room for more than the right, and cancelling it afterwards leaves the excess granted. Points and
  weights are not validated either (`evaluation.controller.ts`): with a negative weight a result
  leaves the range of its points.
* Academy. The searches for a first enrolment go by one id, the employee's when there is one
  (`enrollment.service.ts:131-132`): an employee an administrator enrolled by account may enrol
  herself as well. The entity says that a row has one of the two ids
  (`course-enrollment.entity.ts:54-55`), while `selfEnroll` is given and stores both; the CHECK it
  names is not in the repository, and is taken here to ask for at least one. A session that has a
  course keeps it, whatever an update says (`SavedCourse`).
* Devices. The report of a shared device is made once, after the row was saved, and its
  failure is a warning in the log; later sign-ins find the device known and report nothing.
* Rights and accounts. Most changes of a right send no event (a role turned off, a permission
  deleted, an expiry, `changeRoleForUser`, a role given in another organisation): the guard answers
  as before for up to 30 seconds. `userHasAny...` ignores global roles, which the guard counts.
  Assigning a role over an inactive link never activates it. A closed account may be let in from the
  cache for up to five minutes when an answer was on its way (`firebase-auth.guard.ts:349` says at
  once); closing in bulk sends no event.
* Pay, trees. `deletedAt: null` is no condition in TypeORM: a deleted schedule is revived,
  and a third raise closes the wrong entry. A cycle of organisations disappears from the tree. A
  library is deleted with its live folders. Moving a folder whose parent is loaded saves nothing.

## 4. What is proved

TLC checks instances of two clients and three rows; the theorems below hold for any number of
clients, rows, people, servers, days and amounts. Where a property only holds for calls made one
after the other (3.3), that is the hypothesis of its theorem and nothing else is added:
`OneAtATime` of the workflow, `OneClient` of the ledger, or that a component is not in
`Overlapping`. Some handlers are modelled in one step (`MayRun` alone: the reading of tasks, libraries and
folders, journals, evaluations, files of employees, HR desk): the step stands for a call nobody
disturbs, so a theorem about them without that hypothesis, marked "one step" below, says nothing
of two of their calls that do overlap.

A proof module extends the module it is about; lemmas on calls that are alone
(`AloneOrNone`), on least numbers (`LeastNatural`), on counting (`OneToOne`), on sums over a finite set
(`SumFunction` taken apart one term at a time, whichever comes first) and on averages are in `Callers_proofs`.

Almost no property is inductive as it stands. What is added is of one kind: what a call has read
and is about to act on still holds of the rows (`ReadsHold`, `ReadsAreFresh`, `CallHolds`,
`AddsHold`, `EnrollHolds` ...), with as much of the types as the steps need.

### 4.1 `InvoiceLedger_proofs`

| theorem | hypothesis | states | argument |
|---|---|---|---|
| `LedgerTyped` | none | `[]TypeOK` | one typing lemma per write (`CommitPaymentTyped`, `WritePaymentTyped`). That `paid` is a number comes from the CHECK, not from an induction over the sum |
| `PaymentsOnlyOnIssued` | none | `[]NoPaymentOnDraft` | a `pay` request in flight names an invoice that was already issued (`PaymentsStarted`), and no action leads back to `draft`, a late `syncInvoiceStatus` included |
| `StatusesFollowPayments`, `TotalsMatchLines`, `CancellationIsFinal` | `OneClient`, or `OneClerk`: one client does all that is not a payment, and no payment is synchronised late | `[]StatusFollowsPayments`, `[]TotalMatchesLines`, `CancelledIsFinal` | `LedgerInv`: every row is `Sound` (no draft has money, the total is that of its lines), and what a request read is still so (`ReadsHold`). Every handler is one of a few changes of one row (`Received`, `ReceivedFirst` ...), proved once each |
| `LedgerImplementsLifecycle` | `OneClient` | `InvoicesLiveTheirLives` | refinement of `InvoiceLifecycle`: initial states map to initial states, every step to a step or a stutter (`LedgerSteps`) |

### 4.2 `TaskWorkflow_proofs`

| theorem | hypothesis | states | argument |
|---|---|---|---|
| `WorkflowTyped` | none | `[]TypeOK` | with `NextStepExists`: a move about to be written has a next step |
| `DecisionsLeaveTraces` | none | `[]DecidedRequestsAreTraced` | every step that touches the validations is the decision of some user (`Decides`, `DecisionSteps`): one row, and the same decision for the requests it closes; rows are never removed |
| `SubmissionsAreUnique` | none | `[]OneSubmissionPerValidator` | a second row of a user for a step can only come from approving or rejecting a request, and only a user who may has such a call (`DecidersAreAllowed`) |
| `PendingRequestsAreUnique`, `RequestsAreDecidedOnce` | `OneAtATime` | `[]OnePendingPerStep`, `RequestDecidedOnce` | `SerialInv`: one call in flight (`AloneInFlight`), whose reads are fresh (`ReadsAreFresh`), and requests are of steps with a gate |
| `WorkflowImplementsGatedTask` | `OneAtATime` | `TasksWalkTheirGates` | refinement of `GatedTask`, step by step, from `SerialInv` |
| `GatesHold` | `OneAtATime` | `[]GatesPassedAreApproved` | from the steps of the refinement |
| `OnlyInitParts` | `StatusesComeFromSteps` | `OnlyInitPartsCompletion` | a move in flight writes the status of the step it writes, and a rollback one that is not `completed`; `initStep` alone writes the step and leaves the status |
| `CompletedTasksAreFinal` | the same; `OneAtATime`, or every task starts at the first step | `[]CompletedOnlyOnFinalStep`: no completed task is off the final step | then no initialisation is late |

### 4.3 `LeaveBalance_proofs`, `TaskDependencies_proofs`, `Realtime_proofs`

| theorem | hypothesis | states | argument |
|---|---|---|---|
| `QuotasHold` | `leave` not overlapping | `[]LeaveQuotas` | `QuotaInv`: what a creation checked still fits (`CallsFit`). A request of any sign is inserted within the right, and what leaves the sum either frees days or, when negative, counts as lent from then on (`AskedAndLent`). Sums are taken apart one term at a time (`OneTermChanges`) |
| `DeductedOnce` | `leave` not overlapping | `[]NeverAppliedTwice` | `DeductionInv`: an application that was not cancelled is of a record still deducted, or deleted for good (`Stands`), so a record that is selected for deduction has none |
| `WorkNeverBlocks` | `dependencies` not overlapping | `[]SomeTaskMayProceed` | `DependencyInv`: the rows have no cycle, or are at most one when the search reads the other names of the columns (`Acyclic`), and the row about to be added closes none (`AddsHold`). What is reached from a task is the least closed set (`ReachedIsLeast`); among finitely many unfinished tasks one that reaches fewest waits for none (`AcyclicHasFirst`, `TasksAssumption`) |
| `CriticalIsLongest` | `dependencies` not overlapping | `[]CriticalPathIsLongest` | from `DependencyInv`: what is acyclic is grounded, so that both passes, recursive functions over the tasks, are functions with the values they say. Along that order, by the least counterexample, a chain ends no later than its last task can, each early finish is that of a chain and each late finish leaves room for the longest one that follows; leads that fit keep a chain from ending before it starts |
| `CommentsReachFollowers` | none | `[]NothingFallsBetween` | `RealtimeInv`: a tab is in the room from `EnterRoom` until it leaves or its connection ends, and what was saved since its snapshot was read is seen or still to be sent |
| `OpenTabsAreOnline` | none | `[]OnlineWhileOpen` | a user is counted at least once per open socket |

### 4.4 `Staff_proofs`: the components of `MCStaff`

| theorem | not overlapping | states | argument |
|---|---|---|---|
| `NoReminderIsForgotten` | any | `[]DueIsTold` | `ReminderInv`: what a running job has not sent is in its list, or was edited that day, on any number of servers that crash and restart; `JobsWait` of a behaviour that looks elsewhere |
| `PunishedOnce`, `PunishedByDegrees`, `DeparturesStay` | `discipline` | `[]OneSanctionPerDay`, `EscalationIsGradual`, `DepartureKept` | `DisciplineInv`: what each kind of call in flight has read of the rows and counted of the sanctions (`CallHolds`, `RuleHolds`, `DecisionHolds`) |
| `NeverTwoOfOne` | `regulations`, `openings`, `positions`, `punches` | `[]NoTwoOfOne` | `OnesInv`: between `ArchiveActive` and `Activate` no regulation is in force; a second application or reminder is looked for before it is inserted; between the awaits that replace positions none is the main one |
| `JournalsAreKept` | one step | `WrittenStays` | by cases of the handlers |
| `ResultsStand` | one step | `[]ResultsAddUp` | `ResultsInv`. Sums are `SumFunction` over indicators and days: an average with weights that are not negative lies between the least and the greatest of what it averages, which may be negative (`Callers_proofs`), and the balance of a timesheet is the sum of what the days leave over |
| `StaffIsTyped` | any; `Clients` finite | `[]StaffTypeOK` | `StaffTyped`, component by component (`StaffStepTyped`): a call in flight that will append a row to a bounded table has its place reserved (hence finitely many clients), and a row a call has read is still in its table |

### 4.5 `Office_proofs`: the components of `MCOffice`

| theorem | not overlapping | states | argument |
|---|---|---|---|
| `NumbersRunOn` | any | `[]NoGap` | `NumberingInv`: the numbers taken are 1..n, and one about to be inserted is at most n + 1, wherever the order of texts puts the last |
| `ActiveProjectsStaffed` | any | `[]ActiveAndStaffed` | `SetupInv`: the member a call in flight gives a task to is one still (`SetupHolds`), since no modelled call takes a member away; an active project without a date has the call under way that dates it (`Starting`) |
| `GivenTasksRead` | one step | `[]GivenIsReadable` | `ReadingInv`: whoever has a task belongs to its project; the rest is a case analysis of the two decisions, `Shown` and `Opens`, over all rights |
| `SharedDevicesNoticed` | `access` | `[]SharedDeviceNoticed` | `AccessInv`: the owners a call found are all there are when it registers the device |
| `AnswersFollowEvents` | `roles` | `[]OnlyUntoldAnswersDiffer` | `AnswersInv`: an answer about to be kept is still what the tables grant, and one that differs while a role is being replaced is cleared by the event at its end |
| `TreesStand` | `branches` | `[]TreesHold` | `BranchInv`: an organisation about to be deleted has no child. `FolderInv`, of handlers of one step: what lies below a folder is the least set closed under being a child (`ClosedDownwards`), and a move out of it cannot close a circle (`Separated`, `FolderMoved`) |
| `NoSecondOne` | `academy`, `payroll` | `[]NoTwoOfOne` | `EnrollInv`, `PaymentInv`: no live enrolment that the search by one id can find, and no payment, is where the one about to be inserted goes. `LibrariesInv`, of handlers of one step: a default library is written in the transaction that clears the others |
| `ProjectsRecounted` | `progress` | `ReturnsRecounted` | `ProgressInv`: the average about to be written is that of the tasks as they are; what the average is need not be known |
| `OfficeIsTyped` | any | `[]OfficeTypeOK` | `OfficeTyped`, component by component (`ComponentStepTyped`; those that are not the focus keep theirs, `OtherOfficesTyped`). Three need more than types: the numbers taken are those of `NumberingInv`; a task is given to somebody (`SetupInv`); and a socket that is being checked has its place in the count of its user reserved, while only open sockets are in the room or joining it (`RealtimeTyped`) |

### 4.6 Assumptions on the constants

Each is named in the module that declares the constants, and TLC evaluates it on the runs of that
module. None restricts what a client may send beyond what the DTOs and the columns of the tables do.

* Of the bounds and thresholds, that they are numbers: `ConstantsAssumption` of the ledger and of
  the workflow, `DisciplineAssumption`, `DeskAssumption`, `RecordAssumption`, `HiringAssumption`,
  `ReminderAssumption`, `RealtimeAssumption`, `AcademyAssumption`, `NumberingAssumption`; several
  also say that the values sent are those the DTOs let through. `ProgressAssumption`: a progress is
  an integer, of any sign.
* Of the sets over which the code adds up, that they are finite: `TasksAssumption` (a project has
  finitely many tasks, of positive durations, and lags are integers), `LeaveAssumption` (finitely
  many requests and absences, told apart; lengths are integers), `SheetAssumption` (days of a
  timesheet, times of the day are numbers), `EvaluationAssumption` (indicators; points and weights
  are integers).
* `TextOrderAssumption`: the order of the database has a greatest text in every table that is not
  empty; `SetupAssumption`, `LibraryAssumption`, `RoleAssumption`: the marks for nobody, for the top
  and for everywhere are no rows; `ReadingAssumption`: a project lies in an organisation;
  `PayrollAssumption`: a schedule is of an employee, and days of pay and lengths of months are
  positive (`salary-schedule.service.ts:67` and 110 check 1 to 31).

### 4.7 Only model-checked

Liveness and ENABLED are out of the provers' reach: `PastSessionsClose` is checked
by TLC on the run `office` alone. Every other property of a passing run is the statement of a theorem above.
No proof is an induction over data: sums are taken apart term by term, and chains
and trees are compared through least sets and least elements, so no theorem takes an operator as a parameter.

## 5. What is assumed about the outside

* The trigger recomputes `paid_amount` in the statement that changes a payment, and the row
  lock of the invoice serialises it; the CHECK refuses the statement.
* Numbers that collide abort their transaction; the CHECK of the projects refuses an end
  before the start.
* `repository.save` reads the row again and writes the columns that differ; a relation that
  was loaded wins over its column; a condition whose value is null is left out.
* An advisory lock is released when its session ends, also by a crash.
* A socket that leaves or is lost is out of all its rooms; the messages of one room arrive.
* Firebase refuses a token of a disabled account; file storage and notifications do not change the
  modelled rows.

## 6. What is not modelled, and the plan

`PROJECT.json` says of each component what is left out. Not modelled at all:

* contacts and the PDF of finance documents, employees, geofences and leave types: rows with few
  rules between them, of which the modules above take what they read;
* notifications, dashboards and indicators (`pilotage`), the audit log: written after the fact
  or only read;
* storage, configuration, logging, scripts of the database, layout, DTO validation (its effect
  is the set of inputs enumerated).

Planned, most important first:

| what | why |
|---|---|
| the handlers modelled in one step, cut at their awaits | two moves of folders that overlap may put each in the other, two default libraries may be made at once: the code takes no lock, and 3.3 says so of the components already cut |
| rooms of tasks and of HR, scopes of department and team | the parts of `Realtime` and `TaskReading` left out |
