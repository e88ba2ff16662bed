---------------------------- MODULE ProjectSetup ----------------------------
(***************************************************************************)
(* One project: its creation with the people it needs, its status and      *)
(* dates, and who its tasks are given to (core/projects/projects.service.ts*)
(* and projects-lookups.controller.ts).                                    *)
(*                                                                         *)
(* Nothing removes a member of a project, so what a call has looked up     *)
(* about membership still holds when it writes.  Left out: the scopes of   *)
(* the creator's own roles, organisations and departments, and the         *)
(* notifications but for those of assignments.                             *)
(***************************************************************************)
EXTENDS Callers, Integers, FiniteSets

CONSTANTS People,         \* users of the organisation
          ProjectTasks,   \* tasks of the project that may be created
          LastDate        \* bound on the days

VARIABLES project,        \* its row in projects
          members,        \* members[p]: role_in_project, or Outsider
          assignee,       \* assignee[t]: assignee_id of a task; NoTask before it is created
          today           \* CURRENT_DATE

setupVars == <<project, members, assignee, today>>

Outsider == "outsider"
Unassigned == "nobody"
NoTask == "no_task"
Undated == 0                \* a date that is null

ASSUME SetupAssumption ==
  /\ People \cap {Unassigned, NoTask} = {}
  /\ LastDate \in Nat \ {0}

ProjectDates == 1..LastDate
ProjectStatuses == {"planning", "active", "on_hold", "completed", "cancelled"}

ProjectRow == [status: ProjectStatuses, start: ProjectDates \cup {Undated}, end: ProjectDates \cup {Undated}]
NoProject == [status |-> "none", start |-> Undated, end |-> Undated]

SetupCall ==
  {Idle}
  \cup [at: {"status"}, status: ProjectStatuses]
  \cup [at: {"start"}]
  \cup [at: {"assign"}, task: ProjectTasks, to: People \cup {Unassigned}, loaded: People \cup {Unassigned}]

SetupTypeOK ==
  /\ project \in ProjectRow \cup {NoProject}
  /\ members \in [People -> {Outsider, "MANAGER", "MEMBER"}]
  /\ assignee \in [ProjectTasks -> People \cup {Unassigned, NoTask}]
  /\ today \in ProjectDates
  /\ focus = "projects" => call \in [Clients -> SetupCall]

SetupInit ==
  /\ project = NoProject
  /\ members = [p \in People |-> Outsider]
  /\ assignee = [t \in ProjectTasks |-> NoTask]
  /\ today = 1

Created == project # NoProject

\* the CHECK of the table projects
DatesInOrder(start, end) == Undated \in {start, end} \/ start <= end

Member(p) == members[p] # Outsider

-----------------------------------------------------------------------------
(* ProjectsService.createProjectV2: one transaction                        *)

CreateProject(c, creator, managers, others, start, end) ==
  /\ MayStart(c, "projects")
  /\ ~Created
  /\ DatesInOrder(start, end)
  /\ project' = [status |-> "planning", start |-> start, end |-> end]
  /\ members' = [p \in People |-> IF p \in managers \cup {creator} THEN "MANAGER"
                                  ELSE IF p \in others THEN "MEMBER" ELSE Outsider]
  /\ UNCHANGED <<assignee, today, call>>

-----------------------------------------------------------------------------
(* ProjectsLookupsController: updateProjectStatus, updateProjectDeadline.  *)
(* A member, a manager or the creator may call them.                       *)

BeginProjectStatus(c, p, status) ==
  /\ MayStart(c, "projects")
  /\ Created /\ Member(p)
  /\ Goto(c, [at |-> "status", status |-> status])
  /\ UNCHANGED setupVars

SetProjectStatus(c) ==
  /\ call[c].at = "status"
  /\ project' = [project EXCEPT !.status = call[c].status]
  /\ IF call[c].status = "active" THEN Goto(c, [at |-> "start"]) ELSE Return(c)
  /\ UNCHANGED <<members, assignee, today>>

StartDate(end) == IF end # Undated /\ end < today THEN end ELSE today

\* one UPDATE ... WHERE start_date IS NULL; what the CHECK refuses is only logged
DateTheStart(c) ==
  /\ call[c].at = "start"
  /\ LET start == StartDate(project.end)
     IN  project' = IF project.start = Undated /\ DatesInOrder(start, project.end)
                    THEN [project EXCEPT !.start = start] ELSE project
  /\ Return(c)
  /\ UNCHANGED <<members, assignee, today>>

SetDeadline(c, p, end) ==
  /\ MayStart(c, "projects")
  /\ Created /\ Member(p)
  /\ DatesInOrder(project.start, end)
  /\ project' = [project EXCEPT !.end = end]
  /\ UNCHANGED <<members, assignee, today, call>>

-----------------------------------------------------------------------------
(* ProjectsService: createTask, updateTask, updateTaskAssignee.  A task is *)
(* only given to a member of its project.                                  *)

\* (mutant) anyone of the organisation will do
AnyPerson(p) == TRUE

MayBeGiven(p) == p # Unassigned => Member(p)

CreateTaskFor(c, t, to) ==
  /\ MayStart(c, "projects")
  /\ Created /\ assignee[t] = NoTask
  /\ MayBeGiven(to)
  /\ assignee' = [assignee EXCEPT ![t] = to]
  /\ UNCHANGED <<project, members, today, call>>

\* updateTask writes the column alone
GiveTask(c, t, to) ==
  /\ MayStart(c, "projects")
  /\ assignee[t] # NoTask
  /\ MayBeGiven(to)
  /\ assignee' = [assignee EXCEPT ![t] = to]
  /\ UNCHANGED <<project, members, today, call>>

\* updateTaskAssignee loads the task with its relation to the assignee
BeginAssign(c, t, to) ==
  /\ MayStart(c, "projects")
  /\ assignee[t] # NoTask
  /\ MayBeGiven(to)
  /\ Goto(c, [at |-> "assign", task |-> t, to |-> to, loaded |-> assignee[t]])
  /\ UNCHANGED setupVars

\* TypeORM's save of an entity takes the id of a loaded relation from the related
\* entity, and not from the column beside it
SavedAssignee(loaded, to) == IF loaded = Unassigned THEN to ELSE loaded

\* only what differs from the row as save() reads it again is written, and the events
\* task.assigned and task.unassigned say what was asked
Assign(c) ==
  /\ call[c].at = "assign"
  /\ assignee' = [assignee EXCEPT ![call[c].task] = SavedAssignee(call[c].loaded, call[c].to)]
  /\ Return(c)
  /\ UNCHANGED <<project, members, today>>

NextDate ==
  /\ MayRun("projects")
  /\ today < LastDate
  /\ today' = today + 1
  /\ UNCHANGED <<project, members, assignee, call>>

SetupNext ==
  \/ \E c \in Clients:
       \/ \E creator \in People, managers, others \in SUBSET People,
             start, end \in ProjectDates \cup {Undated}:
            CreateProject(c, creator, managers, others, start, end)
       \/ \E p \in People, status \in ProjectStatuses: BeginProjectStatus(c, p, status)
       \/ SetProjectStatus(c)
       \/ DateTheStart(c)
       \/ \E p \in People, end \in ProjectDates \cup {Undated}: SetDeadline(c, p, end)
       \/ \E t \in ProjectTasks, to \in People \cup {Unassigned}:
            CreateTaskFor(c, t, to) \/ GiveTask(c, t, to) \/ BeginAssign(c, t, to)
       \/ Assign(c)
  \/ NextDate

-----------------------------------------------------------------------------
(* Properties *)

ActiveIsDated == Quiet /\ project.status = "active" => project.start # Undated

AssigneesBelong == \A t \in ProjectTasks: assignee[t] \in People => Member(assignee[t])

\* A project that was made active has a date it started on, whatever end was planned
\* for it before or since, in the past included (projects-lookups.controller.ts:804), and
\* whoever has a task belongs to its project, by whichever of the three endpoints the
\* task was given (projects.service.ts:1953, 2063 and 2795).
ActiveAndStaffed == ActiveIsDated /\ AssigneesBelong
=============================================================================
