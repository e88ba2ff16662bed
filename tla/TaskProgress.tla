---------------------------- MODULE TaskProgress ----------------------------
(***************************************************************************)
(* The progress of the tasks of one project and of the project itself      *)
(* (core/projects/subtask.service.ts; createTask, updateTask, deleteTask,  *)
(* validateTask and the subtask endpoints of projects.service.ts).         *)
(*                                                                         *)
(* Every call that changes a subtask recounts the progress of its task,    *)
(* and every call that changes a task or a subtask recounts the progress   *)
(* of the project: a count in one await, the row written in the next, on   *)
(* connections of their own.                                               *)
(*                                                                         *)
(* Left out: who may write a task or a subtask, which looks at the caller  *)
(* only, the status of a task (TaskDependencies, TaskWorkflow), the        *)
(* notifications, and projects shared by several organizations.            *)
(***************************************************************************)
EXTENDS Callers, Integers, FiniteSets, FiniteSetsExt, Functions

CONSTANTS ProgressTasks,  \* rows tasks may come to hold
          Subtasks,       \* rows subtasks may come to hold
          Percents        \* progress a client sends to createTask or updateTask

\* the DTO asks for an integer, in whatever range
ASSUME ProgressAssumption ==
  /\ IsFiniteSet(ProgressTasks) /\ ProgressTasks # {}
  /\ IsFiniteSet(Subtasks)
  /\ Percents \subseteq Int

VARIABLES task,           \* task[t]: progress, and whether it exists or is deleted
          subtask,        \* subtask[s]: its task, is_completed, and as above
          progress        \* progress of the project

progVars == <<task, subtask, progress>>

Life == {"none", "live", "deleted"}   \* deleted: deleted_at is set

ProgressCall ==
  {Idle}
  \cup [at: {"count"}, task: ProgressTasks]
  \cup [at: {"write_task"}, task: ProgressTasks, progress: 0..100]
  \cup [at: {"average"}, deletes: ProgressTasks \cup {"no"}]
  \cup [at: {"write_project"}, progress: Int, deletes: ProgressTasks \cup {"no"}]
  \cup [at: {"commit"}, deletes: ProgressTasks]

ProgressTypeOK ==
  /\ task \in [ProgressTasks -> [life: Life, progress: Int]]
  /\ subtask \in [Subtasks -> [life: Life, task: ProgressTasks, done: BOOLEAN]]
  /\ progress \in Int
  /\ focus = "progress" => call \in [Clients -> ProgressCall]

ProgressInit ==
  /\ task = [t \in ProgressTasks |-> [life |-> "none", progress |-> 0]]
  /\ subtask = [s \in Subtasks |-> [life |-> "none", task |-> CHOOSE t \in ProgressTasks: TRUE,
                                     done |-> FALSE]]
  /\ progress = 0

-----------------------------------------------------------------------------
(* The two counts *)

\* Math.round of a quotient, halves upwards
Rounded(a, b) == (2 * a + b) \div (2 * b)

LiveSubtasks(t) == {s \in Subtasks: subtask[s].life = "live" /\ subtask[s].task = t}

\* recalcTaskProgressFromSubtasks: a task with no subtask, or deleted, is at 0
SubtaskCount(t) ==
  LET all  == IF task[t].life = "deleted" THEN {} ELSE LiveSubtasks(t)
      done == {s \in all: subtask[s].done}
  IN  IF all = {} THEN 0 ELSE Rounded(100 * Cardinality(done), Cardinality(all))

Weight(t) == Max({1, Cardinality(LiveSubtasks(t))})

\* recalcProjectProgressFromTasks over these tasks
WeightedAverage(tasks) ==
  IF tasks = {} THEN 0
  ELSE Rounded(SumFunction([t \in tasks |-> task[t].progress * Weight(t)]),
               SumFunction([t \in tasks |-> Weight(t)]))

LiveTasks == {t \in ProgressTasks: task[t].life = "live"}

-----------------------------------------------------------------------------
(* The first write of a call; what it leaves to recount *)

CreateTask(c, t, p) ==
  /\ MayStart(c, "progress")
  /\ task[t].life = "none"
  /\ task' = [task EXCEPT ![t] = [life |-> "live", progress |-> p]]
  /\ Goto(c, [at |-> "average", deletes |-> "no"])
  /\ UNCHANGED <<subtask, progress>>

\* updateTask finds deleted rows too
UpdateTask(c, t, p) ==
  /\ MayStart(c, "progress")
  /\ task[t].life # "none"
  /\ task' = [task EXCEPT ![t].progress = p]
  /\ Goto(c, [at |-> "average", deletes |-> "no"])
  /\ UNCHANGED <<subtask, progress>>

\* only the status and completed_at change
ValidateTaskProgress(c, t) ==
  /\ MayStart(c, "progress")
  /\ task[t].life # "none"
  /\ Goto(c, [at |-> "average", deletes |-> "no"])
  /\ UNCHANGED progVars

\* the transaction of deleteTask has marked the row and not committed it; the
\* project is recounted on another connection, which does not see the mark
DeleteTask(c, t) ==
  /\ MayStart(c, "progress")
  /\ task[t].life = "live"
  /\ Goto(c, [at |-> "average", deletes |-> t])
  /\ UNCHANGED progVars

CreateSubtask(c, s, t) ==
  /\ MayStart(c, "progress")
  /\ subtask[s].life = "none"
  /\ task[t].life # "none"
  /\ subtask' = [subtask EXCEPT ![s] = [life |-> "live", task |-> t, done |-> FALSE]]
  /\ Goto(c, [at |-> "count", task |-> t])
  /\ UNCHANGED <<task, progress>>

UpdateSubtask(c, s, done) ==
  /\ MayStart(c, "progress")
  /\ subtask[s].life = "live"
  /\ subtask' = [subtask EXCEPT ![s].done = done]
  /\ Goto(c, [at |-> "count", task |-> subtask[s].task])
  /\ UNCHANGED <<task, progress>>

DeleteSubtask(c, s) ==
  /\ MayStart(c, "progress")
  /\ subtask[s].life = "live"
  /\ subtask' = [subtask EXCEPT ![s].life = "deleted"]
  /\ Goto(c, [at |-> "count", task |-> subtask[s].task])
  /\ UNCHANGED <<task, progress>>

-----------------------------------------------------------------------------
(* The recounts *)

CountSubtasks(c) ==
  /\ call[c].at = "count"
  /\ Goto(c, [at |-> "write_task", task |-> call[c].task,
              progress |-> SubtaskCount(call[c].task)])
  /\ UNCHANGED progVars

\* (mutant) the project is left alone when the progress of the task stays the same
WriteChangedProgress(c) ==
  /\ call[c].at = "write_task"
  /\ task' = [task EXCEPT ![call[c].task].progress = call[c].progress]
  /\ IF task' = task THEN Return(c) ELSE Goto(c, [at |-> "average", deletes |-> "no"])
  /\ UNCHANGED <<subtask, progress>>

WriteTaskProgress(c) ==
  /\ call[c].at = "write_task"
  /\ task' = [task EXCEPT ![call[c].task].progress = call[c].progress]
  /\ Goto(c, [at |-> "average", deletes |-> "no"])
  /\ UNCHANGED <<subtask, progress>>

AverageTasks(c) ==
  /\ call[c].at = "average"
  /\ Goto(c, [at |-> "write_project", progress |-> WeightedAverage(LiveTasks),
              deletes |-> call[c].deletes])
  /\ UNCHANGED progVars

WriteProjectProgress(c) ==
  /\ call[c].at = "write_project"
  /\ progress' = call[c].progress
  /\ IF call[c].deletes = "no" THEN Return(c)
     ELSE Goto(c, [at |-> "commit", deletes |-> call[c].deletes])
  /\ UNCHANGED <<task, subtask>>

\* the transaction of deleteTask ends
CommitDeletion(c) ==
  /\ call[c].at = "commit"
  /\ task' = [task EXCEPT ![call[c].deletes].life = "deleted"]
  /\ Return(c)
  /\ UNCHANGED <<subtask, progress>>

ProgressNext ==
  \E c \in Clients:
    \/ \E t \in ProgressTasks, p \in Percents: CreateTask(c, t, p)
    \/ \E t \in ProgressTasks, p \in Percents: UpdateTask(c, t, p)
    \/ \E t \in ProgressTasks: ValidateTaskProgress(c, t)
    \/ \E t \in ProgressTasks: DeleteTask(c, t)
    \/ \E s \in Subtasks, t \in ProgressTasks: CreateSubtask(c, s, t)
    \/ \E s \in Subtasks, done \in BOOLEAN: UpdateSubtask(c, s, done)
    \/ \E s \in Subtasks: DeleteSubtask(c, s)
    \/ CountSubtasks(c)
    \/ WriteTaskProgress(c)
    \/ AverageTasks(c)
    \/ WriteProjectProgress(c)
    \/ CommitDeletion(c)

-----------------------------------------------------------------------------
(* Properties *)

\* Made one after the other, every call but a deletion returns with the project at the
\* average of its live tasks, each weighted by its live subtasks, whichever handler it
\* came through and whatever was given by hand or deleted before
\* (projects.service.ts:361, subtask.service.ts:294).
ReturnsRecounted ==
  [][(\A c \in Clients: call[c].at # "commit" /\ call[c]' = Idle)
       => progress' = WeightedAverage(LiveTasks)']_<<progVars, call>>

\* A deletion leaves the project at the average of the tasks that remain
\* (projects.service.ts:2174, "La progression du projet est recalculée immédiatement après
\* dans la même transaction pour cohérence").
DeletionRecounted ==
  [][\A c \in Clients:
       call[c].at = "commit" => progress' = WeightedAverage(LiveTasks)']_<<progVars, call>>
=============================================================================
