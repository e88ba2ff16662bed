-------------------------- MODULE TaskDependencies --------------------------
(***************************************************************************)
(* The dependencies between the tasks of one project                       *)
(* (core/projects/task-dependency.service.ts and the endpoints of          *)
(* core/projects/projects.service.ts that use it) and its critical path.   *)
(*                                                                         *)
(* Left out: the readability and write scope of a task, which look at the  *)
(* caller only, and the limits of 500 rows.                                *)
(***************************************************************************)
EXTENDS Callers, Integers, FiniteSets, FiniteSetsExt, SequencesExt, Functions

CONSTANTS Tasks,           \* tasks of the project
          DependencyTypes, \* a subset of the three types the switch knows
          Lags,            \* lag_days a client sends
          Duration,        \* Duration[t]: estimateTaskDuration, at least one day
          TaskStatuses,    \* statuses a client sends to updateTask
          MaxRows          \* bound on the rows of task_dependencies

ASSUME TasksAssumption ==
  /\ IsFiniteSet(Tasks)
  /\ Duration \in [Tasks -> Nat \ {0}]
  /\ Lags \subseteq Int   \* a lead is a negative lag

VARIABLES status,          \* status[t] of a task
          dependencies,    \* rows of task_dependencies
          rawKeys          \* how TypeORM's getRawMany names the columns of a row: after
                           \* the properties of the entity, as the search for a cycle
                           \* reads them, or after the columns of the table

depVars == <<status, dependencies, rawKeys>>

Done == {"completed", "approved"}

Row == [task: Tasks, on: Tasks, type: DependencyTypes, lag: Lags]

DependencyCall ==
  {Idle}
  \cup [at: {"add"}, row: Row, refused: BOOLEAN]
  \cup [at: {"set_status"}, task: Tasks, status: TaskStatuses]

DependencyTypeOK ==
  /\ status \in [Tasks -> TaskStatuses \cup {"todo", "approved"}]
  /\ dependencies \subseteq Row
  /\ rawKeys \in {"property", "column"}
  /\ focus = "dependencies" => call \in [Clients -> DependencyCall]

DependencyInit ==
  /\ status = [t \in Tasks |-> "todo"]
  /\ dependencies = {}
  /\ rawKeys \in IF focus = "dependencies" THEN {"property", "column"} ELSE {"column"}

-----------------------------------------------------------------------------
(* The graph *)

On(rows, t) == {r.on: r \in {d \in rows: d.task = t}}

ClosedUnder(rows, S) == \A r \in rows: r.task \in S => r.on \in S

\* tasks reached from those of S along the rows, S included
Reached(rows, S) ==
  {t \in Tasks: \A C \in SUBSET Tasks: S \subseteq C /\ ClosedUnder(rows, C) => t \in C}

HasCycle(rows) == \E t \in Tasks: t \in Reached(rows, On(rows, t))

\* (mutant) only a dependency straight back is seen
StraightBack(rows, task, on) == task \in On(rows, on)

\* assertNoCycleWouldBeCreated: the depth first search over the project's rows and
\* the new one.  Keys it does not find are undefined, and every row then leads from
\* "undefined" to undefined, whose neighbours are those of "undefined": a cycle
WouldCycle(rows, task, on) ==
  IF rawKeys = "column" THEN rows # {}
  ELSE HasCycle(rows \cup {[task |-> task, on |-> on]})

\* the switch of assertDependenciesSatisfied
SatisfiedRow(r) ==
  CASE r.type = "start_to_start" -> status[r.on] \notin {"todo", "pending"}
    [] OTHER -> status[r.on] \in Done

DependenciesSatisfied(t) == \A r \in dependencies: r.task = t => SatisfiedRow(r)

-----------------------------------------------------------------------------
(* ProjectsService: addTaskDependency, removeTaskDependency *)

\* task, dependsOnTask and the rows of the project are read; on a cycle it throws
BeginAddDependency(c, row) ==
  /\ MayStart(c, "dependencies")
  /\ row.task # row.on
  /\ Cardinality(dependencies) < MaxRows
  /\ Goto(c, [at |-> "add", row |-> row,
              refused |-> WouldCycle(dependencies, row.task, row.on)])
  /\ UNCHANGED depVars

\* a row of that type is returned as it is; otherwise the new one is inserted
AddDependency(c) ==
  /\ call[c].at = "add"
  /\ LET row == call[c].row
         existing == {d \in dependencies: d.task = row.task /\ d.on = row.on
                                          /\ d.type = row.type}
     IN  dependencies' = IF call[c].refused \/ existing # {} THEN dependencies
                         ELSE dependencies \cup {row}
  /\ Return(c)
  /\ UNCHANGED <<status, rawKeys>>

\* what it looks up decides about access only
RemoveDependency(c, task, on, type) ==
  /\ MayStart(c, "dependencies")
  /\ task # on
  /\ dependencies' = {d \in dependencies: ~ (d.task = task /\ d.on = on
                                             /\ type \in {"any", d.type})}
  /\ UNCHANGED <<status, rawKeys, call>>

-----------------------------------------------------------------------------
(* ProjectsService: updateTask with a status, validateTask *)

BeginSetStatus(c, t, next) ==
  /\ MayStart(c, "dependencies")
  /\ next \in {"todo", "pending"} \/ DependenciesSatisfied(t)
  /\ Goto(c, [at |-> "set_status", task |-> t, status |-> next])
  /\ UNCHANGED depVars

SetStatus(c) ==
  /\ call[c].at = "set_status"
  /\ status' = [status EXCEPT ![call[c].task] = call[c].status]
  /\ Return(c)
  /\ UNCHANGED <<dependencies, rawKeys>>

\* no look at the dependencies
ValidateTask(c, t) ==
  /\ MayStart(c, "dependencies")
  /\ status' = [status EXCEPT ![t] = "approved"]
  /\ UNCHANGED <<dependencies, rawKeys, call>>

DependencyNext ==
  \E c \in Clients:
    \/ \E row \in Row: BeginAddDependency(c, row)
    \/ AddDependency(c)
    \/ \E t, on \in Tasks, type \in DependencyTypes \cup {"any"}:
         RemoveDependency(c, t, on, type)
    \/ \E t \in Tasks, next \in TaskStatuses: BeginSetStatus(c, t, next)
    \/ SetStatus(c)
    \/ \E t \in Tasks: ValidateTask(c, t)

DependencySpec ==
  /\ DependencyInit
  /\ call = [c \in Clients |-> Idle]
  /\ [][DependencyNext]_<<depVars, call>>

-----------------------------------------------------------------------------
(* The critical path: computeCriticalPath over an acyclic graph            *)

\* topologicalSort orders the passes; on an acyclic graph every task is reached
\* after those it depends on, so each pass is a function over the graph
MaxOr(default, S) == IF S = {} THEN default ELSE Max(S)
MinOr(default, S) == IF S = {} THEN default ELSE Min(S)

EarlyFinish(rows) ==
  LET finish[t \in Tasks] ==
        MaxOr(0, {finish[r.on] + r.lag: r \in {d \in rows: d.task = t}}) + Duration[t]
  IN  finish

ProjectEnd(rows) == LET early == EarlyFinish(rows) IN Max({early[t]: t \in Tasks})

\* (mutant) the lag of a row is left out on the way back
LateFinishNoLag(rows) ==
  LET end == ProjectEnd(rows)
      finish[t \in Tasks] ==
        MinOr(end, {finish[r.task] - Duration[r.task]:
                                   r \in {d \in rows: d.on = t}})
  IN  finish

LateFinish(rows) ==
  LET end == ProjectEnd(rows)
      finish[t \in Tasks] ==
        MinOr(end, {finish[r.task] - Duration[r.task] - r.lag:
                                   r \in {d \in rows: d.on = t}})
  IN  finish

Critical(rows) ==
  LET early == EarlyFinish(rows)
      late  == LateFinish(rows)
  IN  {t \in Tasks: late[t] = early[t]}

\* the days a chain of rows takes, with the tasks at its two ends
ChainDays(chain) ==
  Duration[chain[1].on]
    + SumFunction([i \in DOMAIN chain |-> chain[i].lag + Duration[chain[i].task]])

\* chains of rows, each starting at the task the one before it leads to
Chains(rows) ==
  {chain \in SeqOf(rows, Cardinality(Tasks) - 1) \ {<<>>}:
     \A i \in 1..(Len(chain) - 1): chain[i].task = chain[i + 1].on}

\* no lead, a negative lag, is longer than one of the two tasks it is between
LeadsFit(rows) ==
  \A r \in rows: Duration[r.on] + r.lag >= 0 /\ Duration[r.task] + r.lag >= 0

-----------------------------------------------------------------------------
(* Properties *)

DependenciesAcyclic == ~HasCycle(dependencies)

\* While the dependencies of a project are added and removed one call at a time no
\* task waits, along however many others, for itself (task-dependency.service.ts:98,
\* "Détection de cycle avant insertion"): there is always an unfinished task of the
\* project that may be worked on, whatever order they were started, reopened and
\* validated in (the switch of assertDependenciesSatisfied).
SomeTaskMayProceed ==
  /\ DependenciesAcyclic
  /\ (\E t \in Tasks: status[t] \notin Done)
       => \E t \in Tasks: status[t] \notin Done /\ DependenciesSatisfied(t)

\* As long as no lead is longer than one of the tasks it is between, the tasks with no
\* float are those on a longest chain of the project, and the project ends when its
\* longest chain does (computeCriticalPath).
CriticalPathIsLongest ==
  LET chains  == Chains(dependencies)
      longest == Max({ChainDays(ch): ch \in chains} \cup {Duration[t]: t \in Tasks})
      on(ch)  == {ch[1].on} \cup {ch[i].task: i \in DOMAIN ch}
  IN  LeadsFit(dependencies) =>
        /\ ProjectEnd(dependencies) = longest
        /\ Critical(dependencies) =
             (UNION {on(ch): ch \in {k \in chains: ChainDays(k) = longest}})
             \cup {t \in Tasks: Duration[t] = longest}
=============================================================================
