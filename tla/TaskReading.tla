---------------------------- MODULE TaskReading -----------------------------
(***************************************************************************)
(* Who may read a task: the list of the control tower and the page of one  *)
(* task decide separately, each from the rights of the caller in the       *)
(* organisation the call is made for, what the guard adds to them for      *)
(* members of a project, and the organisations the caller has access to,   *)
(* which are kept for five minutes (core/projects/projects.service.ts,     *)
(* core/rbac/permission.guard.ts).                                         *)
(*                                                                         *)
(* One reader; everything else is done by others.  A project has one task. *)
(* Left out: the scopes department and team, and the buckets and lengths   *)
(* of lists.                                                               *)
(***************************************************************************)
EXTENDS Callers

CONSTANTS Tenants,         \* organisations
          ParentOf,        \* ParentOf[o]: the organisation above, or NoneAbove
          SharedProjects,
          TenantOf         \* TenantOf[p]: the organisation of a project

ASSUME ReadingAssumption == TenantOf \in [SharedProjects -> Tenants]

VARIABLES rights,       \* rights[o]: what the roles of the reader give in o, or NoRole
          seesAll,      \* one of them has hr.organizations.read.all
          shared,       \* shared[p]: a project, as seen by the reader, or Unmade
          job,          \* job[p]: its task, or Unmade
          knownTenants  \* orgAccessCache: the organisations found last, or NotKnown

readingVars == <<rights, seesAll, shared, job, knownTenants>>

NoneAbove == "none_above"
NoRole == "no_role"
Unmade == [at |-> "unmade"]
NotKnown == {"not_known"}   \* no set of organisations

\* "seat" is a role that has nothing to do with tasks
Rights == {"seat", "own", "project", "tenant"}

SharedProject == [place: {"outsider", "member", "manager"}, managed: BOOLEAN]

\* manager: the reader is created_by or manager_id; managed: manager_id is not null
Made(place, managed) == [place |-> place, managed |-> managed]

ReadingTypeOK ==
  /\ rights \in [Tenants -> Rights \cup {NoRole}]
  /\ seesAll \in BOOLEAN
  /\ shared \in [SharedProjects -> SharedProject \cup {Unmade}]
  /\ job \in [SharedProjects -> [assigned: BOOLEAN, authored: BOOLEAN] \cup {Unmade}]
  /\ knownTenants \in SUBSET Tenants \/ knownTenants = NotKnown

ReadingInit ==
  /\ rights = [o \in Tenants |-> NoRole]
  /\ seesAll = FALSE
  /\ shared = [p \in SharedProjects |-> Unmade]
  /\ job = [p \in SharedProjects |-> Unmade]
  /\ knownTenants = NotKnown

-----------------------------------------------------------------------------
(* How the reader is linked to a project and its task                      *)

\* creator and managers have a row in project_members too
Belongs(p) == shared[p] # Unmade /\ shared[p].place # "outsider"
Manages(p) == shared[p] # Unmade /\ shared[p].place = "manager"
Holds(p) == job[p] # Unmade /\ (job[p].assigned \/ job[p].authored)

\* isUserRelatedToTask
Related(p) == Belongs(p) \/ Holds(p)

-----------------------------------------------------------------------------
(* resolveAccessibleOrganizationIdsForUser                                 *)

Linked == {o \in Tenants: rights[o] # NoRole}
          \cup {TenantOf[p]: p \in {q \in SharedProjects: Related(q)}}

Accessible == Linked \cup {o \in Tenants: ParentOf[o] \in Linked}

Allowed == IF knownTenants # NotKnown THEN knownTenants
           ELSE IF seesAll THEN Tenants ELSE Accessible

\* the answer of a reader who sees all organisations is not kept
AllowedIsKept ==
  knownTenants' = IF knownTenants = NotKnown /\ ~seesAll THEN Accessible ELSE knownTenants

-----------------------------------------------------------------------------
(* The guard: maybeAugmentPermissionsFromProjectMembership.  It runs only  *)
(* for a caller who has some role in the organisation of the call.         *)

\* on the page of a task.  The test of a missing membership has manager_id <> caller as
\* a conjunct, which is unknown when manager_id is null, so that nobody fails it then.
TakenForMember(p) == Belongs(p) \/ (shared[p] # Unmade /\ ~shared[p].managed)

AddedOnPage(o, p) == TenantOf[p] = o /\ TakenForMember(p)

\* on the list
AddedOnList(o) == \E p \in SharedProjects: TenantOf[p] = o /\ Belongs(p)

\* resolveUserScope: the widest, with read.project added or not
ReadScope(right, added) ==
  IF right # "tenant" /\ added THEN "project" ELSE right

-----------------------------------------------------------------------------
(* The two decisions *)

\* assertTaskReadableOrThrow, the query
Selected(scope, p) ==
  \/ scope = "own" /\ (Holds(p) \/ Manages(p))
  \/ scope = "project" /\ Belongs(p)
  \/ scope = "tenant"

PassesQuery(o, p) ==
  /\ job[p] # Unmade
  /\ rights[o] # NoRole
  /\ Selected(ReadScope(rights[o], AddedOnPage(o, p)), p)

Opens(o, p) == PassesQuery(o, p) /\ (Related(p) \/ TenantOf[p] \in Allowed)

\* listControlTowerTasks, for the organisations wished or for all
Shown(o, wished) ==
  LET scope == ReadScope(rights[o], AddedOnList(o))
  IN  {p \in SharedProjects:
         /\ job[p] # Unmade
         /\ TenantOf[p] \in Allowed
         /\ wished # {} => TenantOf[p] \in wished
         /\ \/ scope = "own" /\ Holds(p)
            \/ scope = "project" /\ Belongs(p)
            \/ scope = "tenant"}

MayList(o) == rights[o] # NoRole /\ ReadScope(rights[o], AddedOnList(o)) # "seat"

-----------------------------------------------------------------------------
(* What others do *)

\* createProjectV2: its members are settled then
MakeProject(p, place, managed) ==
  /\ MayRun("reading")
  /\ shared[p] = Unmade
  /\ shared' = [shared EXCEPT ![p] = Made(place, managed)]
  /\ UNCHANGED <<rights, seesAll, job, knownTenants, call>>

\* (mutant) no look at project_members
AnyHolder(p) == TRUE

\* project_members is looked at before a task is given to anyone
MayHold(p) == Belongs(p)

\* createTask.  The right to create is another one than the right to read, and with the
\* wide form of it an outsider may create.
MakeTask(p, assigned, authored) ==
  /\ MayRun("reading")
  /\ shared[p] # Unmade /\ job[p] = Unmade
  /\ assigned => MayHold(p)
  /\ authored => rights[TenantOf[p]] # NoRole
  /\ job' = [job EXCEPT ![p] = [assigned |-> assigned, authored |-> authored]]
  /\ UNCHANGED <<rights, seesAll, shared, knownTenants, call>>

\* updateTask
Reassign(p, assigned) ==
  /\ MayRun("reading")
  /\ job[p] # Unmade
  /\ assigned => MayHold(p)
  /\ job' = [job EXCEPT ![p].assigned = assigned]
  /\ UNCHANGED <<rights, seesAll, shared, knownTenants, call>>

ChangeRights(o, r) ==
  /\ MayRun("reading")
  /\ rights' = [rights EXCEPT ![o] = r]
  /\ UNCHANGED <<seesAll, shared, job, knownTenants, call>>

ChangeSeesAll ==
  /\ MayRun("reading")
  /\ seesAll' = ~seesAll
  /\ UNCHANGED <<rights, shared, job, knownTenants, call>>

(* What the reader does *)

ListTasks(o) ==
  /\ MayRun("reading")
  /\ MayList(o)
  /\ AllowedIsKept
  /\ UNCHANGED <<rights, seesAll, shared, job, call>>

\* refused or not, who is not related to the task has the organisations looked up
OpenTask(o, p) ==
  /\ MayRun("reading")
  /\ PassesQuery(o, p) /\ ~Related(p)
  /\ AllowedIsKept
  /\ UNCHANGED <<rights, seesAll, shared, job, call>>

ForgetOrganizations ==
  /\ MayRun("reading")
  /\ knownTenants' = NotKnown
  /\ UNCHANGED <<rights, seesAll, shared, job, call>>

ReadingNext ==
  \/ \E p \in SharedProjects:
       \/ \E place \in {"outsider", "member", "manager"}, managed \in BOOLEAN:
            MakeProject(p, place, managed)
       \/ \E assigned, authored \in BOOLEAN: MakeTask(p, assigned, authored)
       \/ \E assigned \in BOOLEAN: Reassign(p, assigned)
       \/ \E o \in Tenants: OpenTask(o, p)
  \/ \E o \in Tenants: ListTasks(o) \/ \E r \in Rights \cup {NoRole}: ChangeRights(o, r)
  \/ ChangeSeesAll
  \/ ForgetOrganizations

-----------------------------------------------------------------------------
(* Properties *)

\* Whoever a task was given to can open it from any organisation in which a role of his
\* lets him read tasks, and from the organisation of the task whatever his role there;
\* and the list shows it as well, once the organisations it goes by include that one
\* (projects.service.ts:1701, permission.guard.ts:123).
GivenIsReadable ==
  \A p \in SharedProjects, o \in Tenants:
    /\ job[p] # Unmade /\ job[p].assigned
    /\ rights[o] # NoRole
    /\ rights[o] # "seat" \/ TenantOf[p] = o
    => /\ Opens(o, p)
       /\ MayList(o)
       /\ knownTenants = NotKnown \/ TenantOf[p] \in knownTenants
          => \A wished \in SUBSET Tenants:
               wished = {} \/ TenantOf[p] \in wished => p \in Shown(o, wished)
=============================================================================
