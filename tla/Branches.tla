------------------------------ MODULE Branches ------------------------------
(***************************************************************************)
(* The organisations and the tree they form                                *)
(* (core/organizations/organizations.service.ts), and the departments of   *)
(* one of them with the codes made from their names                        *)
(* (core/departments/departments.service.ts).                              *)
(*                                                                         *)
(* Left out: the other fields, and the code an organisation is given.      *)
(***************************************************************************)
EXTENDS Callers, FiniteSets

CONSTANTS Organizations,  \* organisations that may be created
          Departments,    \* departments of one organisation that may be created
          Codes           \* their codes

VARIABLES organization,   \* organization[o]: its row
          department      \* department[d]: its row

branchVars == <<organization, department>>

Gone == [row |-> "gone"]  \* no such row
NoParent == "none"

OrganizationRow == [parent: Organizations \cup {NoParent}, root: BOOLEAN, active: BOOLEAN]
DepartmentRow == [parent: Departments \cup {NoParent}, code: Codes, active: BOOLEAN]

BranchCall ==
  {Idle} \cup [at: {"delete"}, organization: Organizations]

BranchTypeOK ==
  /\ organization \in [Organizations -> OrganizationRow \cup {Gone}]
  /\ department \in [Departments -> DepartmentRow \cup {Gone}]
  /\ focus = "branches" => call \in [Clients -> BranchCall]

BranchInit ==
  /\ organization = [o \in Organizations |-> Gone]
  /\ department = [d \in Departments |-> Gone]

Exists(o) == organization[o] # Gone
Present(d) == department[d] # Gone

-----------------------------------------------------------------------------
(* OrganizationsService: create, update, delete                            *)

\* assertParentIsValid; no look at what is below the organisation itself
ParentIsValid(parent, root, self) ==
  parent # NoParent => ~root /\ parent # self /\ Exists(parent)

CreateOrganization(c, o, parent, root) ==
  /\ MayStart(c, "branches")
  /\ ~Exists(o)
  /\ ParentIsValid(parent, root, o)
  /\ organization' = [organization EXCEPT ![o] = [parent |-> parent, root |-> root,
                                                  active |-> TRUE]]
  /\ UNCHANGED <<department, call>>

\* a field that is not sent keeps its value, and is not checked
AttachOrganization(c, o, parent) ==
  /\ MayStart(c, "branches")
  /\ Exists(o)
  /\ ParentIsValid(parent, organization[o].root, o)
  /\ organization' = [organization EXCEPT ![o].parent = parent]
  /\ UNCHANGED <<department, call>>

SetRoot(c, o, root) ==
  /\ MayStart(c, "branches")
  /\ Exists(o)
  /\ organization' = [organization EXCEPT ![o].root = root]
  /\ UNCHANGED <<department, call>>

SetActive(c, o, active) ==
  /\ MayStart(c, "branches")
  /\ Exists(o)
  /\ organization' = [organization EXCEPT ![o].active = active]
  /\ UNCHANGED <<department, call>>

Children(o) == {p \in Organizations: Exists(p) /\ organization[p].parent = o}

\* (mutant) only the branches that are active count
ActiveChildless(o) == \A p \in Children(o): ~organization[p].active

Childless(o) == Children(o) = {}

BeginDeleteOrganization(c, o) ==
  /\ MayStart(c, "branches")
  /\ Exists(o) /\ Childless(o)
  /\ Goto(c, [at |-> "delete", organization |-> o])
  /\ UNCHANGED branchVars

DeleteOrganization(c) ==
  /\ call[c].at = "delete"
  /\ organization' = [organization EXCEPT ![call[c].organization] = Gone]
  /\ Return(c)
  /\ UNCHANGED department

-----------------------------------------------------------------------------
(* DepartmentsController.  Its create asks for a code, so the one the      *)
(* service would make from the name is never needed.                       *)

CodesTaken(ds) == {department[d].code: d \in {e \in ds: Present(e)}}

\* uq_departments_org_code refuses a code that is taken, by an inactive one as well
CreateDepartment(c, d, parent, code) ==
  /\ MayStart(c, "branches")
  /\ ~Present(d)
  /\ code \notin CodesTaken(Departments)
  /\ department' = [department EXCEPT ![d] = [parent |-> parent, code |-> code, active |-> TRUE]]
  /\ UNCHANGED <<organization, call>>

\* update: a parent that is not sent is taken for null, and any parent is accepted
UpdateDepartment(c, d, parent, code, active) ==
  /\ MayStart(c, "branches")
  /\ Present(d)
  /\ code \notin CodesTaken(Departments \ {d})
  /\ department' = [department EXCEPT ![d] = [parent |-> parent, code |-> code, active |-> active]]
  /\ UNCHANGED <<organization, call>>

\* one UPDATE: softDelete, restore, bulk
ActivateDepartments(c, ds, active) ==
  /\ MayStart(c, "branches")
  /\ \A d \in ds: Present(d)
  /\ department' = [d \in Departments |-> IF d \in ds THEN [department[d] EXCEPT !.active = active]
                                          ELSE department[d]]
  /\ UNCHANGED <<organization, call>>

\* the foreign key of its children refuses
HardDeleteDepartment(c, d) ==
  /\ MayStart(c, "branches")
  /\ Present(d)
  /\ \A e \in Departments \ {d}: Present(e) => department[e].parent # d
  /\ department' = [department EXCEPT ![d] = Gone]
  /\ UNCHANGED <<organization, call>>

OrganizationsController ==
  \E c \in Clients:
    \/ \E o \in Organizations, parent \in Organizations \cup {NoParent}:
         \/ \E root \in BOOLEAN: CreateOrganization(c, o, parent, root)
         \/ AttachOrganization(c, o, parent)
    \/ \E o \in Organizations, flag \in BOOLEAN: SetRoot(c, o, flag) \/ SetActive(c, o, flag)
    \/ \E o \in Organizations: BeginDeleteOrganization(c, o)
    \/ DeleteOrganization(c)

DepartmentsController ==
  \E c \in Clients:
    \/ \E d \in Departments, parent \in Departments \cup {NoParent}, code \in Codes:
         \/ CreateDepartment(c, d, parent, code)
         \/ \E active \in BOOLEAN: UpdateDepartment(c, d, parent, code, active)
    \/ \E ds \in SUBSET Departments, active \in BOOLEAN: ActivateDepartments(c, ds, active)
    \/ \E d \in Departments: HardDeleteDepartment(c, d)

BranchNext == OrganizationsController \/ DepartmentsController

-----------------------------------------------------------------------------
(* Properties *)

\* While calls are made one after the other no organisation is left below one that was
\* deleted, however they were attached and detached (organizations.service.ts:319).
ParentsExist ==
  \A o \in Organizations: Exists(o) /\ organization[o].parent # NoParent
                            => Exists(organization[o].parent)
=============================================================================
