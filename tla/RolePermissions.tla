--------------------------- MODULE RolePermissions --------------------------
(***************************************************************************)
(* Roles, what they permit, who holds them, and the guard that decides on  *)
(* a copy of the answer thirty seconds old at most                         *)
(* (core/rbac/rbac-management.service.ts, roles.controller.ts,             *)
(* permission.guard.ts, and the roles of core/users/users.service.ts).     *)
(*                                                                         *)
(* Replacing the permissions of a role is a deletion, an insertion and an  *)
(* event; the guard reads the permissions in one await and keeps them in a *)
(* later step.  Those two are calls of several steps.                      *)
(*                                                                         *)
(* Left out: names, codes, levels and labels of roles and permissions, the *)
(* lists, the modules an organization enables, and the permissions a       *)
(* project adds for its members during one request.                        *)
(***************************************************************************)
EXTENDS Callers, FiniteSets

CONSTANTS Holders,       \* users
          Branches,      \* organizations
          Roles,         \* rows the table of roles may come to hold
          OrgOf,         \* OrgOf[r]: organization of a role, or "global"
          BaseRole,      \* the role COLLABORATEUR of an organization
          Permissions

ASSUME RoleAssumption == "global" \notin Branches

VARIABLES known,     \* core.permissions
          role,      \* core.roles and core.role_permissions
          link,      \* core.user_roles
          cached,    \* the cache of PermissionGuard, by user and organization
          untold     \* (history) answers kept since before a change of the rights they
                     \* state for which no event was sent

roleVars == <<known, role, link, cached, untold>>

RoleRow == [exists: BOOLEAN, active: BOOLEAN, permits: SUBSET Permissions]

\* "lapsed": the row is active and its expires_at is past
LinkStates == {"none", "active", "inactive", "lapsed"}

Missing == {"missing"}

Keys == Holders \X Branches   \* cacheKey
KeysOf(u) == {u} \X Branches

RoleCall ==
  {Idle}
  \cup [at: {"emptied"}, role: Roles, permits: SUBSET Permissions]
  \cup [at: {"saved"}, role: Roles]
  \cup [at: {"read"}, user: Holders, branch: Branches, permits: SUBSET Permissions]

RoleTypeOK ==
  /\ known \in SUBSET Permissions
  /\ role \in [Roles -> RoleRow]
  /\ link \in [Holders -> [Roles -> LinkStates]]
  /\ cached \in [Keys -> {Missing} \cup SUBSET Permissions]
  /\ untold \in SUBSET Keys
  /\ focus = "roles" => call \in [Clients -> RoleCall]

RoleInit ==
  /\ known = {}
  /\ role = [r \in Roles |-> [exists |-> r = BaseRole \/ OrgOf[r] = "global", active |-> TRUE,
                             permits |-> {}]]
  /\ \E administrators \in IF focus = "roles" THEN SUBSET Holders ELSE {{}}:
       link = [u \in Holders |-> [r \in Roles |->
                 IF OrgOf[r] = "global" /\ u \in administrators THEN "active" ELSE "none"]]
  /\ cached = [k \in Keys |-> Missing]
  /\ untold = {}

\* a change of the rights the answers of `changed` state, and an event by which the
\* guard forgets those of `told`
Notify(told, changed) ==
  /\ cached' = [k \in Keys |-> IF k \in told THEN Missing ELSE cached[k]]
  /\ untold' = {k \in Keys \ told: k \in untold \cup changed /\ cached[k] # Missing}

-----------------------------------------------------------------------------
(* RolesController *)

CreateRole(r) ==
  /\ MayRun("roles")
  /\ ~role[r].exists
  /\ role' = [role EXCEPT ![r] = [exists |-> TRUE, active |-> TRUE, permits |-> {}]]
  /\ UNCHANGED <<known, link, cached, untold, call>>

\* update, softDelete, restore and bulk: roles of the organization only, no event
SetRolesActive(o, rs, on) ==
  /\ MayRun("roles")
  /\ role' = [r \in Roles |-> IF r \in rs /\ OrgOf[r] = o /\ role[r].exists
                              THEN [role[r] EXCEPT !.active = on] ELSE role[r]]
  /\ Notify({}, Holders \X {o})
  /\ UNCHANGED <<known, link, call>>

\* the foreign keys of user_roles and role_permissions stop the deletion of a role in use
HardDeleteRole(r) ==
  /\ MayRun("roles")
  /\ role[r].exists
  /\ role[r].permits = {} /\ \A u \in Holders: link[u][r] = "none"
  /\ role' = [role EXCEPT ![r].exists = FALSE]
  /\ UNCHANGED <<known, link, cached, untold, call>>

-----------------------------------------------------------------------------
(* RbacManagementService *)

\* createPermission refuses a code that exists already, and the seeders leave it alone
CreatePermission(p) ==
  /\ MayRun("roles")
  /\ p \notin known
  /\ known' = known \cup {p}
  /\ UNCHANGED <<role, link, cached, untold, call>>

SeedPermissions(ps) ==
  /\ MayRun("roles")
  /\ known' = known \cup ps
  /\ UNCHANGED <<role, link, cached, untold, call>>

\* initializeDefaultPermissions: the table it holds names them all
InitializeDefaultPermissions == SeedPermissions(Permissions)

\* deletePermission: with the rows that grant it, and no event
DeletePermission(p) ==
  /\ MayRun("roles")
  /\ p \in known
  /\ known' = known \ {p}
  /\ role' = [r \in Roles |-> [role[r] EXCEPT !.permits = @ \ {p}]]
  /\ Notify({}, Keys)
  /\ UNCHANGED <<link, call>>

HoldsGlobalRole(u) ==
  \E r \in Roles: OrgOf[r] = "global" /\ role[r].active /\ link[u][r] \in {"active", "lapsed"}

\* assertRoleEditable, and the role assignRoleToUser looks for: a role of the
\* organization, or a global one for who holds a global one
Editable(by, r, o) ==
  /\ role[r].exists
  /\ OrgOf[r] \in {o, "global"}
  /\ OrgOf[r] = "global" => HoldsGlobalRole(by)

\* assignPermissionsToRole
BeginSetPermissions(c, by, r, o, permits) ==
  /\ MayStart(c, "roles")
  /\ Editable(by, r, o)
  /\ permits \subseteq known
  /\ role' = [role EXCEPT ![r].permits = {}]
  /\ Goto(c, [at |-> "emptied", role |-> r, permits |-> permits])
  /\ UNCHANGED <<known, link, cached, untold>>

\* a permission or a role deleted meanwhile makes the insertion fail, and no event is sent
SavePermissions(c) ==
  /\ call[c].at = "emptied"
  /\ IF role[call[c].role].exists /\ call[c].permits \subseteq known
     THEN /\ role' = [role EXCEPT ![call[c].role].permits = @ \cup call[c].permits]
          /\ Goto(c, [at |-> "saved", role |-> call[c].role])
     ELSE UNCHANGED role /\ Return(c)
  /\ UNCHANGED <<known, link, cached, untold>>

\* addPermissionToRole and removePermissionFromRole: one row, then the event
EditPermission(c, by, r, o, p, add) ==
  /\ MayStart(c, "roles")
  /\ Editable(by, r, o)
  /\ add => p \in known \ role[r].permits
  /\ role' = [role EXCEPT ![r].permits = IF add THEN @ \cup {p} ELSE @ \ {p}]
  /\ Goto(c, [at |-> "saved", role |-> r])
  /\ UNCHANGED <<known, link, cached, untold>>

\* (mutant) the answers of the organization of the role are forgotten
RoleChangedThere(c) ==
  /\ call[c].at = "saved"
  /\ Notify(Holders \X {OrgOf[call[c].role]}, {})
  /\ Return(c)
  /\ UNCHANGED <<known, role, link>>

\* rbac.role.changed: every answer is forgotten
RoleChanged(c) ==
  /\ call[c].at = "saved"
  /\ Notify(Keys, {})
  /\ Return(c)
  /\ UNCHANGED <<known, role, link>>

\* rbac.permissions.changed names the organization the administrator works in; a row that
\* exists already gets the new expiry, active or not, and sends no event
AssignRole(by, u, r, o, until) ==
  /\ MayRun("roles")
  /\ Editable(by, r, o)
  /\ IF link[u][r] = "none"
     THEN /\ link' = [link EXCEPT ![u][r] = "active"]
          /\ Notify({<<u, o>>}, KeysOf(u))
     ELSE /\ link' = IF until /\ link[u][r] = "lapsed" THEN [link EXCEPT ![u][r] = "active"]
                     ELSE link
          /\ Notify({}, KeysOf(u))
  /\ UNCHANGED <<known, role, call>>

RemoveRole(u, r, o) ==
  /\ MayRun("roles")
  /\ link' = [link EXCEPT ![u][r] = "none"]
  /\ Notify({<<u, o>>}, KeysOf(u))
  /\ UNCHANGED <<known, role, call>>

\* expires_at of a link passes
LapseLink(u, r) ==
  /\ MayRun("roles")
  /\ link[u][r] = "active"
  /\ link' = [link EXCEPT ![u][r] = "lapsed"]
  /\ Notify({}, KeysOf(u))
  /\ UNCHANGED <<known, role, call>>

-----------------------------------------------------------------------------
(* UsersService *)

\* the roles a change of role closes: all but the new one and the base role, if it is on
Obsolete(u, r) ==
  {x \in Roles \ {r}: /\ link[u][x] \in {"active", "lapsed"}
                      /\ ~(x = BaseRole /\ role[x].active)}

WithBaseRole(state) == IF state \in {"none", "inactive"} THEN "active" ELSE state

\* changeRoleForUser, a transaction that sends no event
ChangeRole(u, r) ==
  /\ MayRun("roles")
  /\ role[r].exists
  /\ link' = [link EXCEPT ![u] =
       [x \in Roles |-> IF x = r THEN "active"
                        ELSE IF x \in Obsolete(u, r) THEN "inactive"
                        ELSE IF x = BaseRole /\ role[x].exists /\ role[x].active
                             THEN WithBaseRole(link[u][x])
                        ELSE link[u][x]]]
  /\ Notify({}, KeysOf(u))
  /\ UNCHANGED <<known, role, call>>

\* ensureDefaultCollaboratorRole, when human resources create the employee
EnsureBaseRole(u) ==
  /\ MayRun("roles")
  /\ role[BaseRole].exists /\ role[BaseRole].active
  /\ link' = [link EXCEPT ![u][BaseRole] = WithBaseRole(@)]
  /\ Notify({}, KeysOf(u))
  /\ UNCHANGED <<known, role, call>>

-----------------------------------------------------------------------------
(* PermissionGuard *)

\* what the tables grant a user in an organization
Granted(u, o) ==
  UNION {role[r].permits: r \in {x \in Roles: /\ OrgOf[x] \in {o, "global"}
                                              /\ role[x].active
                                              /\ link[u][x] = "active"}}

ReadPermissions(c, u, o) ==
  /\ MayStart(c, "roles")
  /\ cached[<<u, o>>] = Missing
  /\ Goto(c, [at |-> "read", user |-> u, branch |-> o, permits |-> Granted(u, o)])
  /\ UNCHANGED roleVars

CachePermissions(c) ==
  /\ call[c].at = "read"
  /\ cached' = [cached EXCEPT ![<<call[c].user, call[c].branch>>] = call[c].permits]
  /\ untold' = untold \ {<<call[c].user, call[c].branch>>}
  /\ Return(c)
  /\ UNCHANGED <<known, role, link>>

\* ttlMs is over
ExpireAnswer(u, o) ==
  /\ focus = "roles"
  /\ cached[<<u, o>>] # Missing
  /\ Notify({<<u, o>>}, {})
  /\ UNCHANGED <<known, role, link, call>>

-----------------------------------------------------------------------------
RoleNext ==
  \/ \E r \in Roles: CreateRole(r) \/ HardDeleteRole(r)
  \/ \E o \in Branches, rs \in SUBSET Roles \ {{}}, on \in BOOLEAN: SetRolesActive(o, rs, on)
  \/ \E ps \in SUBSET Permissions: SeedPermissions(ps)
  \/ InitializeDefaultPermissions
  \/ \E p \in Permissions: CreatePermission(p) \/ DeletePermission(p)
  \/ \E c \in Clients:
       \/ \E by \in Holders, r \in Roles, o \in Branches:
            \/ \E permits \in SUBSET Permissions: BeginSetPermissions(c, by, r, o, permits)
            \/ \E p \in Permissions, add \in BOOLEAN: EditPermission(c, by, r, o, p, add)
       \/ \E u \in Holders, o \in Branches: ReadPermissions(c, u, o)
       \/ SavePermissions(c) \/ RoleChanged(c) \/ CachePermissions(c)
  \/ \E u \in Holders, r \in Roles:
       \/ \E by \in Holders, o \in Branches, until \in BOOLEAN: AssignRole(by, u, r, o, until)
       \/ \E o \in Branches: RemoveRole(u, r, o)
       \/ LapseLink(u, r)
       \/ ChangeRole(u, r)
  \/ \E u \in Holders: EnsureBaseRole(u)
  \/ \E u \in Holders, o \in Branches: ExpireAnswer(u, o)

-----------------------------------------------------------------------------
(* Properties *)

\* Calls made one after the other leave the guard no answer that differs from what the
\* tables grant, but those kept since before a change that sends no event: a role turned
\* off or on, a permission deleted, an expiry passed or put off, a change of role, or a
\* role given or taken in another organization (permission.guard.ts:308).
OnlyUntoldAnswersDiffer ==
  (\A c \in Clients: call[c].at \notin {"emptied", "saved"}) =>
    \A u \in Holders, o \in Branches:
      cached[<<u, o>>] \in {Missing, Granted(u, o)} \/ <<u, o>> \in untold
=============================================================================
