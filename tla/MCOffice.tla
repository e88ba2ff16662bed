------------------------------ MODULE MCOffice ------------------------------
(* Instances for TLC of the components around projects, training, users,    *)
(* rights, pay, organisations and documents.  A behaviour has one of them   *)
(* as its focus, and Foci names those that are tried.                       *)
EXTENDS DocumentNumbering, TaskDependencies, TaskProgress, ProjectSetup, Academy,
        UserAccess, RolePermissions, Payroll, Branches, Library, Realtime,
        TaskReading, TLC

CONSTANTS Foci

officeVars == <<taken, depVars, progVars, setupVars, academyVars, accessVars, roleVars,
                payrollVars, branchVars, libraryVars, realtimeVars, readingVars>>

OfficeInit ==
  /\ focus \in Foci
  /\ call = [c \in Clients |-> Idle]
  /\ NumberingInit /\ DependencyInit /\ ProgressInit /\ SetupInit /\ AcademyInit
  /\ AccessInit /\ RoleInit /\ PayrollInit /\ BranchInit /\ LibraryInit
  /\ RealtimeInit /\ ReadingInit

OfficeNext ==
  \/ /\ focus = "numbering" /\ NumberingNext
     /\ UNCHANGED <<depVars, progVars, setupVars, academyVars, accessVars, roleVars,
                   payrollVars, branchVars, libraryVars, realtimeVars, readingVars,
                   focus>>
  \/ /\ focus = "dependencies" /\ DependencyNext
     /\ UNCHANGED <<taken, progVars, setupVars, academyVars, accessVars, roleVars,
                   payrollVars, branchVars, libraryVars, realtimeVars, readingVars,
                   focus>>
  \/ /\ focus = "progress" /\ ProgressNext
     /\ UNCHANGED <<taken, depVars, setupVars, academyVars, accessVars, roleVars,
                   payrollVars, branchVars, libraryVars, realtimeVars, readingVars,
                   focus>>
  \/ /\ focus = "projects" /\ SetupNext
     /\ UNCHANGED <<taken, depVars, progVars, academyVars, accessVars, roleVars,
                   payrollVars, branchVars, libraryVars, realtimeVars, readingVars,
                   focus>>
  \/ /\ focus = "academy" /\ AcademyNext
     /\ UNCHANGED <<taken, depVars, progVars, setupVars, accessVars, roleVars,
                   payrollVars, branchVars, libraryVars, realtimeVars, readingVars,
                   focus>>
  \/ /\ focus = "access" /\ AccessNext
     /\ UNCHANGED <<taken, depVars, progVars, setupVars, academyVars, roleVars,
                   payrollVars, branchVars, libraryVars, realtimeVars, readingVars,
                   focus>>
  \/ /\ focus = "roles" /\ RoleNext
     /\ UNCHANGED <<taken, depVars, progVars, setupVars, academyVars, accessVars,
                   payrollVars, branchVars, libraryVars, realtimeVars, readingVars,
                   focus>>
  \/ /\ focus = "payroll" /\ PayrollNext
     /\ UNCHANGED <<taken, depVars, progVars, setupVars, academyVars, accessVars,
                   roleVars, branchVars, libraryVars, realtimeVars, readingVars,
                   focus>>
  \/ /\ focus = "branches" /\ BranchNext
     /\ UNCHANGED <<taken, depVars, progVars, setupVars, academyVars, accessVars,
                   roleVars, payrollVars, libraryVars, realtimeVars, readingVars,
                   focus>>
  \/ /\ focus = "library" /\ LibraryNext
     /\ UNCHANGED <<taken, depVars, progVars, setupVars, academyVars, accessVars,
                   roleVars, payrollVars, branchVars, realtimeVars, readingVars, focus>>
  \/ /\ focus = "realtime" /\ RealtimeNext
     /\ UNCHANGED <<taken, depVars, progVars, setupVars, academyVars, accessVars,
                   roleVars, payrollVars, branchVars, libraryVars, readingVars, focus>>
  \/ /\ focus = "reading" /\ ReadingNext
     /\ UNCHANGED <<taken, depVars, progVars, setupVars, academyVars, accessVars, roleVars,
                   payrollVars, branchVars, libraryVars, realtimeVars, focus>>

\* the job of the academy runs every night
OfficeSpec ==
  /\ OfficeInit /\ [][OfficeNext]_<<officeVars, call, focus>>
  /\ AcademyFairness

\* one type invariant for all of them
OfficeTypeOK ==
  /\ NumberingTypeOK /\ DependencyTypeOK /\ ProgressTypeOK /\ SetupTypeOK /\ AcademyTypeOK
  /\ AccessTypeOK /\ RoleTypeOK /\ PayrollTypeOK /\ BranchTypeOK /\ LibraryTypeOK
  /\ RealtimeTypeOK /\ ReadingTypeOK

\* Whatever was deleted, revoked, replaced and revived before, calls made one after the
\* other leave no two where the code wants one: of the live enrolments of a learner in a
\* session (but for one more made under her account), of the payments of an employee on a
\* date, of the default libraries (enrollment.service.ts:126, salary-schedule.service.ts:179,
\* document-library.service.ts:53).
NoTwoOfOne == SecondPlaceOnlyByAccount /\ OnePaymentPerDate /\ OneDefaultLibrary

\* No organisation is left below one that was deleted, however they were attached and
\* detached, and no folder comes to lie in itself (organizations.service.ts:319,
\* folder.service.ts:138).
TreesHold == ParentsExist /\ FoldersNest

-----------------------------------------------------------------------------
AllComponents == {"numbering", "dependencies", "progress", "projects", "academy", "access",
                  "roles", "payroll", "branches", "library", "realtime", "reading"}

LagAndLead == {1, -1}
OneDay == [t \in Tasks |-> IF t = "b" THEN 2 ELSE 1]
RoleOrgs == [r \in Roles |-> IF r = "everywhere" THEN "global" ELSE "o1"]
OneEmployee == [s \in Schedules |-> "e1"]
MonthLengths == <<2>>
OneUser == [s \in Sockets |-> "u1"]
Above == [o \in Tenants |-> IF o = "o2" THEN "o1" ELSE NoneAbove]
InTheBranch == [p \in SharedProjects |-> "o2"]
===============================================================================
