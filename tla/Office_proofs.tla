---------------------------- MODULE Office_proofs ---------------------------
(***************************************************************************)
(* Theorems about the components of MCOffice: what each of them promises,  *)
(* for every value of the constants.                                       *)
(*                                                                         *)
(* As in Staff_proofs each component has its own invariant; a behaviour    *)
(* has one component as its focus and leaves the others as they were.      *)
(***************************************************************************)
EXTENDS MCOffice, TaskDependencies_proofs, Realtime_proofs

-----------------------------------------------------------------------------
(* Numbers of documents *)

NumberPending(c) == focus = "numbering" /\ call[c].at = "number"

\* A number that is about to be inserted was read from a table that has grown since, if
\* anything: it is taken, or the next.
NumberingInv ==
  \E n \in 0..MaxDocuments:
    /\ taken = 1..n
    /\ \A c \in Clients: NumberPending(c) => /\ call[c].number \in 1..n + 1
                                             /\ call[c].number <= MaxDocuments

Called == call = [c \in Clients |-> call[c]]

LEMMA IdleFirst ==
  OfficeInit => /\ Called /\ OneCall /\ Quiet
                /\ \A c \in Clients: call[c] = Idle /\ call[c].at = "idle"
  BY DEF OfficeInit, Called, OneCall, Quiet, Idle

LEMMA CalledStays ==
  ASSUME NEW c \in Clients, NEW next, Goto(c, next), Called
  PROVE  /\ Called' /\ call'[c] = next
         /\ \A d \in Clients \ {c}: call'[d] = call[d]
  BY DEF Called, Goto

LEMMA NextNumberFollows ==
  ASSUME NEW n \in 0..MaxDocuments, taken = 1..n
  PROVE  NextNumber \in 1..n + 1
  <1>1. CASE n = 0
    BY <1>1 DEF NextNumber
  <1>2. CASE n # 0
    <2>1. 1 \in taken /\ \A k \in taken: k \in 1..MaxDocuments
      BY <1>2, NumberingAssumption
    <2>2. \E k \in taken: \A m \in taken: TextLeq(m, k)
      BY <2>1, TextOrderAssumption, taken \in SUBSET (1..MaxDocuments), taken # {}
    <2>3. LastNumber \in taken
      BY <2>2 DEF LastNumber
    <2> QED
      BY <2>1, <2>3, NumberingAssumption DEF NextNumber
  <1> QED
    BY <1>1, <1>2

LEMMA NumberingStepKeeps ==
  ASSUME NumberingInv, Called, focus = "numbering", NumberingNext, UNCHANGED focus
  PROVE  NumberingInv'
  <1>1. PICK n \in 0..MaxDocuments:
          /\ taken = 1..n
          /\ \A c \in Clients: NumberPending(c) => /\ call[c].number \in 1..n + 1
                                                   /\ call[c].number <= MaxDocuments
    BY DEF NumberingInv
  <1>2. Cardinality(taken) = n
    BY <1>1, FS_Interval, NumberingAssumption
  <1>3. ASSUME NEW c \in Clients, ReadLast(c)
        PROVE  NumberingInv'
    <2>1. PICK row: row = [at |-> "number", number |-> NextNumber]
      OBVIOUS
    <2>2. /\ call' = [call EXCEPT ![c] = row] /\ taken' = taken /\ n < MaxDocuments
      BY <1>2, <1>3, <2>1, NumberingAssumption DEF ReadLast, Goto
    <2>3. row.number \in 1..n + 1 /\ row.number <= MaxDocuments
      BY <1>1, <2>1, <2>2, NextNumberFollows, NumberingAssumption
    <2>4. \A d \in Clients: call'[d] = IF d = c THEN row ELSE call[d]
      BY <2>2 DEF Called
    <2> QED
      BY <1>1, <2>2, <2>3, <2>4 DEF NumberingInv, NumberPending
  <1>4. ASSUME NEW c \in Clients, NumberPending(c), Return(c)
        PROVE  \A d \in Clients: NumberPending(d)' => /\ d # c
                                                      /\ NumberPending(d) /\ call'[d] = call[d]
    <2>1. call' = [call EXCEPT ![c] = Idle] /\ Idle.at # "number"
      BY <1>4 DEF Return, Goto, Idle
    <2> QED
      BY <2>1 DEF Called, NumberPending
  <1>5. ASSUME NEW c \in Clients, InsertDocument(c)
        PROVE  NumberingInv'
    <2>1. /\ NumberPending(c) /\ Return(c) /\ call[c].number \notin taken
          /\ taken' = taken \cup {call[c].number}
      BY <1>5 DEF InsertDocument, NumberPending
    <2>2. call[c].number = n + 1 /\ n + 1 <= MaxDocuments
      BY <1>1, <2>1, NumberingAssumption
    <2>3. taken' = 1..n + 1 /\ n + 1 \in 0..MaxDocuments
      BY <1>1, <2>1, <2>2, NumberingAssumption
    <2>4. \A d \in Clients: NumberPending(d)' => /\ call'[d].number \in 1..(n + 1) + 1
                                                 /\ call'[d].number <= MaxDocuments
      BY <1>1, <1>4, <2>1, NumberingAssumption
    <2> QED
      BY <2>3, <2>4 DEF NumberingInv
  <1>6. ASSUME NEW c \in Clients, Collide(c)
        PROVE  NumberingInv'
    <2>1. NumberPending(c) /\ Return(c) /\ taken' = taken
      BY <1>6 DEF Collide, NumberPending
    <2> QED
      BY <1>1, <1>4, <2>1 DEF NumberingInv
  <1> QED
    BY <1>3, <1>5, <1>6 DEF NumberingNext

LEMMA NumberingKeepsCalls ==
  ASSUME Called, NumberingNext
  PROVE  Called'
  BY CalledStays DEF NumberingNext, ReadLast, InsertDocument, Collide, Return

NumberingKept == NumberingInv /\ (focus = "numbering" => Called)

LEMMA NumberingKeptInitially == OfficeInit => NumberingKept
  <1> SUFFICES ASSUME OfficeInit
               PROVE  NumberingKept
    OBVIOUS
  <1>1. taken = 1..0 /\ 0 \in 0..MaxDocuments
    BY NumberingAssumption DEF OfficeInit, NumberingInit
  <1>2. \A c \in Clients: ~NumberPending(c)
    BY IdleFirst, Zenon DEF NumberPending
  <1>3. Called
    BY IdleFirst
  <1> QED
    BY <1>1, <1>2, <1>3 DEF NumberingInv, NumberingKept

LEMMA NumberingKeptByOffice ==
  ASSUME NumberingKept, [OfficeNext]_<<officeVars, call, focus>>
  PROVE  NumberingKept'
  <1> USE DEF NumberingKept
  <1>1. \/ focus = "numbering" /\ NumberingNext /\ UNCHANGED focus
        \/ UNCHANGED <<taken, focus>> /\ (focus # "numbering" \/ UNCHANGED call)
    BY DEF OfficeNext, officeVars
  <1>2. CASE focus = "numbering" /\ NumberingNext /\ UNCHANGED focus
    BY <1>2, NumberingStepKeeps, NumberingKeepsCalls
  <1>3. CASE UNCHANGED <<taken, focus>> /\ (focus # "numbering" \/ UNCHANGED call)
    <2>1. (focus = "numbering" => Called)'
      BY <1>3 DEF Called
    <2>2. \A c \in Clients: NumberPending(c)' => NumberPending(c) /\ UNCHANGED call
      BY <1>3 DEF NumberPending
    <2> QED
      BY <1>3, <2>1, <2>2 DEF NumberingInv
  <1> QED
    BY <1>1, <1>2, <1>3

\* The numbers of a year run without a gap, as an accountant expects of invoices: a
\* creation that fails, or that read before others inserted, leaves none behind, however
\* many creations overlap and whatever the order of the texts makes of the last number.
THEOREM NumbersRunOn ==
  OfficeSpec => []NoGap
  <1>1. OfficeInit => NumberingKept
    BY NumberingKeptInitially
  <1>2. NumberingKept /\ [OfficeNext]_<<officeVars, call, focus>> => NumberingKept'
    BY NumberingKeptByOffice
  <1>3. NumberingKept => NoGap
    <2> SUFFICES ASSUME NEW n \in 0..MaxDocuments, taken = 1..n
                 PROVE  NoGap
      BY DEF NumberingInv, NumberingKept
    <2>1. Cardinality(taken) = n
      BY FS_Interval, NumberingAssumption
    <2> QED
      BY <2>1 DEF NoGap
  <1> QED
    BY <1>1, <1>2, <1>3, PTL DEF OfficeSpec
-----------------------------------------------------------------------------
(* The project, its dates and who its tasks are given to *)

ProjectOK == project = NoProject \/ project \in ProjectRow

NobodyBefore == ~Created => \A p \in People: ~Member(p)

Belonging(p) == p \in People => Member(p)

Starting == \E c \in Clients: focus = "projects" /\ call[c].at = "start"

\* what the call of c has looked up
SetupHolds(c) ==
  /\ call[c].at = "status" => Created /\ call[c].status \in ProjectStatuses
  /\ call[c].at = "start" => Created
  /\ call[c].at = "assign" => call[c].task \in ProjectTasks /\ Belonging(call[c].to)
                              /\ Belonging(call[c].loaded)

SetupInv ==
  /\ ProjectOK /\ NobodyBefore /\ AssigneesBelong /\ today \in ProjectDates
  /\ members = [p \in People |-> members[p]]
  /\ assignee = [t \in ProjectTasks |-> assignee[t]]
  /\ Created /\ project.status = "active" => project.start # Undated \/ Starting
  /\ focus = "projects" => Called /\ \A c \in Clients: SetupHolds(c)

LEMMA DatedAtLast ==
  ASSUME project \in ProjectRow, today \in ProjectDates
  PROVE  LET start == StartDate(project.end)
         IN  /\ start \in ProjectDates /\ DatesInOrder(start, project.end)
             /\ [project EXCEPT !.start = start] \in ProjectRow
             /\ [project EXCEPT !.start = start].start # Undated
  <1>1. PICK end: end = project.end /\ end \in 0..LastDate
    BY SetupAssumption DEF ProjectRow, ProjectDates, Undated
  <1>2. PICK start: start = StartDate(end)
    OBVIOUS
  <1>3. start \in 1..LastDate /\ DatesInOrder(start, end)
    BY <1>1, <1>2, SetupAssumption DEF StartDate, DatesInOrder, ProjectDates, Undated
  <1>4. PICK dates: dates = ProjectDates \cup {Undated}
    OBVIOUS
  <1>5. start \in dates /\ start # Undated
    BY <1>3, <1>4 DEF ProjectDates, Undated
  <1>6. PICK row: row = [project EXCEPT !.start = start]
    OBVIOUS
  <1>7. project \in [status: ProjectStatuses, start: dates, end: dates]
    BY <1>4 DEF ProjectRow
  <1>8. row \in [status: ProjectStatuses, start: dates, end: dates] /\ row.start = start
    BY ONLY <1>5, <1>6, <1>7
  <1> QED
    BY <1>1, <1>2, <1>3, <1>4, <1>5, <1>6, <1>8 DEF ProjectRow, ProjectDates
\* The calls that look something up and change nothing yet.
LEMMA SetupLookedUp ==
  ASSUME SetupInv, focus = "projects", UNCHANGED <<setupVars, focus>>, NEW c \in Clients,
         NEW next, Goto(c, next), call[c].at # "start", SetupHolds(c)'
  PROVE  SetupInv'
  <1>1. /\ Called' /\ call'[c] = next
        /\ \A d \in Clients \ {c}: call'[d] = call[d]
    BY CalledStays DEF SetupInv
  <1>2. UNCHANGED <<project, members, assignee, today>>
    BY DEF setupVars
  <1>3. /\ ProjectOK' /\ NobodyBefore' /\ AssigneesBelong' /\ (today \in ProjectDates)'
        /\ (members = [p \in People |-> members[p]])'
        /\ (assignee = [t \in ProjectTasks |-> assignee[t]])'
    BY <1>2 DEF SetupInv, ProjectOK, NobodyBefore, AssigneesBelong, Created, Member
  <1>4. Starting => Starting'
    BY <1>1 DEF Starting
  <1>5. Created /\ project.status = "active" => project.start # Undated \/ Starting
    BY DEF SetupInv
  <1>6. (Created /\ project.status = "active" => project.start # Undated \/ Starting)'
    BY <1>2, <1>4, <1>5 DEF Created
  <1>7. \A d \in Clients \ {c}: SetupHolds(d)'
    BY <1>1, <1>2 DEF SetupInv, SetupHolds, Belonging, Created, Member
  <1> QED
    BY <1>1, <1>3, <1>6, <1>7 DEF SetupInv

\* The calls that change the row of the project, and nothing of the others.
LEMMA ProjectChanged ==
  ASSUME SetupInv, focus = "projects", UNCHANGED <<members, assignee, today, focus>>, Created,
         (project \in ProjectRow)', Called', \A c \in Clients: SetupHolds(c)',
         (project.status = "active" => project.start # Undated \/ Starting)'
  PROVE  SetupInv'
  <1>1. ProjectOK' /\ Created'
    BY DEF ProjectOK, Created, ProjectRow, NoProject, ProjectStatuses
  <1>2. /\ NobodyBefore' /\ AssigneesBelong' /\ (today \in ProjectDates)'
        /\ (members = [p \in People |-> members[p]])'
        /\ (assignee = [t \in ProjectTasks |-> assignee[t]])'
    BY <1>1 DEF SetupInv, NobodyBefore, AssigneesBelong, Member
  <1> QED
    BY <1>1, <1>2 DEF SetupInv

\* The calls that give a task to someone.
LEMMA TaskGiven ==
  ASSUME SetupInv, focus = "projects", UNCHANGED <<project, members, today, focus>>,
         NEW t \in ProjectTasks, NEW to, Belonging(to), assignee' = [assignee EXCEPT ![t] = to],
         Called', Starting => Starting', \A c \in Clients: SetupHolds(c)'
  PROVE  SetupInv'
  <1>1. /\ ProjectOK' /\ NobodyBefore' /\ (today \in ProjectDates)'
        /\ (members = [p \in People |-> members[p]])'
    BY DEF SetupInv, ProjectOK, NobodyBefore, Created, Member
  <1>2. /\ (assignee = [u \in ProjectTasks |-> assignee[u]])'
        /\ assignee'[t] = to /\ \A u \in ProjectTasks \ {t}: assignee'[u] = assignee[u]
    BY DEF SetupInv
  <1>3. AssigneesBelong'
    BY <1>2 DEF SetupInv, AssigneesBelong, Belonging, Member
  <1>4. (Created /\ project.status = "active" => project.start # Undated \/ Starting)'
    BY DEF SetupInv, Created
  <1> QED
    BY <1>1, <1>2, <1>3, <1>4 DEF SetupInv
LEMMA SetupStepKeeps ==
  ASSUME SetupInv, focus = "projects", SetupNext, UNCHANGED focus
  PROVE  SetupInv'
  <1>1. Called /\ \A c \in Clients: SetupHolds(c)
    BY DEF SetupInv
  <1>2. ASSUME NEW c \in Clients, NEW next, Goto(c, next)
        PROVE  /\ Called' /\ call'[c] = next
               /\ \A d \in Clients \ {c}: call'[d] = call[d]
    BY <1>1, <1>2, CalledStays
  <1>3. ASSUME UNCHANGED <<call, members>>, Created => Created'
        PROVE  Called' /\ (Starting => Starting') /\ \A c \in Clients: SetupHolds(c)'
    BY <1>1, <1>3 DEF Called, Starting, SetupHolds, Belonging, Member
  <1>4. Created => project \in ProjectRow
    BY DEF SetupInv, ProjectOK, Created
  <1>5. \A row \in ProjectRow: row # NoProject
    BY DEF ProjectRow, NoProject, ProjectStatuses
  <1>6. ASSUME NEW c \in Clients, NEW creator \in People, NEW managers \in SUBSET People,
               NEW others \in SUBSET People, NEW start \in ProjectDates \cup {Undated},
               NEW end \in ProjectDates \cup {Undated},
               CreateProject(c, creator, managers, others, start, end)
        PROVE  SetupInv'
    <2>1. project' \in ProjectRow /\ project'.status = "planning" /\ Created'
      <3>1. PICK row: row = [status |-> "planning", start |-> start, end |-> end]
        OBVIOUS
      <3>2. row \in ProjectRow /\ row.status = "planning"
        BY <3>1 DEF ProjectRow, ProjectStatuses
      <3> QED
        BY <1>5, <1>6, <3>1, <3>2 DEF CreateProject, Created
    <2>2. ~Created /\ UNCHANGED <<assignee, today, call>>
          /\ (members = [p \in People |-> members[p]])'
      BY <1>6 DEF CreateProject
    <2>3. \A p: ~(p \in People /\ Member(p))
      BY <2>2 DEF SetupInv, NobodyBefore
    <2>4. AssigneesBelong'
      BY <2>2, <2>3 DEF SetupInv, AssigneesBelong
    <2>5. \A d \in Clients: SetupHolds(d)'
      BY <1>1, <2>1, <2>2, <2>3 DEF SetupHolds, Belonging
    <2> QED
      BY <1>1, <2>1, <2>2, <2>4, <2>5 DEF SetupInv, ProjectOK, NobodyBefore, Called
  <1>7. ASSUME NEW c \in Clients, NEW p \in People, NEW wanted \in ProjectStatuses,
               BeginProjectStatus(c, p, wanted)
        PROVE  SetupInv'
    <2>1. PICK row: row = [at |-> "status", status |-> wanted]
      OBVIOUS
    <2>2. Goto(c, row) /\ call[c] = Idle /\ UNCHANGED setupVars /\ Created
      BY <1>7, <2>1 DEF BeginProjectStatus, MayStart
    <2>3. call'[c] = row /\ Created' /\ row.status \in ProjectStatuses /\ row.at = "status"
      BY <1>2, <2>1, <2>2 DEF Created, setupVars
    <2>4. SetupHolds(c)'
      BY ONLY <2>3 DEF SetupHolds
    <2> QED
      BY <2>2, <2>4, SetupLookedUp DEF Idle
  <1>8. ASSUME NEW c \in Clients, NEW t \in ProjectTasks, NEW to \in People \cup {Unassigned},
               BeginAssign(c, t, to)
        PROVE  SetupInv'
    <2>1. PICK row: row = [at |-> "assign", task |-> t, to |-> to, loaded |-> assignee[t]]
      OBVIOUS
    <2>2. /\ Goto(c, row) /\ call[c] = Idle /\ UNCHANGED setupVars
          /\ Belonging(to) /\ Belonging(assignee[t])
      BY <1>8, <2>1, SetupAssumption
         DEF BeginAssign, MayStart, MayBeGiven, Belonging, SetupInv, AssigneesBelong
    <2>3. call'[c] = row /\ row.at = "assign" /\ row.task = t /\ Belonging(row.to)' /\ Belonging(row.loaded)'
      BY <1>2, <2>1, <2>2 DEF Belonging, Member, setupVars
    <2>4. SetupHolds(c)'
      BY ONLY <2>3 DEF SetupHolds, Belonging, Member
    <2> QED
      BY <2>2, <2>4, SetupLookedUp DEF Idle
  <1>9. ASSUME NEW c \in Clients, SetProjectStatus(c)
        PROVE  SetupInv'
    <2>1. PICK wanted: wanted = call[c].status
      OBVIOUS
    <2>2. /\ call[c].at = "status" /\ Created /\ wanted \in ProjectStatuses
          /\ project' = [project EXCEPT !.status = wanted]
          /\ UNCHANGED <<members, assignee, today>>
          /\ IF wanted = "active" THEN Goto(c, [at |-> "start"]) ELSE Return(c)
      BY <1>1, <1>9, <2>1 DEF SetProjectStatus, SetupHolds
    <2>3. project' \in ProjectRow /\ project'.status = wanted /\ Created'
      <3>1. project \in ProjectRow
        BY <1>4, <2>2
      <3>2. project' \in ProjectRow /\ project'.status = wanted
        BY ONLY <2>2, <3>1 DEF ProjectRow
      <3> QED
        BY <1>5, <3>2 DEF Created
    <2>4. PICK next: /\ next = IF wanted = "active" THEN [at |-> "start"] ELSE Idle
                     /\ Goto(c, next)
      BY <2>2 DEF Return
    <2>5. next.at = IF wanted = "active" THEN "start" ELSE "idle"
      BY <2>4 DEF Idle
    <2>6. Called' /\ call'[c] = next /\ \A d \in Clients \ {c}: call'[d] = call[d]
      BY <1>2, <2>4
    <2>7. (project.status = "active" => project.start # Undated \/ Starting)'
      BY <2>3, <2>5, <2>6 DEF Starting
    <2>8. \A d \in Clients \ {c}: SetupHolds(d)'
      BY <1>1, <2>2, <2>3, <2>6 DEF SetupHolds, Belonging, Member
    <2>9. SetupHolds(c)'
      BY <2>3, <2>5, <2>6 DEF SetupHolds
    <2> QED
      BY <2>2, <2>3, <2>6, <2>7, <2>8, <2>9, ProjectChanged
  <1>10. ASSUME NEW c \in Clients, DateTheStart(c)
         PROVE  SetupInv'
    <2>1. PICK start: start = StartDate(project.end)
      OBVIOUS
    <2>2. /\ call[c].at = "start" /\ Created /\ Return(c) /\ UNCHANGED <<members, assignee, today>>
          /\ project' = IF project.start = Undated /\ DatesInOrder(start, project.end)
                        THEN [project EXCEPT !.start = start] ELSE project
      BY <1>1, <1>10, <2>1 DEF DateTheStart, SetupHolds
    <2>3. project \in ProjectRow
      BY <1>4, <2>2
    <2>4. project' \in ProjectRow /\ project'.start # Undated
      BY <2>1, <2>2, <2>3, DatedAtLast DEF SetupInv
    <2>5. Called' /\ call'[c] = Idle /\ \A d \in Clients \ {c}: call'[d] = call[d]
      BY <1>2, <2>2 DEF Return
    <2>6. \A d \in Clients \ {c}: SetupHolds(d)'
      BY <1>1, <1>5, <2>2, <2>4, <2>5 DEF SetupHolds, Belonging, Member, Created
    <2>7. SetupHolds(c)'
      BY <2>5 DEF SetupHolds, Idle
    <2> QED
      BY <2>2, <2>4, <2>5, <2>6, <2>7, ProjectChanged
  <1>11. ASSUME NEW c \in Clients, NEW p \in People, NEW end \in ProjectDates \cup {Undated},
                SetDeadline(c, p, end)
         PROVE  SetupInv'
    <2>1. /\ Created /\ project' = [project EXCEPT !.end = end]
          /\ UNCHANGED <<members, assignee, today, call>>
      BY <1>11 DEF SetDeadline
    <2>2. project \in ProjectRow
      BY <1>4, <2>1
    <2>3. /\ project' \in ProjectRow /\ project'.start = project.start
          /\ project'.status = project.status
      BY ONLY <2>1, <2>2, end \in ProjectDates \cup {Undated} DEF ProjectRow
    <2>4. Called' /\ (Starting => Starting') /\ \A d \in Clients: SetupHolds(d)'
      BY <1>3, <1>5, <2>1, <2>3 DEF Created
    <2>5. (project.status = "active" => project.start # Undated \/ Starting)'
      BY <2>1, <2>3, <2>4 DEF SetupInv
    <2> QED
      BY <2>1, <2>3, <2>4, <2>5, ProjectChanged
  <1>12. ASSUME NEW c \in Clients, NEW t \in ProjectTasks, NEW to \in People \cup {Unassigned},
                CreateTaskFor(c, t, to) \/ GiveTask(c, t, to)
         PROVE  SetupInv'
    <2>1. /\ assignee' = [assignee EXCEPT ![t] = to] /\ Belonging(to)
          /\ UNCHANGED <<project, members, today, call>>
      BY <1>12, SetupAssumption DEF CreateTaskFor, GiveTask, MayBeGiven, Belonging
    <2>2. Called' /\ (Starting => Starting') /\ \A d \in Clients: SetupHolds(d)'
      BY <1>3, <2>1 DEF Created
    <2> QED
      BY <2>1, <2>2, TaskGiven
  <1>13. ASSUME NEW c \in Clients, Assign(c)
         PROVE  SetupInv'
    <2>1. PICK t, to: t = call[c].task /\ to = SavedAssignee(call[c].loaded, call[c].to)
      OBVIOUS
    <2>2. /\ call[c].at = "assign" /\ Return(c) /\ t \in ProjectTasks /\ Belonging(to)
          /\ assignee' = [assignee EXCEPT ![t] = to]
          /\ UNCHANGED <<project, members, today>>
      BY <1>1, <1>13, <2>1 DEF Assign, SetupHolds, SavedAssignee
    <2>3. Called' /\ call'[c] = Idle /\ \A d \in Clients \ {c}: call'[d] = call[d]
      BY <1>2, <2>2 DEF Return
    <2>4. Starting => Starting'
      BY <2>2, <2>3 DEF Starting
    <2>5. \A d \in Clients \ {c}: SetupHolds(d)'
      BY <1>1, <2>2, <2>3 DEF SetupHolds, Belonging, Member, Created
    <2>6. SetupHolds(c)'
      BY <2>3 DEF SetupHolds, Idle
    <2> QED
      BY <2>2, <2>3, <2>4, <2>5, <2>6, TaskGiven
  <1>14. ASSUME NextDate
         PROVE  SetupInv'
    <2>1. today' = today + 1 /\ today < LastDate /\ UNCHANGED <<project, members, assignee, call>>
      BY <1>14 DEF NextDate
    <2>2. (today \in ProjectDates)'
      BY <2>1, SetupAssumption DEF SetupInv, ProjectDates
    <2> QED
      BY <2>1, <2>2
         DEF SetupInv, ProjectOK, NobodyBefore, AssigneesBelong, Starting, Called, SetupHolds,
             Belonging, Created, Member
  <1> QED
    BY <1>6, <1>7, <1>8, <1>9, <1>10, <1>11, <1>12, <1>13, <1>14 DEF SetupNext
LEMMA SetupInitially == OfficeInit => SetupInv
  <1> SUFFICES ASSUME OfficeInit
               PROVE  SetupInv
    OBVIOUS
  <1>1. Called /\ \A c \in Clients: call[c].at = "idle"
    BY IdleFirst
  <1>2. \A c \in Clients: SetupHolds(c)
    BY <1>1, Zenon DEF SetupHolds
  <1>3. /\ project = NoProject /\ members = [p \in People |-> Outsider]
        /\ assignee = [t \in ProjectTasks |-> NoTask] /\ today = 1
    BY DEF OfficeInit, SetupInit
  <1>4. ProjectOK /\ NobodyBefore /\ ~Created
    BY <1>3 DEF ProjectOK, NobodyBefore, Member, Created
  <1>5. AssigneesBelong /\ today \in ProjectDates
    BY <1>3, SetupAssumption DEF AssigneesBelong, ProjectDates
  <1> QED
    BY <1>1, <1>2, <1>3, <1>4, <1>5 DEF SetupInv

LEMMA SetupKeptByOffice ==
  ASSUME SetupInv, [OfficeNext]_<<officeVars, call, focus>>
  PROVE  SetupInv'
  <1>1. \/ focus = "projects" /\ SetupNext /\ UNCHANGED focus
        \/ UNCHANGED <<setupVars, focus>> /\ (focus # "projects" \/ UNCHANGED call)
    BY DEF OfficeNext, officeVars
  <1>2. CASE UNCHANGED <<setupVars, focus>> /\ (focus # "projects" \/ UNCHANGED call)
    <2>1. UNCHANGED <<project, members, assignee, today, focus>>
      BY <1>2 DEF setupVars
    <2>2. CASE focus # "projects"
      BY <2>1, <2>2 DEF SetupInv, ProjectOK, NobodyBefore, AssigneesBelong, Starting, Created, Member
    <2>3. CASE UNCHANGED call
      BY <2>1, <2>3
         DEF SetupInv, ProjectOK, NobodyBefore, AssigneesBelong, Starting, Called, SetupHolds,
             Belonging, Created, Member
    <2> QED
      BY <1>2, <2>2, <2>3
  <1> QED
    BY <1>1, <1>2, SetupStepKeeps

\* A project that was made active has a date it started on, whatever end was planned for it
\* before or since, in the past included, and whoever has a task belongs to its project, by
\* whichever of the three endpoints the task was given, and however those calls overlap.
THEOREM ActiveProjectsStaffed ==
  OfficeSpec => []ActiveAndStaffed
  <1>1. OfficeInit => SetupInv
    BY SetupInitially
  <1>2. SetupInv /\ [OfficeNext]_<<officeVars, call, focus>> => SetupInv'
    BY SetupKeptByOffice
  <1>3. SetupInv => ActiveAndStaffed
    <2> SUFFICES ASSUME SetupInv
                 PROVE  ActiveAndStaffed
      OBVIOUS
    <2>1. Quiet => ~Starting
      BY DEF Quiet, Starting, Idle
    <2>2. ~Created => project.status # "active"
      BY DEF Created, NoProject
    <2> QED
      BY <2>1, <2>2 DEF SetupInv, ActiveAndStaffed, ActiveIsDated
  <1> QED
    BY <1>1, <1>2, <1>3, PTL DEF OfficeSpec
-----------------------------------------------------------------------------
(* Reading of tasks *)

TaskJob == [assigned: BOOLEAN, authored: BOOLEAN]

\* Whoever has a task belongs to its project.
ReadingInv ==
  /\ rights \in [Tenants -> Rights \cup {NoRole}]
  /\ shared = [p \in SharedProjects |-> shared[p]]
  /\ job \in [SharedProjects -> TaskJob \cup {Unmade}]
  /\ \A p \in SharedProjects: job[p] # Unmade /\ job[p].assigned => Belongs(p)

LEMMA ReadingStepKeeps ==
  ASSUME ReadingInv, ReadingNext
  PROVE  ReadingInv'
  <1>1. ASSUME NEW p \in SharedProjects, NEW place \in {"outsider", "member", "manager"},
               NEW managed \in BOOLEAN, MakeProject(p, place, managed)
        PROVE  ReadingInv'
    <2>1. /\ shared[p] = Unmade /\ shared' = [shared EXCEPT ![p] = Made(place, managed)]
          /\ UNCHANGED <<rights, job>>
      BY <1>1 DEF MakeProject
    <2>2. /\ (shared = [q \in SharedProjects |-> shared[q]])'
          /\ \A q \in SharedProjects \ {p}: shared'[q] = shared[q]
      BY <2>1 DEF ReadingInv
    <2>3. \A q \in SharedProjects: Belongs(q) => q # p
      BY <2>1 DEF Belongs
    <2>4. \A q \in SharedProjects: Belongs(q) => Belongs(q)'
      BY <2>2, <2>3 DEF Belongs
    <2> QED
      BY <2>1, <2>2, <2>4 DEF ReadingInv
  <1>2. ASSUME NEW p \in SharedProjects, NEW row \in TaskJob, row.assigned => Belongs(p),
               job' = [job EXCEPT ![p] = row], UNCHANGED <<rights, shared>>
        PROVE  ReadingInv'
    BY <1>2 DEF ReadingInv, Belongs
  <1>3. ASSUME NEW p \in SharedProjects, NEW assigned \in BOOLEAN, NEW authored \in BOOLEAN,
               MakeTask(p, assigned, authored)
        PROVE  ReadingInv'
    <2>1. PICK row: row = [assigned |-> assigned, authored |-> authored]
      OBVIOUS
    <2>2. row \in TaskJob /\ row.assigned = assigned
      BY <2>1 DEF TaskJob
    <2> QED
      BY <1>2, <1>3, <2>1, <2>2 DEF MakeTask, MayHold
  <1>4. ASSUME NEW p \in SharedProjects, NEW assigned \in BOOLEAN, Reassign(p, assigned)
        PROVE  ReadingInv'
    <2>1. PICK row: row = [job[p] EXCEPT !.assigned = assigned]
      OBVIOUS
    <2>2. job[p] \in TaskJob
      BY <1>4 DEF Reassign, ReadingInv
    <2>3. row \in TaskJob /\ row.assigned = assigned
      BY ONLY <2>1, <2>2, assigned \in BOOLEAN DEF TaskJob
    <2>4. job' = [job EXCEPT ![p] = row]
      BY <1>4, <2>1 DEF Reassign
    <2> QED
      BY <1>2, <1>4, <2>3, <2>4 DEF Reassign, MayHold
  <1>5. ASSUME NEW o \in Tenants, NEW r \in Rights \cup {NoRole}, ChangeRights(o, r)
        PROVE  ReadingInv'
    BY <1>5 DEF ChangeRights, ReadingInv, Belongs
  <1>6. ASSUME UNCHANGED <<rights, shared, job>>
        PROVE  ReadingInv'
    BY <1>6 DEF ReadingInv, Belongs
  <1> QED
    BY <1>1, <1>3, <1>4, <1>5, <1>6
       DEF ReadingNext, OpenTask, ListTasks, ChangeSeesAll, ForgetOrganizations

\* Whoever a task was given to can open it from any organisation in which a role of his
\* lets him read tasks, and from the organisation of the task whatever his role there; and
\* the list shows it as well, once the organisations it goes by include that one.
THEOREM GivenTasksRead ==
  OfficeSpec => []GivenIsReadable
  <1>1. OfficeInit => ReadingInv
    BY DEF OfficeInit, ReadingInit, ReadingInv
  <1>2. ReadingInv /\ [OfficeNext]_<<officeVars, call, focus>> => ReadingInv'
    <2> SUFFICES ASSUME ReadingInv, [OfficeNext]_<<officeVars, call, focus>>
                 PROVE  ReadingInv'
      OBVIOUS
    <2>1. ReadingNext \/ UNCHANGED readingVars
      BY DEF OfficeNext, officeVars
    <2>2. CASE UNCHANGED readingVars
      BY <2>2 DEF readingVars, ReadingInv, Belongs
    <2> QED
      BY <2>1, <2>2, ReadingStepKeeps
  <1>3. ReadingInv => GivenIsReadable
    <2> SUFFICES ASSUME ReadingInv, NEW p \in SharedProjects, NEW o \in Tenants,
                        job[p] # Unmade, job[p].assigned, rights[o] # NoRole,
                        rights[o] # "seat" \/ TenantOf[p] = o
                 PROVE  /\ Opens(o, p) /\ MayList(o)
                        /\ knownTenants = NotKnown \/ TenantOf[p] \in knownTenants
                           => \A wished \in SUBSET Tenants:
                                wished = {} \/ TenantOf[p] \in wished => p \in Shown(o, wished)
      BY DEF GivenIsReadable
    <2>1. Belongs(p) /\ Holds(p) /\ Related(p)
      BY DEF ReadingInv, Holds, Related
    <2>2. rights[o] \in {"seat", "own", "project", "tenant"}
      BY DEF ReadingInv, Rights
    <2>3. TenantOf[p] = o => AddedOnPage(o, p) /\ AddedOnList(o)
      BY <2>1 DEF AddedOnPage, TakenForMember, AddedOnList
    <2>4. /\ ReadScope(rights[o], AddedOnPage(o, p)) \in {"own", "project", "tenant"}
          /\ ReadScope(rights[o], AddedOnList(o)) \in {"own", "project", "tenant"}
      BY <2>2, <2>3 DEF ReadScope
    <2>5. Opens(o, p)
      BY <2>1, <2>4 DEF Opens, PassesQuery, Selected
    <2>6. MayList(o)
      BY <2>4 DEF MayList
    <2>7. TenantOf[p] \in Accessible /\ TenantOf[p] \in Tenants
      BY <2>1, ReadingAssumption DEF Accessible, Linked
    <2>8. knownTenants = NotKnown \/ TenantOf[p] \in knownTenants => TenantOf[p] \in Allowed
      BY <2>7 DEF Allowed
    <2>9. ASSUME TenantOf[p] \in Allowed, NEW wished \in SUBSET Tenants,
                 wished = {} \/ TenantOf[p] \in wished
          PROVE  p \in Shown(o, wished)
      BY <2>1, <2>4, <2>9 DEF Shown
    <2> QED
      BY <2>5, <2>6, <2>8, <2>9
  <1> QED
    BY <1>1, <1>2, <1>3, PTL DEF OfficeSpec
-----------------------------------------------------------------------------
(* Accounts and their devices *)

TheyShare(u, v, f) == u # v /\ <<u, f>> \in device /\ <<v, f>> \in device

\* one call after the other, whoever registers a device knows all those who have it
AccessHolds(row) ==
  /\ row.at \in {"answer", "owners", "register"} => row.who \in Accounts /\ row.print \in Fingerprints
  /\ row.at = "register" => row.others = OtherOwners(row.who, row.print)

AccessInv ==
  /\ device \in SUBSET (Accounts \X Fingerprints)
  /\ \A u, v \in Accounts, f \in Fingerprints: TheyShare(u, v, f) => Reported(u, v, f)
  /\ focus = "access" => OneCall /\ \A c \in Clients: AccessHolds(call[c])

LEMMA IdleHoldsNothing == AccessHolds(Idle)
  BY Zenon DEF AccessHolds, Idle

\* The steps that change no device.
LEMMA DevicesStand ==
  ASSUME AccessInv, focus = "access", UNCHANGED <<device, reported, focus>>,
         NEW c \in Clients, NEW next, Goto(c, next), Quiet \/ call[c] # Idle,
         AccessHolds(next)
  PROVE  AccessInv'
  <1>1. /\ OneCall' /\ call'[c] = next
        /\ \A d \in Clients \ {c}: call'[d] = Idle
    BY AloneOrNone DEF AccessInv
  <1>2. \A row: AccessHolds(row) => AccessHolds(row)'
    BY DEF AccessHolds, OtherOwners
  <1>3. \A d \in Clients: AccessHolds(call[d])'
    <2>1. ASSUME NEW d \in Clients, NEW row, AccessHolds(row), call'[d] = row
          PROVE  AccessHolds(call[d])'
      BY <2>1 DEF AccessHolds, OtherOwners
    <2> QED
      BY <1>1, <2>1, IdleHoldsNothing
  <1>4. /\ (device \in SUBSET (Accounts \X Fingerprints))'
        /\ (\A u, v \in Accounts, f \in Fingerprints: TheyShare(u, v, f) => Reported(u, v, f))'
    BY DEF AccessInv, TheyShare, Reported
  <1> QED
    BY <1>1, <1>3, <1>4 DEF AccessInv

LEMMA AccessStepKeeps ==
  ASSUME "access" \notin Overlapping, AccessInv, focus = "access", AccessNext, UNCHANGED focus
  PROVE  AccessInv'
  <1>1. OneCall /\ \A c \in Clients: AccessHolds(call[c])
    BY DEF AccessInv
  <1>2. ASSUME NEW c \in Clients, MayStart(c, "access")
        PROVE  Quiet
    BY <1>2 DEF MayStart, MayRun
  <1>3. ASSUME UNCHANGED <<device, reported, call>>
         PROVE  AccessInv'
    BY <1>1, <1>3 DEF AccessInv, OneCall, AccessHolds, OtherOwners, TheyShare, Reported
  <1>4. ASSUME NEW c \in Clients, NEW u \in Accounts, NEW open \in BOOLEAN, BeginSetActive(c, u, open)
        PROVE  AccessInv'
    <2>1. PICK next: next = [at |-> "door", who |-> u, open |-> open]
      OBVIOUS
    <2>2. AccessHolds(next)
      BY <2>1, Zenon DEF AccessHolds
    <2> QED
      BY <1>2, <1>4, <2>1, <2>2, DevicesStand DEF BeginSetActive
  <1>5. ASSUME NEW c \in Clients, NEW u \in Accounts, BeginCreateAccount(c, u)
        PROVE  AccessInv'
    <2>1. PICK door, insert: /\ door = [at |-> "door", who |-> u, open |-> TRUE]
                             /\ insert = [at |-> "insert", who |-> u]
      OBVIOUS
    <2>2. AccessHolds(door) /\ AccessHolds(insert)
      BY <2>1, Zenon DEF AccessHolds
    <2> QED
      BY <1>2, <1>5, <2>1, <2>2, DevicesStand DEF BeginCreateAccount
  <1>6. ASSUME NEW c \in Clients, NEW u \in Accounts, NEW f \in Fingerprints, BeginRequest(c, u, f)
        PROVE  AccessInv'
    <2>1. PICK next: next = [at |-> "answer", who |-> u, print |-> f]
      OBVIOUS
    <2>2. AccessHolds(next)
      BY <2>1 DEF AccessHolds
    <2>3. CASE UNCHANGED call
      BY <1>6, <1>3, <2>3 DEF BeginRequest
    <2> QED
      BY <1>2, <1>6, <2>1, <2>2, <2>3, DevicesStand DEF BeginRequest
  <1>7. ASSUME NEW c \in Clients, FinishSetActive(c) \/ InsertAccount(c)
        PROVE  AccessInv'
    <2>1. Goto(c, Idle) /\ call[c] # Idle /\ UNCHANGED <<device, reported>>
      BY <1>7 DEF FinishSetActive, InsertAccount, Return, Idle
    <2> QED
      BY <2>1, IdleHoldsNothing, DevicesStand
  <1>8. ASSUME NEW c \in Clients, AnswerRequest(c)
        PROVE  AccessInv'
    <2>1. PICK next: next = [at |-> "owners", who |-> call[c].who, print |-> call[c].print]
      OBVIOUS
    <2>2. Goto(c, next) /\ call[c].at = "answer" /\ UNCHANGED <<device, reported>>
      BY <1>8, <2>1 DEF AnswerRequest
    <2>3. AccessHolds(next)
      BY <1>1, <2>1, <2>2 DEF AccessHolds
    <2> QED
      BY <2>2, <2>3, DevicesStand DEF Idle
  <1>9. ASSUME NEW c \in Clients, FindOwners(c)
        PROVE  AccessInv'
    <2>1. PICK next: next = [at |-> "register", who |-> call[c].who, print |-> call[c].print,
                             others |-> OtherOwners(call[c].who, call[c].print)]
      OBVIOUS
    <2>2. /\ Goto(c, Idle) \/ Goto(c, next)
          /\ call[c].at = "owners" /\ UNCHANGED <<device, reported>>
      BY <1>9, <2>1 DEF FindOwners, Return, accessVars
    <2>3. AccessHolds(next)
      BY <1>1, <2>1, <2>2 DEF AccessHolds
    <2> QED
      BY <2>2, <2>3, IdleHoldsNothing, DevicesStand DEF Idle
  <1>10. ASSUME NEW c \in Clients, NEW heard \in BOOLEAN, RegisterDevice(c, heard)
        PROVE  AccessInv'
    <2>1. PICK u, f: u = call[c].who /\ f = call[c].print
      OBVIOUS
    <2>2. /\ call[c].at = "register" /\ u \in Accounts /\ f \in Fingerprints
          /\ call[c].others = OtherOwners(u, f) /\ Goto(c, Idle) /\ call[c] # Idle
      BY <1>1, <1>10, <2>1 DEF RegisterDevice, AccessHolds, Return, Idle
    <2>3. CASE UNCHANGED <<device, reported>>
      BY <2>2, <2>3, IdleHoldsNothing, DevicesStand
    <2>4. CASE /\ device' = device \cup {<<u, f>>}
               /\ reported' = reported \cup SharedBy(u, OtherOwners(u, f), f, heard)
      <3>1. (device \in SUBSET (Accounts \X Fingerprints))'
        BY <2>2, <2>4 DEF AccessInv
      <3>2. ASSUME NEW v \in Accounts, v # u, <<v, f>> \in device
            PROVE  <<u, v, f, heard>> \in reported'
        BY <2>4, <3>2 DEF SharedBy, OtherOwners
      <3>3. ASSUME NEW v \in Accounts, NEW w \in Accounts, NEW g \in Fingerprints,
                   TheyShare(v, w, g)'
            PROVE  Reported(v, w, g)'
        <4>1. CASE <<v, g>> \in device /\ <<w, g>> \in device
          BY <2>4, <3>3, <4>1 DEF AccessInv, TheyShare, Reported
        <4>2. CASE <<v, g>> \notin device
          BY <2>4, <3>2, <3>3, <4>2 DEF TheyShare, Reported
        <4>3. CASE <<w, g>> \notin device
          BY <2>4, <3>2, <3>3, <4>3 DEF TheyShare, Reported
        <4> QED
          BY <4>1, <4>2, <4>3
      <3>4. OneCall' /\ \A d \in Clients: call'[d] = Idle
        BY <1>1, <2>2, AloneOrNone
      <3>5. \A d \in Clients: AccessHolds(call[d])'
        <4>1. \A d \in Clients: call'[d].at = "idle"
          BY <3>4 DEF Idle
        <4> QED
          BY <4>1, Zenon DEF AccessHolds
      <3> QED
        BY <3>1, <3>3, <3>4, <3>5 DEF AccessInv
    <2> QED
      BY <1>10, <2>1, <2>2, <2>3, <2>4 DEF RegisterDevice
  <1>11. ASSUME NEW us \in SUBSET Accounts, NEW open \in BOOLEAN, NEW stamp \in BOOLEAN,
                BulkAction(us, open, stamp)
         PROVE  AccessInv'
    <2>1. UNCHANGED <<device, reported, call>>
      BY <1>11, Zenon DEF BulkAction
    <2> QED
      BY <1>3, <2>1
  <1>12. ASSUME NEW u \in Accounts, NEW f \in Fingerprints, RevokeDevice(u, f)
         PROVE  AccessInv'
    <2>1. /\ Quiet /\ UNCHANGED <<reported, call>> /\ device' = device \ {<<u, f>>}
      BY <1>12 DEF RevokeDevice, MayRun
    <2>2. \A d \in Clients: AccessHolds(call[d])'
      <3>1. \A d \in Clients: call'[d].at = "idle"
        BY <2>1 DEF Quiet, Idle
      <3> QED
        BY <3>1, Zenon DEF AccessHolds
    <2>3. (\A v, w \in Accounts, g \in Fingerprints: TheyShare(v, w, g) => Reported(v, w, g))'
      BY <2>1 DEF AccessInv, TheyShare, Reported
    <2> QED
      BY <1>1, <2>1, <2>2, <2>3 DEF AccessInv, OneCall
  <1>13. ASSUME NEW u \in Accounts, ExpireContext(u)
         PROVE  AccessInv'
    BY <1>13, <1>3 DEF ExpireContext
  <1> QED
    BY <1>4, <1>5, <1>6, <1>7, <1>8, <1>9, <1>10, <1>11, <1>12, <1>13 DEF AccessNext
\* One call after the other, when two accounts hold the same device, checkDevice noticed it
\* and made its one report of the pair, whichever came first and whatever was revoked between.
THEOREM SharedDevicesNoticed ==
  ASSUME "access" \notin Overlapping
  PROVE  OfficeSpec => []SharedDeviceNoticed
  <1>1. OfficeInit => AccessInv
    <2> SUFFICES ASSUME OfficeInit
                 PROVE  AccessInv
      OBVIOUS
    <2>1. OneCall /\ \A c \in Clients: AccessHolds(call[c])
      BY IdleFirst, IdleHoldsNothing
    <2> QED
      BY <2>1 DEF OfficeInit, AccessInit, AccessInv, TheyShare
  <1>2. AccessInv /\ [OfficeNext]_<<officeVars, call, focus>> => AccessInv'
    <2> SUFFICES ASSUME AccessInv, [OfficeNext]_<<officeVars, call, focus>>
                 PROVE  AccessInv'
      OBVIOUS
    <2>1. \/ focus = "access" /\ AccessNext /\ UNCHANGED focus
          \/ UNCHANGED <<accessVars, focus>> /\ (focus # "access" \/ UNCHANGED call)
      BY DEF OfficeNext, officeVars
    <2>2. CASE UNCHANGED <<accessVars, focus>> /\ (focus # "access" \/ UNCHANGED call)
      <3>1. UNCHANGED <<device, reported, focus>>
        BY <2>2 DEF accessVars
      <3>2. CASE focus # "access"
        BY <3>1, <3>2 DEF AccessInv, TheyShare, Reported
      <3>3. CASE UNCHANGED call
        BY <3>1, <3>3 DEF AccessInv, OneCall, AccessHolds, OtherOwners, TheyShare, Reported
      <3> QED
        BY <2>2, <3>2, <3>3
    <2> QED
      BY <2>1, <2>2, AccessStepKeeps
  <1>3. AccessInv => SharedDeviceNoticed
    <2> SUFFICES ASSUME AccessInv, NEW d \in device, NEW e \in device, d[1] # e[1], d[2] = e[2]
                 PROVE  Reported(d[1], e[1], d[2])
      BY DEF SharedDeviceNoticed
    <2>1. PICK u, v \in Accounts, f \in Fingerprints: d = <<u, f>> /\ e = <<v, f>>
      BY DEF AccessInv
    <2>2. Reported(u, v, f)
      BY <2>1 DEF AccessInv, TheyShare
    <2> QED
      BY <2>1, <2>2
  <1> QED
    BY <1>1, <1>2, <1>3, PTL DEF OfficeSpec
-----------------------------------------------------------------------------
(* Folders *)

Lies(g, q) == Found(folder[g]) /\ folder[g].parent # Top /\ folder[g].parent = q

\* Folders are never removed, so whatever a folder lies in is there.
FolderInv ==
  /\ folder \in [Folders -> FolderRow \cup {NoRow}]
  /\ \A g \in Folders: Found(folder[g]) /\ folder[g].parent # Top
                         => folder[g].parent \in Folders /\ Found(folder[folder[g].parent])
  /\ FoldersNest

\* Below(f) is the least closed set that f is in.
LEMMA BelowIsLeast ==
  ASSUME NEW f \in Folders
  PROVE  /\ f \in Below(f) /\ Below(f) \in SUBSET Folders /\ ClosedDownwards(Below(f))
         /\ \A S \in SUBSET Folders: f \in S /\ ClosedDownwards(S) => Below(f) \subseteq S
  BY DEF Below, ClosedDownwards

\* To see that q is not below g, name a closed set that has g and not q.
LEMMA Separated ==
  ASSUME NEW g \in Folders, NEW q, NEW S \in SUBSET Folders, g \in S, q \notin S,
         ClosedDownwards(S)'
  PROVE  (q \notin Below(g))'
  BY DEF Below

LEMMA FolderMoved ==
  ASSUME FolderInv, NEW f \in Folders, NEW p \in Folders, NEW row \in FolderRow,
         Found(folder[f]), folder[f].parent = Top, Found(folder[p]), p \notin Below(f),
         p # Top, row.parent = p, folder' = [folder EXCEPT ![f] = row]
  PROVE  FolderInv'
  <1>1. Found(row)
    BY DEF Found, NoRow, FolderRow
  <1>2. /\ folder' \in [Folders -> FolderRow \cup {NoRow}]
        /\ folder'[f] = row /\ \A g \in Folders \ {f}: folder'[g] = folder[g]
    BY DEF FolderInv
  <1>3. \A g \in Folders: Found(folder'[g]) <=> Found(folder[g])
    BY <1>1, <1>2
  <1>4. ASSUME NEW S \in SUBSET Folders, ClosedDownwards(S), p \in S => f \in S
        PROVE  ClosedDownwards(S)'
    BY <1>2, <1>3, <1>4 DEF ClosedDownwards
  <1>5. ASSUME NEW g \in Folders, Found(folder'[g]), folder'[g].parent # Top
        PROVE  (folder[g].parent \notin Below(g))'
    <2>1. CASE g = f
      <3>1. PICK S: S = Below(f)
        OBVIOUS
      <3>2. (p \notin Below(f))'
        BY <1>4, <3>1, BelowIsLeast, Separated
      <3> QED
        BY <1>2, <2>1, <3>2
    <2>2. CASE g # f
      <3>1. PICK q: q = folder[g].parent
        OBVIOUS
      <3>2. q = folder'[g].parent /\ q # Top /\ Found(folder[g]) /\ q \notin Below(g)
        BY <1>2, <1>3, <1>5, <2>2, <3>1 DEF FolderInv, FoldersNest
      <3>3. CASE p \notin Below(g)
        <4>1. PICK S: S = Below(g)
          OBVIOUS
        <4>2. (q \notin Below(g))'
          BY <1>4, <3>2, <3>3, <4>1, BelowIsLeast, Separated
        <4> QED
          BY <3>2, <4>2
      <3>4. CASE p \in Below(g)
        <4>1. PICK S: S = Below(g) \cup Below(f)
          OBVIOUS
        <4>2. S \in SUBSET Folders /\ ClosedDownwards(S) /\ f \in S /\ g \in S
          BY <4>1, BelowIsLeast DEF ClosedDownwards
        <4>3. q \notin Below(f)
          <5> SUFFICES ASSUME q \in Below(f)
                       PROVE  FALSE
            OBVIOUS
          <5>1. g \in Below(f)
            BY <3>1, <3>2, BelowIsLeast DEF ClosedDownwards
          <5>2. Below(g) \subseteq Below(f)
            BY <5>1, BelowIsLeast
          <5> QED
            BY <3>4, <5>2
        <4>4. (q \notin Below(g))'
          BY <1>4, <3>2, <4>1, <4>2, <4>3, Separated
        <4> QED
          BY <3>2, <4>4
      <3> QED
        BY <3>3, <3>4
    <2> QED
      BY <2>1, <2>2
  <1> QED
    BY <1>2, <1>3, <1>5 DEF FolderInv, FoldersNest

LEMMA FolderCreated ==
  ASSUME FolderInv, NEW f \in Folders, folder[f] = NoRow, NEW row \in FolderRow,
         row.parent # Top => row.parent \in Folders /\ Found(folder[row.parent]),
         folder' = [folder EXCEPT ![f] = row]
  PROVE  FolderInv'
  <1>1. Found(row)
    BY DEF Found, NoRow, FolderRow
  <1>2. /\ folder' \in [Folders -> FolderRow \cup {NoRow}]
        /\ folder'[f] = row /\ \A g \in Folders \ {f}: folder'[g] = folder[g]
    BY DEF FolderInv
  <1>3. \A g \in Folders: Found(folder[g]) => g # f /\ Found(folder'[g])
    BY <1>2 DEF Found
  <1>4. \A g \in Folders \ {f}: Found(folder[g]) /\ folder[g].parent # Top => folder[g].parent # f
    BY <1>3 DEF FolderInv
  <1>5. ASSUME NEW g \in Folders, Found(folder'[g]), folder'[g].parent # Top
        PROVE  (folder[g].parent \notin Below(g))'
    <2>1. CASE g = f
      <3>1. PICK p: p = row.parent /\ p # f
        BY <1>2, <1>3, <1>5, <2>1
      <3>2. PICK S: S = {f}
        OBVIOUS
      <3>3. ClosedDownwards(S)'
        BY <1>2, <1>4, <3>2, LibraryAssumption DEF ClosedDownwards, Found
      <3>4. (p \notin Below(f))'
        BY <3>1, <3>2, <3>3, Separated
      <3> QED
        BY <1>2, <2>1, <3>1, <3>4
    <2>2. CASE g # f
      <3>1. PICK q: q = folder[g].parent
        OBVIOUS
      <3>2. /\ q = folder'[g].parent /\ q # Top /\ Found(folder[g])
            /\ q \notin Below(g) /\ q # f
        BY <1>2, <1>4, <1>5, <2>2, <3>1 DEF FolderInv, FoldersNest
      <3>3. PICK S: S = Below(g) \cup {f}
        OBVIOUS
      <3>4. ClosedDownwards(S)'
        <4> SUFFICES ASSUME NEW h \in Folders \ {f}, Found(folder[h]), folder[h].parent \in S
                     PROVE  h \in S
          BY <1>2, <3>3 DEF ClosedDownwards
        <4>1. folder[h].parent # Top => folder[h].parent # f
          BY <1>4
        <4>2. CASE folder[h].parent \in Below(g)
          BY <3>3, <4>2, BelowIsLeast DEF ClosedDownwards
        <4>3. CASE folder[h].parent = f
          BY <4>1, <4>3, LibraryAssumption
        <4> QED
          BY <3>3, <4>2, <4>3
      <3>5. (q \notin Below(g))'
        BY <3>2, <3>3, <3>4, BelowIsLeast, Separated
      <3> QED
        BY <3>2, <3>5
    <2> QED
      BY <2>1, <2>2
  <1> QED
    BY <1>2, <1>3, <1>5 DEF FolderInv, FoldersNest
LEMMA FolderStepKeeps ==
  ASSUME FolderInv, LibraryNext
  PROVE  FolderInv'
  <1>1. ASSUME UNCHANGED folder
        PROVE  FolderInv'
    BY <1>1 DEF FolderInv, FoldersNest, Below, ClosedDownwards
  <1>2. DocumentLibraryController => UNCHANGED folder
    BY Zenon DEF DocumentLibraryController, CreateLibrary, UpdateLibrary, DeleteLibrary
  <1>3. ASSUME NEW c \in Clients, NEW f \in Folders, NEW l \in Libraries,
               NEW parent \in Folders \cup {Top}, NEW name \in Names,
               CreateFolder(c, f, l, parent, name)
        PROVE  FolderInv'
    <2>1. PICK row: row = [library |-> l, parent |-> parent, name |-> name, deleted |-> FALSE]
      OBVIOUS
    <2>2. row \in FolderRow /\ row.parent = parent
      BY <2>1 DEF FolderRow
    <2>3. /\ folder[f] = NoRow /\ folder' = [folder EXCEPT ![f] = row]
          /\ parent # Top => parent \in Folders /\ Found(folder[parent])
      BY <1>3, <2>1 DEF CreateFolder, InLibrary
    <2> QED
      BY <2>2, <2>3, FolderCreated
  <1>4. \A f \in Folders: Found(folder[f]) => folder[f] \in FolderRow
    BY DEF FolderInv, Found
  <1>5. ASSUME NEW c \in Clients, NEW f \in Folders, NEW parent \in Folders \cup {Top},
               MoveFolder(c, f, parent)
        PROVE  FolderInv'
    <2>1. PICK to: to = SavedParent(folder[f].parent, parent)
      OBVIOUS
    <2>2. PICK row: row = [folder[f] EXCEPT !.parent = to]
      OBVIOUS
    <2>3. /\ Found(folder[f]) /\ parent \notin Below(f)
          /\ folder' = [folder EXCEPT ![f] = row]
          /\ parent # Top => parent \in Folders /\ Found(folder[parent])
      BY <1>5, <2>1, <2>2 DEF MoveFolder, InLibrary, InSubtree, Live, Found
    <2>4. folder[f] \in FolderRow
      BY <1>4, <2>3
    <2>5. CASE folder[f].parent = Top /\ parent # Top
      <3>1. to = parent
        BY <2>1, <2>5 DEF SavedParent
      <3>2. row \in FolderRow /\ row.parent = parent
        BY ONLY <2>2, <2>4, <3>1, parent \in Folders \cup {Top} DEF FolderRow
      <3> QED
        BY <2>3, <2>5, <3>2, FolderMoved
    <2>6. CASE folder[f].parent # Top \/ parent = Top
      <3>1. to = folder[f].parent
        BY <2>1, <2>6 DEF SavedParent
      <3>2. row = folder[f]
        BY ONLY <2>2, <2>4, <3>1 DEF FolderRow
      <3>3. folder' = folder
        BY <2>3, <3>2 DEF FolderInv
      <3> QED
        BY <1>1, <3>3
    <2> QED
      BY <2>5, <2>6
  <1>6. ASSUME NEW c \in Clients, NEW f \in Folders, DeleteFolder(c, f)
        PROVE  FolderInv'
    <2>1. PICK row: row = [folder[f] EXCEPT !.deleted = TRUE]
      OBVIOUS
    <2>2. Found(folder[f]) /\ folder' = [folder EXCEPT ![f] = row]
      BY <1>6, <2>1 DEF DeleteFolder, Live, Found
    <2>3. folder[f] \in FolderRow
      BY <1>4, <2>2
    <2>4. row \in FolderRow /\ row.parent = folder[f].parent
      BY ONLY <2>1, <2>3 DEF FolderRow
    <2>5. folder' \in [Folders -> FolderRow \cup {NoRow}]
      BY <2>2, <2>4 DEF FolderInv
    <2>6. \A g \in Folders: /\ Found(folder'[g]) <=> Found(folder[g])
                            /\ folder'[g].parent = folder[g].parent
      BY <2>2, <2>4 DEF FolderInv, Found, FolderRow, NoRow
    <2>7. \A S: ClosedDownwards(S) <=> ClosedDownwards(S)'
      BY <2>6 DEF ClosedDownwards
    <2>8. \A g \in Folders: \A q: q \in Below(g) <=> (q \in Below(g))'
      BY <2>7 DEF Below
    <2> QED
      BY <2>5, <2>6, <2>8 DEF FolderInv, FoldersNest
  <1> QED
    BY <1>2, <1>1, <1>3, <1>5, <1>6 DEF LibraryNext, FolderController
-----------------------------------------------------------------------------
(* Organisations *)

Deletable(row) ==
  row.at = "delete" => row.organization \in Organizations /\ Childless(row.organization)

BranchInv ==
  /\ organization \in [Organizations -> OrganizationRow \cup {Gone}]
  /\ ParentsExist
  /\ focus = "branches" => OneCall /\ \A c \in Clients: Deletable(call[c])

\* The calls that write one row.
LEMMA OrganizationSaved ==
  ASSUME BranchInv, focus = "branches", UNCHANGED <<focus, call>>, Quiet,
         NEW o \in Organizations, NEW row \in OrganizationRow,
         organization' = [organization EXCEPT ![o] = row],
         row.parent # NoParent => Exists(row.parent)
  PROVE  BranchInv'
  <1>1. row # Gone
    BY DEF OrganizationRow, Gone
  <1>2. /\ organization' \in [Organizations -> OrganizationRow \cup {Gone}]
        /\ organization'[o] = row
        /\ \A p \in Organizations \ {o}: organization'[p] = organization[p]
    BY DEF BranchInv
  <1>3. \A p \in Organizations: Exists(p) => Exists(p)'
    BY <1>1, <1>2 DEF Exists
  <1>4. \A p \in Organizations: Exists(p) => organization[p] \in OrganizationRow
    BY DEF BranchInv, Exists
  <1>5. row.parent \in Organizations \cup {NoParent}
    BY DEF OrganizationRow
  <1>6. \A p \in Organizations: Exists(p) => organization[p].parent \in Organizations \cup {NoParent}
    BY <1>4 DEF OrganizationRow
  <1>7. ParentsExist'
    BY <1>2, <1>3, <1>5, <1>6 DEF BranchInv, ParentsExist, Exists
  <1>8. \A c \in Clients: call'[c].at = "idle"
    BY DEF Quiet, Idle
  <1>9. \A c \in Clients: Deletable(call[c])'
    BY <1>8, Zenon DEF Deletable
  <1> QED
    BY <1>2, <1>7, <1>9 DEF BranchInv, OneCall

LEMMA BranchStepKeeps ==
  ASSUME "branches" \notin Overlapping, BranchInv, focus = "branches", BranchNext, UNCHANGED focus
  PROVE  BranchInv'
  <1>1. OneCall /\ \A c \in Clients: Deletable(call[c])
    BY DEF BranchInv
  <1>2. ASSUME NEW c \in Clients, MayStart(c, "branches")
        PROVE  Quiet
    BY <1>2 DEF MayStart, MayRun
  <1>3. ASSUME UNCHANGED <<organization, call>>
        PROVE  BranchInv'
    BY <1>1, <1>3 DEF BranchInv, ParentsExist, Exists, OneCall, Deletable, Childless, Children
  <1>4. DepartmentsController => UNCHANGED <<organization, call>>
    BY Zenon DEF DepartmentsController, CreateDepartment, UpdateDepartment, ActivateDepartments,
                 HardDeleteDepartment
  <1>5. \A o \in Organizations: Exists(o) => organization[o] \in OrganizationRow
    BY DEF BranchInv, Exists
  <1>6. ASSUME NEW c \in Clients, NEW o \in Organizations,
               NEW parent \in Organizations \cup {NoParent}, NEW root \in BOOLEAN,
               CreateOrganization(c, o, parent, root)
        PROVE  BranchInv'
    <2>1. PICK row: row = [parent |-> parent, root |-> root, active |-> TRUE]
      OBVIOUS
    <2>2. row \in OrganizationRow /\ row.parent = parent
      BY <2>1 DEF OrganizationRow
    <2> QED
      BY <1>2, <1>6, <2>1, <2>2, OrganizationSaved DEF CreateOrganization, ParentIsValid
  <1>7. ASSUME NEW c \in Clients, NEW o \in Organizations,
               NEW parent \in Organizations \cup {NoParent}, AttachOrganization(c, o, parent)
        PROVE  BranchInv'
    <2>1. organization[o] \in OrganizationRow
      BY <1>5, <1>7 DEF AttachOrganization
    <2>2. PICK row: row = [organization[o] EXCEPT !.parent = parent]
      OBVIOUS
    <2>3. row \in OrganizationRow /\ row.parent = parent
      BY ONLY <2>1, <2>2, parent \in Organizations \cup {NoParent} DEF OrganizationRow
    <2> QED
      BY <1>2, <1>7, <2>2, <2>3, OrganizationSaved DEF AttachOrganization, ParentIsValid
  <1>8. ASSUME NEW c \in Clients, NEW o \in Organizations, NEW flag \in BOOLEAN,
               SetRoot(c, o, flag) \/ SetActive(c, o, flag)
        PROVE  BranchInv'
    <2>1. organization[o] \in OrganizationRow /\ Exists(o)
      BY <1>5, <1>8 DEF SetRoot, SetActive
    <2>2. PICK rooted, activated: /\ rooted = [organization[o] EXCEPT !.root = flag]
                                  /\ activated = [organization[o] EXCEPT !.active = flag]
      OBVIOUS
    <2>3. rooted \in OrganizationRow /\ rooted.parent = organization[o].parent
      BY ONLY <2>1, <2>2, flag \in BOOLEAN DEF OrganizationRow
    <2>4. activated \in OrganizationRow /\ activated.parent = organization[o].parent
      BY ONLY <2>1, <2>2, flag \in BOOLEAN DEF OrganizationRow
    <2>5. organization[o].parent # NoParent => Exists(organization[o].parent)
      BY <2>1 DEF BranchInv, ParentsExist
    <2> QED
      BY <1>2, <1>8, <2>2, <2>3, <2>4, <2>5, OrganizationSaved DEF SetRoot, SetActive
  <1>9. ASSUME NEW c \in Clients, NEW o \in Organizations, BeginDeleteOrganization(c, o)
        PROVE  BranchInv'
    <2>1. PICK next: next = [at |-> "delete", organization |-> o]
      OBVIOUS
    <2>2. Goto(c, next) /\ Childless(o) /\ UNCHANGED organization
      BY <1>9, <2>1 DEF BeginDeleteOrganization, branchVars
    <2>3. OneCall' /\ call'[c] = next /\ \A d \in Clients \ {c}: call'[d] = Idle
      BY <1>1, <1>2, <1>9, <2>2, AloneOrNone DEF BeginDeleteOrganization
    <2>4. Deletable(call[c])'
      BY <2>1, <2>2, <2>3 DEF Deletable, Childless, Children, Exists
    <2>5. \A d \in Clients \ {c}: Deletable(call[d])'
      BY <2>3 DEF Deletable, Idle
    <2> QED
      BY <2>2, <2>3, <2>4, <2>5 DEF BranchInv, ParentsExist, Exists
  <1>10. ASSUME NEW c \in Clients, DeleteOrganization(c)
         PROVE  BranchInv'
    <2>1. PICK o: o = call[c].organization
      OBVIOUS
    <2>2. /\ call[c].at = "delete" /\ o \in Organizations /\ Childless(o) /\ Goto(c, Idle)
          /\ organization' = [organization EXCEPT ![o] = Gone]
      BY <1>1, <1>10, <2>1 DEF DeleteOrganization, Deletable, Return
    <2>3. /\ organization' \in [Organizations -> OrganizationRow \cup {Gone}]
          /\ organization'[o] = Gone
          /\ \A p \in Organizations \ {o}: organization'[p] = organization[p]
      BY <2>2 DEF BranchInv
    <2>4. ParentsExist'
      BY <2>2, <2>3 DEF BranchInv, ParentsExist, Exists, Childless, Children
    <2>5. OneCall' /\ \A d \in Clients: call'[d] = Idle
      BY <1>1, <2>2, AloneOrNone DEF Idle
    <2>6. \A d \in Clients: Deletable(call[d])'
      BY <2>5 DEF Deletable, Idle
    <2> QED
      BY <2>3, <2>4, <2>5, <2>6 DEF BranchInv
  <1> QED
    BY <1>3, <1>4, <1>6, <1>7, <1>8, <1>9, <1>10 DEF BranchNext, OrganizationsController

\* No organisation is left below one that was deleted, however they were attached and
\* detached, calls made one after the other, and no folder comes to lie, through however many
\* others, in itself.
THEOREM TreesStand ==
  ASSUME "branches" \notin Overlapping
  PROVE  OfficeSpec => []TreesHold
  <1>1. OfficeInit => FolderInv /\ BranchInv
    <2> SUFFICES ASSUME OfficeInit
                 PROVE  FolderInv /\ BranchInv
      OBVIOUS
    <2>1. FolderInv
      BY DEF OfficeInit, LibraryInit, FolderInv, FoldersNest, Found
    <2>2. OneCall /\ \A c \in Clients: call[c].at = "idle"
      BY IdleFirst
    <2>3. \A c \in Clients: Deletable(call[c])
      BY <2>2, Zenon DEF Deletable
    <2>4. BranchInv
      BY <2>2, <2>3 DEF OfficeInit, BranchInit, BranchInv, ParentsExist, Exists
    <2> QED
      BY <2>1, <2>4
  <1>2. FolderInv /\ BranchInv /\ [OfficeNext]_<<officeVars, call, focus>> => FolderInv' /\ BranchInv'
    <2> SUFFICES ASSUME FolderInv, BranchInv, [OfficeNext]_<<officeVars, call, focus>>
                 PROVE  FolderInv' /\ BranchInv'
      OBVIOUS
    <2>1. FolderInv'
      <3>1. LibraryNext \/ UNCHANGED libraryVars
        BY DEF OfficeNext, officeVars
      <3>2. CASE UNCHANGED libraryVars
        BY <3>2 DEF libraryVars, FolderInv, FoldersNest, Below, ClosedDownwards
      <3> QED
        BY <3>1, <3>2, FolderStepKeeps
    <2>2. BranchInv'
      <3>1. \/ focus = "branches" /\ BranchNext /\ UNCHANGED focus
            \/ UNCHANGED <<branchVars, focus>> /\ (focus # "branches" \/ UNCHANGED call)
        BY DEF OfficeNext, officeVars
      <3>2. CASE UNCHANGED <<branchVars, focus>> /\ (focus # "branches" \/ UNCHANGED call)
        <4>1. UNCHANGED <<organization, focus>>
          BY <3>2 DEF branchVars
        <4>2. CASE focus # "branches"
          BY <4>1, <4>2 DEF BranchInv, ParentsExist, Exists
        <4>3. CASE UNCHANGED call
          BY <4>1, <4>3 DEF BranchInv, ParentsExist, Exists, OneCall, Deletable, Childless, Children
        <4> QED
          BY <3>2, <4>2, <4>3
      <3> QED
        BY <3>1, <3>2, BranchStepKeeps
    <2> QED
      BY <2>1, <2>2
  <1>3. FolderInv /\ BranchInv => TreesHold
    BY DEF FolderInv, BranchInv, TreesHold
  <1> QED
    BY <1>1, <1>2, <1>3, PTL DEF OfficeSpec
-----------------------------------------------------------------------------
(* Default libraries *)

LibrariesInv ==
  /\ library \in [Libraries -> LibraryRow \cup {NoRow}]
  /\ OneDefaultLibrary

LEMMA LibraryRows ==
  /\ NoRow \notin LibraryRow
  /\ \A row \in LibraryRow, default \in BOOLEAN:
       /\ [row EXCEPT !.default = default] \in LibraryRow
       /\ [row EXCEPT !.default = default].default = default
  BY DEF NoRow, LibraryRow

\* One library is written, the others at most cleared; it may be the default when they are
\* cleared, or it was before.
LEMMA LibrarySaved ==
  ASSUME LibrariesInv, NEW l \in Libraries, NEW row \in LibraryRow, NEW cleared \in BOOLEAN,
         library' = [(IF cleared THEN OthersCleared(l) ELSE library) EXCEPT ![l] = row],
         row.default => cleared \/ (Found(library[l]) /\ library[l].default)
  PROVE  LibrariesInv'
  <1>1. /\ library' \in [Libraries -> LibraryRow \cup {NoRow}]
        /\ library'[l] = row
        /\ \A k \in Libraries \ {l}:
             library'[k] = IF cleared /\ library[k] # NoRow
                           THEN [library[k] EXCEPT !.default = FALSE] ELSE library[k]
    BY LibraryRows DEF LibrariesInv, OthersCleared
  <1>2. ASSUME NEW k \in Libraries \ {l}, Found(library'[k]), library'[k].default
        PROVE  ~cleared /\ Found(library[k]) /\ library[k].default
    <2>1. library[k] # NoRow => library[k] \in LibraryRow
      BY DEF LibrariesInv
    <2> QED
      BY <1>1, <1>2, <2>1, LibraryRows DEF Found
  <1>3. ASSUME NEW j \in Libraries, NEW k \in Libraries, Found(library'[j]), library'[j].default,
               Found(library'[k]), library'[k].default
        PROVE  j = k
    <2>1. CASE j # l /\ k # l
      BY <1>2, <1>3, <2>1 DEF LibrariesInv, OneDefaultLibrary
    <2>2. CASE j = l /\ k # l
      BY <1>1, <1>2, <1>3, <2>2 DEF LibrariesInv, OneDefaultLibrary
    <2>3. CASE j # l /\ k = l
      BY <1>1, <1>2, <1>3, <2>3 DEF LibrariesInv, OneDefaultLibrary
    <2> QED
      BY <2>1, <2>2, <2>3
  <1>4. OneDefaultLibrary'
    BY <1>3 DEF OneDefaultLibrary
  <1> QED
    BY <1>1, <1>4 DEF LibrariesInv

LEMMA LibraryStepKeeps ==
  ASSUME LibrariesInv, LibraryNext
  PROVE  LibrariesInv'
  <1>1. FolderController => UNCHANGED library
    BY Zenon DEF FolderController, CreateFolder, MoveFolder, DeleteFolder
  <1>2. ASSUME UNCHANGED library
        PROVE  LibrariesInv'
    BY <1>2 DEF LibrariesInv, OneDefaultLibrary
  <1>3. \A l \in Libraries: Found(library[l]) => library[l] \in LibraryRow
    BY DEF LibrariesInv, Found
  <1>4. ASSUME NEW c \in Clients, NEW l \in Libraries, NEW default \in BOOLEAN,
               CreateLibrary(c, l, default)
        PROVE  LibrariesInv'
    <2>1. PICK row: row = [default |-> default, deleted |-> FALSE]
      OBVIOUS
    <2>2. row \in LibraryRow /\ row.default = default
      BY <2>1 DEF LibraryRow
    <2>3. library' = [(IF default THEN OthersCleared(l) ELSE library) EXCEPT ![l] = row]
      BY <1>4, <2>1 DEF CreateLibrary
    <2> QED
      BY <2>2, <2>3, LibrarySaved
  <1>5. ASSUME NEW c \in Clients, NEW l \in Libraries, NEW default \in BOOLEAN,
               UpdateLibrary(c, l, default)
        PROVE  LibrariesInv'
    <2>1. PICK cleared \in BOOLEAN: cleared <=> default /\ ~library[l].default
      OBVIOUS
    <2>2. PICK base: base = IF cleared THEN OthersCleared(l) ELSE library
      OBVIOUS
    <2>3. PICK row: row = [base[l] EXCEPT !.default = default]
      OBVIOUS
    <2>4. Found(library[l]) /\ library[l] \in LibraryRow
      BY <1>3, <1>5 DEF UpdateLibrary
    <2>5. base[l] \in LibraryRow
      BY <2>2, <2>4, LibraryRows DEF OthersCleared, Found
    <2>6. row \in LibraryRow /\ row.default = default
      BY <2>3, <2>5, LibraryRows
    <2>7. library' = [base EXCEPT ![l] = row]
      BY <1>5, <2>1, <2>2, <2>3 DEF UpdateLibrary
    <2> QED
      BY <2>1, <2>2, <2>4, <2>6, <2>7, LibrarySaved
  <1>6. ASSUME NEW c \in Clients, NEW l \in Libraries, DeleteLibrary(c, l)
        PROVE  LibrariesInv'
    <2>1. library[l] \in LibraryRow /\ ~library[l].default
      BY <1>3, <1>6 DEF DeleteLibrary
    <2>2. PICK row: row = [library[l] EXCEPT !.deleted = TRUE]
      OBVIOUS
    <2>3. row \in LibraryRow /\ row.default = library[l].default
      BY ONLY <2>1, <2>2 DEF LibraryRow
    <2>4. library' = [(IF FALSE THEN OthersCleared(l) ELSE library) EXCEPT ![l] = row]
      BY <1>6, <2>2 DEF DeleteLibrary
    <2> QED
      BY <2>1, <2>3, <2>4, LibrarySaved
  <1> QED
    BY <1>1, <1>2, <1>4, <1>5, <1>6 DEF LibraryNext, DocumentLibraryController
-----------------------------------------------------------------------------
(* Enrolments *)

\* the two rows are found by one and the same search
SameIds(d, e) ==
  \/ enrollment[d].employee # Nobody /\ enrollment[d].employee = enrollment[e].employee
  \/ /\ enrollment[d].employee = Nobody /\ enrollment[e].employee = Nobody
     /\ enrollment[d].user = enrollment[e].user

OnePlacePerIds ==
  \A d, e \in Enrollments:
    d # e /\ LiveEnrollment(d) /\ LiveEnrollment(e) /\ SameIds(d, e) => ~SamePlace(d, e)

LEMMA OnePlaceForEachLearner ==
  OnePlacePerIds => SecondPlaceOnlyByAccount
  <1> SUFFICES ASSUME OnePlacePerIds, NEW d \in Enrollments, NEW e \in Enrollments, d # e,
                      LiveEnrollment(d), LiveEnrollment(e), LearnerOf(d) = LearnerOf(e),
                      SamePlace(d, e)
               PROVE  ByAccount(d) # ByAccount(e)
    BY DEF SecondPlaceOnlyByAccount
  <1>1. ~SameIds(d, e)
    BY DEF OnePlacePerIds
  <1> QED
    BY <1>1 DEF SameIds, LearnerOf, ByAccount

SameAs(e, row) ==
  /\ \/ enrollment[e].employee # Nobody /\ enrollment[e].employee = row.employee
     \/ /\ enrollment[e].employee = Nobody /\ row.employee = Nobody
        /\ enrollment[e].user = row.user
  /\ \/ enrollment[e].session # "none" /\ enrollment[e].session = row.session
     \/ /\ enrollment[e].session = "none" /\ row.session = "none"
        /\ enrollment[e].course = row.course

NewRow(row) ==
  [exists |-> TRUE, deleted |-> FALSE, course |-> row.course, session |-> row.session,
   employee |-> row.employee, user |-> row.user, status |-> row.status]

\* what a call has looked up: no live enrolment of the learner in the place it is to take
EnrollHolds(row) ==
  /\ row.at = "enroll" => /\ NewRow(row) \in EnrollmentRow
                          /\ \A e \in Enrollments: LiveEnrollment(e) => ~SameAs(e, row)
  /\ row.at = "complete" => row.enrollment \in Enrollments

EnrollInv ==
  /\ enrollment \in [Enrollments -> EnrollmentRow]
  /\ OnePlacePerIds
  /\ focus = "academy" => OneCall /\ \A k \in Clients: EnrollHolds(call[k])

LEMMA IdleEnrollsNobody == EnrollHolds(Idle)
  BY Zenon DEF EnrollHolds, Idle

\* One row is written, and it is no more alive than before, or is like no other.
LEMMA EnrollmentSaved ==
  ASSUME EnrollInv, NEW e \in Enrollments, NEW row \in EnrollmentRow,
         enrollment' = [enrollment EXCEPT ![e] = row], UNCHANGED focus,
         (row.exists /\ ~row.deleted) =>
           \/ LiveEnrollment(e) /\ row.employee = enrollment[e].employee
              /\ row.user = enrollment[e].user /\ row.session = enrollment[e].session
              /\ row.course = enrollment[e].course
           \/ \A d \in Enrollments: LiveEnrollment(d) => ~SameAs(d, row),
         focus = "academy" => OneCall' /\ \A k \in Clients: call'[k] = Idle
  PROVE  EnrollInv'
  <1>1. /\ enrollment' \in [Enrollments -> EnrollmentRow] /\ enrollment'[e] = row
        /\ \A d \in Enrollments \ {e}: enrollment'[d] = enrollment[d]
    BY DEF EnrollInv
  <1>2. ASSUME NEW d \in Enrollments \ {e}, LiveEnrollment(d)', LiveEnrollment(e)',
               SameIds(d, e)' \/ SameIds(e, d)', SamePlace(d, e)' \/ SamePlace(e, d)'
        PROVE  FALSE
    <2>1. LiveEnrollment(d) /\ row.exists /\ ~row.deleted /\ SameAs(d, row)
      BY <1>1, <1>2 DEF LiveEnrollment, SameIds, SamePlace, SameAs
    <2>2. /\ LiveEnrollment(e) /\ row.employee = enrollment[e].employee
          /\ row.user = enrollment[e].user /\ row.session = enrollment[e].session
          /\ row.course = enrollment[e].course
      BY <2>1
    <2>3. SameIds(d, e) /\ SamePlace(d, e)
      BY <2>1, <2>2 DEF SameAs, SameIds, SamePlace
    <2> QED
      BY <2>1, <2>2, <2>3 DEF EnrollInv, OnePlacePerIds
  <1>3. OnePlacePerIds'
    <2> SUFFICES ASSUME NEW c \in Enrollments, NEW d \in Enrollments, c # d, LiveEnrollment(c)',
                        LiveEnrollment(d)', SameIds(c, d)', SamePlace(c, d)'
                 PROVE  FALSE
      BY DEF OnePlacePerIds
    <2>1. CASE c # e /\ d # e
      <3>1. LiveEnrollment(c) /\ LiveEnrollment(d) /\ SameIds(c, d) /\ SamePlace(c, d)
        BY <1>1, <2>1 DEF LiveEnrollment, SameIds, SamePlace
      <3> QED
        BY <3>1 DEF EnrollInv, OnePlacePerIds
    <2>2. CASE c = e
      BY <1>2, <2>2
    <2>3. CASE d = e
      BY <1>2, <2>3
    <2> QED
      BY <2>1, <2>2, <2>3
  <1>4. focus' = "academy" => OneCall' /\ \A k \in Clients: EnrollHolds(call[k])'
    <2>1. ASSUME NEW k \in Clients, call'[k] = Idle
          PROVE  EnrollHolds(call[k])'
      <3>1. call'[k].at = "idle"
        BY <2>1 DEF Idle
      <3> QED
        BY <3>1, Zenon DEF EnrollHolds
    <2> QED
      BY <2>1
  <1> QED
    BY <1>1, <1>3, <1>4 DEF EnrollInv
\* The steps that write no enrolment.
LEMMA EnrollmentsStand ==
  ASSUME EnrollInv, focus = "academy", UNCHANGED <<enrollment, focus>>,
         OneCall', \A k \in Clients: EnrollHolds(call'[k])
  PROVE  EnrollInv'
  <1>1. ASSUME NEW k \in Clients, NEW row, row = call'[k], EnrollHolds(row)
        PROVE  EnrollHolds(call[k])'
    BY <1>1 DEF EnrollHolds, LiveEnrollment, SameAs, NewRow, EnrollmentRow
  <1>2. \A k \in Clients: EnrollHolds(call[k])'
    BY <1>1
  <1>3. /\ (enrollment \in [Enrollments -> EnrollmentRow])'
        /\ OnePlacePerIds'
    BY DEF EnrollInv, OnePlacePerIds, LiveEnrollment, SameIds, SamePlace
  <1> QED
    BY <1>2, <1>3 DEF EnrollInv
LEMMA AcademyStepKeeps ==
  ASSUME "academy" \notin Overlapping, EnrollInv, focus = "academy", AcademyNext, UNCHANGED focus
  PROVE  EnrollInv'
  <1>1. OneCall /\ \A k \in Clients: EnrollHolds(call[k])
    BY DEF EnrollInv
  <1>2. \A e \in Enrollments: enrollment[e] \in EnrollmentRow
    BY DEF EnrollInv
  <1>3. ASSUME UNCHANGED <<enrollment, call>>
        PROVE  EnrollInv'
    BY <1>1, <1>3, EnrollmentsStand DEF OneCall
  <1>4. ASSUME NEW k \in Clients, NEW next, MayStart(k, "academy"), Goto(k, next),
               EnrollHolds(next), UNCHANGED enrollment
        PROVE  EnrollInv'
    <2>1. Quiet
      BY <1>4 DEF MayStart, MayRun
    <2>2. OneCall' /\ call'[k] = next /\ \A d \in Clients \ {k}: call'[d] = Idle
      BY <1>1, <1>4, <2>1, AloneOrNone
    <2> QED
      BY <1>4, <2>2, IdleEnrollsNobody, EnrollmentsStand
  <1>5. ASSUME NEW c \in Courses,
               \/ CreateCourse(c) \/ DeleteCourse(c)
               \/ \E from, to: SetCourseStatus(c, from, to)
        PROVE  EnrollInv'
    BY <1>3, <1>5 DEF CreateCourse, SetCourseStatus, DeleteCourse
  <1>6. ASSUME NEW s \in Sessions,
               \/ DeleteSession(s) \/ \E c, start, end: CreateSession(s, c, start, end)
               \/ \E c, start, end, cancel: UpdateSession(s, c, start, end, cancel)
        PROVE  EnrollInv'
    <2>1. UNCHANGED <<enrollment, call>>
      BY <1>6, Zenon DEF CreateSession, UpdateSession, DeleteSession
    <2> QED
      BY <1>3, <2>1
  <1>7. ASSUME AutoCompletePastSessions \/ NextDay
        PROVE  EnrollInv'
    <2>1. UNCHANGED <<enrollment, call>>
      BY <1>7, Zenon DEF AutoCompletePastSessions, NextDay
    <2> QED
      BY <1>3, <2>1
  <1>8. ASSUME NEW k \in Clients, NEW c \in CoursesOrNone, NEW p \in Learners,
               NEW s \in Sessions \cup {"none"}, BeginSelfEnroll(k, p, c, s)
        PROVE  EnrollInv'
    <2>1. PICK employee \in Learners \cup {Nobody}:
            employee = IF p \in Employed THEN p ELSE Nobody
      OBVIOUS
    <2>2. PICK next: next = [at |-> "enroll", course |-> c, session |-> s, employee |-> employee,
                             user |-> p, status |-> "enrolled"]
      OBVIOUS
    <2>3. NewRow(next) \in EnrollmentRow
      BY <2>2 DEF NewRow, EnrollmentRow, EnrollmentStatuses, CoursesOrNone
    <2>4. /\ MayStart(k, "academy") /\ Goto(k, next) /\ UNCHANGED enrollment
          /\ ~AlreadyEnrolled(c, s, employee, p)
      BY <1>8, <2>1, <2>2 DEF BeginSelfEnroll, academyVars
    <2>5. \A e \in Enrollments: LiveEnrollment(e) => ~SameAs(e, next)
      BY <2>2, <2>4 DEF AlreadyEnrolled, OfLearner, SameAs
    <2>6. EnrollHolds(next)
      BY <2>2, <2>3, <2>5 DEF EnrollHolds
    <2> QED
      BY <1>4, <2>4, <2>6
  <1>9. ASSUME NEW k \in Clients, NEW c \in Courses, NEW p \in Learners,
               NEW asEmployee \in BOOLEAN, BeginCreateEnrollment(k, p, asEmployee, c, "invited")
        PROVE  EnrollInv'
    <2>1. PICK employee, user \in Learners \cup {Nobody}:
            /\ employee = IF asEmployee THEN p ELSE Nobody
            /\ user = IF asEmployee THEN Nobody ELSE p
      OBVIOUS
    <2>2. PICK next: next = [at |-> "enroll", course |-> c, session |-> "none",
                             employee |-> employee, user |-> user, status |-> "invited"]
      OBVIOUS
    <2>3. NewRow(next) \in EnrollmentRow
      BY <2>2 DEF NewRow, EnrollmentRow, EnrollmentStatuses, CoursesOrNone
    <2>4. /\ MayStart(k, "academy") /\ Goto(k, next) /\ UNCHANGED enrollment
          /\ ~\E e \in Enrollments: LiveEnrollment(e) /\ OfLearner(e, employee, user)
                                    /\ enrollment[e].course = c
      BY <1>9, <2>1, <2>2 DEF BeginCreateEnrollment, academyVars
    <2>5. \A e \in Enrollments: LiveEnrollment(e) => ~SameAs(e, next)
      BY <2>2, <2>4 DEF OfLearner, SameAs
    <2>6. EnrollHolds(next)
      BY <2>2, <2>3, <2>5 DEF EnrollHolds
    <2> QED
      BY <1>4, <2>4, <2>6
  <1>10. ASSUME NEW k \in Clients, NEW p \in Learners, NEW e \in Enrollments,
                BeginCompleteMine(k, p, e)
         PROVE  EnrollInv'
    <2>1. PICK next: next = [at |-> "complete", enrollment |-> e]
      OBVIOUS
    <2>2. EnrollHolds(next)
      BY <2>1 DEF EnrollHolds
    <2> QED
      BY <1>4, <1>10, <2>1, <2>2 DEF BeginCompleteMine, academyVars
  <1>11. ASSUME NEW k \in Clients, Return(k), call[k] # Idle
         PROVE  OneCall' /\ \A d \in Clients: call'[d] = Idle
    BY <1>1, <1>11, AloneOrNone DEF Return
  <1>12. ASSUME NEW k \in Clients, InsertEnrollment(k)
         PROVE  EnrollInv'
    <2>1. PICK e \in Enrollments: e = CHOOSE d \in Enrollments: ~enrollment[d].exists
      BY <1>12 DEF InsertEnrollment
    <2>2. PICK row: row = NewRow(call[k])
      OBVIOUS
    <2>3. /\ call[k].at = "enroll" /\ row \in EnrollmentRow /\ Return(k)
          /\ enrollment' = [enrollment EXCEPT ![e] = row]
          /\ \A d \in Enrollments: LiveEnrollment(d) => ~SameAs(d, call[k])
      BY <1>1, <1>12, <2>1, <2>2 DEF InsertEnrollment, EnrollHolds, NewRow
    <2>4. \A d \in Enrollments: SameAs(d, row) <=> SameAs(d, call[k])
      BY <2>2 DEF SameAs, NewRow
    <2>5. OneCall' /\ \A d \in Clients: call'[d] = Idle
      BY <1>11, <2>3 DEF Idle
    <2> QED
      BY <2>3, <2>4, <2>5, EnrollmentSaved
  <1>13. ASSUME NEW e \in Enrollments, NEW row \in EnrollmentRow,
                enrollment' = [enrollment EXCEPT ![e] = row],
                row.exists = enrollment[e].exists, ~row.deleted => ~enrollment[e].deleted,
                row.employee = enrollment[e].employee, row.user = enrollment[e].user,
                row.session = enrollment[e].session, row.course = enrollment[e].course,
                OneCall', \A d \in Clients: call'[d] = Idle
         PROVE  EnrollInv'
    <2>1. row.exists /\ ~row.deleted => LiveEnrollment(e)
      BY <1>13 DEF LiveEnrollment
    <2> QED
      BY <1>13, <2>1, EnrollmentSaved
  <1>14. ASSUME NEW k \in Clients, CompleteMine(k)
         PROVE  EnrollInv'
    <2>1. PICK e \in Enrollments: e = call[k].enrollment
      BY <1>1, <1>14 DEF CompleteMine, EnrollHolds
    <2>2. enrollment[e] \in EnrollmentRow
      BY <1>2
    <2>3. PICK reached \in EnrollmentStatuses: reached = "completed"
      BY DEF EnrollmentStatuses
    <2>4. PICK row: row = [enrollment[e] EXCEPT !.status = reached]
      OBVIOUS
    <2>5. /\ row \in EnrollmentRow /\ row.exists = enrollment[e].exists
          /\ row.deleted = enrollment[e].deleted
          /\ row.employee = enrollment[e].employee /\ row.user = enrollment[e].user
          /\ row.session = enrollment[e].session /\ row.course = enrollment[e].course
      BY ONLY <2>2, <2>4, reached \in EnrollmentStatuses DEF EnrollmentRow
    <2>6. /\ enrollment' = [enrollment EXCEPT ![e] = row]
          /\ Return(k) /\ call[k] # Idle
      BY <1>14, <2>1, <2>3, <2>4 DEF CompleteMine, Idle
    <2>7. OneCall' /\ \A d \in Clients: call'[d] = Idle
      BY <1>11, <2>6
    <2> QED
      BY <1>13, <2>5, <2>6, <2>7
  <1>15. ASSUME Quiet, UNCHANGED call
         PROVE  OneCall' /\ \A d \in Clients: call'[d] = Idle
    BY <1>1, <1>15 DEF OneCall, Quiet
  <1>16. ASSUME NEW e \in Enrollments, NEW reached \in SentStatuses, UpdateEnrollment(e, reached)
         PROVE  EnrollInv'
    <2>1. reached \in EnrollmentStatuses
      BY AcademyAssumption
    <2>2. enrollment[e] \in EnrollmentRow
      BY <1>2
    <2>3. PICK row: row = [enrollment[e] EXCEPT !.status = reached]
      OBVIOUS
    <2>4. /\ row \in EnrollmentRow /\ row.exists = enrollment[e].exists
          /\ row.deleted = enrollment[e].deleted
          /\ row.employee = enrollment[e].employee /\ row.user = enrollment[e].user
          /\ row.session = enrollment[e].session /\ row.course = enrollment[e].course
      BY ONLY <2>1, <2>2, <2>3 DEF EnrollmentRow
    <2>5. enrollment' = [enrollment EXCEPT ![e] = row] /\ Quiet /\ UNCHANGED call
      BY <1>16, <2>3 DEF UpdateEnrollment, MayRun
    <2> QED
      BY <1>13, <1>15, <2>4, <2>5
  <1>17. ASSUME NEW e \in Enrollments, DeleteEnrollment(e)
         PROVE  EnrollInv'
    <2>1. PICK reached \in EnrollmentStatuses: reached = "cancelled"
      BY DEF EnrollmentStatuses
    <2>2. enrollment[e] \in EnrollmentRow
      BY <1>2
    <2>3. PICK row: row = [enrollment[e] EXCEPT !.deleted = TRUE, !.status = reached]
      OBVIOUS
    <2>4. /\ row \in EnrollmentRow /\ row.exists = enrollment[e].exists /\ row.deleted
          /\ row.employee = enrollment[e].employee /\ row.user = enrollment[e].user
          /\ row.session = enrollment[e].session /\ row.course = enrollment[e].course
      BY ONLY <2>1, <2>2, <2>3 DEF EnrollmentRow
    <2>5. enrollment' = [enrollment EXCEPT ![e] = row] /\ Quiet /\ UNCHANGED call
      <3>1. enrollment' = [[enrollment EXCEPT ![e].deleted = TRUE] EXCEPT ![e].status = "cancelled"]
        BY <1>17 DEF DeleteEnrollment
      <3>2. enrollment' = [enrollment EXCEPT ![e] = row]
        BY <1>2, <2>1, <2>3, <3>1
      <3> QED
        BY <1>17, <3>2 DEF DeleteEnrollment, MayRun
    <2> QED
      BY <1>13, <1>15, <2>4, <2>5
  <1> QED
    BY <1>5, <1>6, <1>7, <1>8, <1>9, <1>10, <1>12, <1>14, <1>16, <1>17
       DEF AcademyNext, AcademyEndpoints
-----------------------------------------------------------------------------
(* Payments of salaries *)

Planned(employee, month, date) ==
  \E i \in DOMAIN payments: /\ payments[i].employee = employee
                            /\ payments[i].month = month /\ payments[i].day = date

\* what a generation has looked up: a date of the month on which the employee is not paid yet
PaymentHolds(row) ==
  /\ row.at \in {"generate", "insert"} => /\ row.month \in Months /\ row.todo \subseteq Schedules
                                          /\ row.of \in [Staff -> Amounts \cup {0}]
  /\ row.at = "insert" => /\ row.schedule \in Schedules /\ row.day \in 1..LastDayOf[row.month]
                          /\ ~Planned(OfEmployee[row.schedule], row.month, row.day)
  /\ row.at = "raise" => row.employee \in Staff /\ row.amount \in Amounts

PaymentInv ==
  /\ schedule \in [Schedules -> ScheduleRow]
  /\ payments \in Seq(PaymentRow)
  /\ salary \in [Staff -> Amounts \cup {0}]
  /\ OnePaymentPerDate
  /\ focus = "payroll" => OneCall /\ \A c \in Clients: PaymentHolds(call[c])

LEMMA IdlePaysNobody == PaymentHolds(Idle)
  BY Zenon DEF PaymentHolds, Idle

\* A call is alone, and what it has looked up is about payments a step leaves as they are.
LEMMA PaymentsStand ==
  ASSUME PaymentInv, UNCHANGED <<payments, focus>>,
         (schedule \in [Schedules -> ScheduleRow])',
         (salary \in [Staff -> Amounts \cup {0}])',
         OneCall', \A c \in Clients: PaymentHolds(call'[c])
  PROVE  PaymentInv'
  <1>1. ASSUME NEW c \in Clients, NEW row, row = call'[c], PaymentHolds(row)
        PROVE  PaymentHolds(call[c])'
    BY <1>1 DEF PaymentHolds, Planned
  <1>2. \A c \in Clients: PaymentHolds(call[c])'
    BY <1>1
  <1>3. OnePaymentPerDate' /\ (payments \in Seq(PaymentRow))'
    BY DEF PaymentInv, OnePaymentPerDate
  <1> QED
    BY <1>2, <1>3 DEF PaymentInv

LEMMA PayrollStepKeeps ==
  ASSUME "payroll" \notin Overlapping, PaymentInv, focus = "payroll", PayrollNext, UNCHANGED focus
  PROVE  PaymentInv'
  <1>1. OneCall /\ \A c \in Clients: PaymentHolds(call[c])
    BY DEF PaymentInv
  <1>2. /\ \A s \in Schedules: schedule[s] \in ScheduleRow
        /\ salary \in [Staff -> Amounts \cup {0}]
    BY DEF PaymentInv
  <1>3. ASSUME NEW c \in Clients, NEW next, Goto(c, next), Quiet \/ call[c] # Idle
        PROVE  OneCall' /\ call'[c] = next /\ \A d \in Clients \ {c}: call'[d] = Idle
    BY <1>1, <1>3, AloneOrNone
  <1>4. ASSUME NEW c \in Clients, NEW next, Goto(c, next), Quiet \/ call[c] # Idle,
               PaymentHolds(next), UNCHANGED <<schedule, payments>>,
               (salary \in [Staff -> Amounts \cup {0}])'
        PROVE  PaymentInv'
    <2>1. OneCall' /\ call'[c] = next /\ \A d \in Clients \ {c}: call'[d] = Idle
      BY <1>3, <1>4
    <2>2. (schedule \in [Schedules -> ScheduleRow])'
      BY <1>4 DEF PaymentInv
    <2> QED
      BY <1>4, <2>1, <2>2, IdlePaysNobody, PaymentsStand
  <1>5. ASSUME NEW s \in Schedules, NEW row \in ScheduleRow,
               schedule' = [schedule EXCEPT ![s] = row], UNCHANGED <<payments, salary, call>>
        PROVE  PaymentInv'
    <2>1. (schedule \in [Schedules -> ScheduleRow])' /\ (salary \in [Staff -> Amounts \cup {0}])'
      BY <1>2, <1>5 DEF PaymentInv
    <2>2. OneCall' /\ \A c \in Clients: PaymentHolds(call'[c])
      BY <1>1, <1>5 DEF OneCall
    <2> QED
      BY <1>5, <2>1, <2>2, PaymentsStand
  <1>6. ASSUME NEW s \in Schedules, NEW date \in PayDays, CreateSchedule(s, date)
        PROVE  PaymentInv'
    <2>1. ASSUME NEW x \in Schedules
          PROVE  [schedule[x] EXCEPT !.active = FALSE] \in ScheduleRow
      <3>1. schedule[x] \in ScheduleRow
        BY <1>2
      <3> QED
        BY ONLY <3>1 DEF ScheduleRow
    <2>2. [exists |-> TRUE, active |-> TRUE, deleted |-> FALSE, payDay |-> date] \in ScheduleRow
      BY DEF ScheduleRow
    <2>3. (schedule \in [Schedules -> ScheduleRow])'
      BY <1>2, <1>6, <2>1, <2>2, Zenon DEF CreateSchedule
    <2>4. UNCHANGED <<payments, salary, call>>
      BY <1>6, Zenon DEF CreateSchedule
    <2>5. OneCall' /\ \A c \in Clients: PaymentHolds(call'[c])
      BY <1>1, <2>4 DEF OneCall
    <2> QED
      BY <1>2, <2>3, <2>4, <2>5, PaymentsStand
  <1>7. ASSUME NEW s \in Schedules, NEW date \in PayDays, NEW active \in BOOLEAN,
               UpdateSchedule(s, date, active)
        PROVE  PaymentInv'
    <2>1. schedule[s] \in ScheduleRow
      BY <1>2
    <2>2. PICK row: row = [schedule[s] EXCEPT !.payDay = date, !.active = active]
      OBVIOUS
    <2>3. row \in ScheduleRow
      BY ONLY <2>1, <2>2, date \in PayDays, active \in BOOLEAN DEF ScheduleRow
    <2>4. schedule' = [schedule EXCEPT ![s] = row] /\ UNCHANGED <<payments, salary, call>>
      BY <1>2, <1>7, <2>2 DEF UpdateSchedule, PaymentInv
    <2> QED
      BY <1>5, <2>3, <2>4
  <1>8. ASSUME NEW s \in Schedules, DeleteSchedule(s)
        PROVE  PaymentInv'
    <2>1. schedule[s] \in ScheduleRow
      BY <1>2
    <2>2. PICK row: row = [schedule[s] EXCEPT !.deleted = TRUE, !.active = FALSE]
      OBVIOUS
    <2>3. row \in ScheduleRow
      BY ONLY <2>1, <2>2 DEF ScheduleRow
    <2>4. schedule' = [schedule EXCEPT ![s] = row] /\ UNCHANGED <<payments, salary, call>>
      BY <1>2, <1>8, <2>2 DEF DeleteSchedule, PaymentInv
    <2> QED
      BY <1>5, <2>3, <2>4
  <1>9. ASSUME NEW c \in Clients, NEW m \in Months, BeginGenerate(c, m)
        PROVE  PaymentInv'
    <2>1. PICK todo: todo = {s \in Schedules: schedule[s].exists /\ schedule[s].active}
      OBVIOUS
    <2>2. PICK next: next = [at |-> "generate", month |-> m, of |-> salary, todo |-> todo]
      OBVIOUS
    <2>3. PaymentHolds(next)
      BY <1>2, <2>1, <2>2 DEF PaymentHolds
    <2>4. Goto(c, next) /\ Quiet /\ UNCHANGED <<schedule, payments, salary>>
      BY <1>9, <2>1, <2>2 DEF BeginGenerate, MayStart, MayRun, payrollVars
    <2> QED
      BY <1>2, <1>4, <2>3, <2>4
  <1>10. ASSUME NEW c \in Clients, NEW s \in Schedules, LookForPayment(c, s)
         PROVE  PaymentInv'
    <2>1. PICK m \in Months: m = call[c].month
      BY <1>1, <1>10 DEF LookForPayment, PaymentHolds
    <2>2. PICK rest: rest = [at |-> "generate", month |-> m, of |-> call[c].of,
                             todo |-> call[c].todo \ {s}]
      OBVIOUS
    <2>3. PICK date: date = PayDay(s, m)
      OBVIOUS
    <2>4. PICK next: next = [at |-> "insert", month |-> m, of |-> call[c].of, todo |-> rest.todo,
                             schedule |-> s, day |-> date]
      OBVIOUS
    <2>5. /\ call[c].at = "generate" /\ UNCHANGED <<schedule, payments, salary>>
          /\ IF AlreadyPlanned(s, m, date) THEN Goto(c, rest) ELSE Goto(c, next)
      BY <1>10, <2>1, <2>2, <2>3, <2>4 DEF LookForPayment, payrollVars
    <2>6. PaymentHolds(rest)
      BY <1>1, <2>1, <2>2, <2>5 DEF PaymentHolds
    <2>7. CASE AlreadyPlanned(s, m, date)
      BY <1>2, <1>4, <2>5, <2>6, <2>7 DEF Idle
    <2>8. CASE ~AlreadyPlanned(s, m, date)
      <3>1. schedule[s].payDay \in Nat \ {0} /\ LastDayOf[m] \in Nat \ {0}
        BY <1>2, PayrollAssumption DEF ScheduleRow, Months
      <3>2. date \in 1..LastDayOf[m]
        BY <2>3, <3>1 DEF PayDay
      <3>3. ~Planned(OfEmployee[s], m, date)
        BY <2>8 DEF AlreadyPlanned, Planned
      <3>4. PaymentHolds(next)
        BY <1>1, <2>1, <2>2, <2>4, <2>5, <3>2, <3>3 DEF PaymentHolds
      <3> QED
        BY <1>2, <1>4, <2>5, <2>8, <3>4 DEF Idle
    <2> QED
      BY <2>7, <2>8
  <1>11. ASSUME NEW c \in Clients, InsertPayment(c)
         PROVE  PaymentInv'
    <2>1. PICK e \in Staff: e = OfEmployee[call[c].schedule]
      BY <1>1, <1>11, PayrollAssumption DEF InsertPayment, PaymentHolds
    <2>2. /\ call[c].at = "insert" /\ call[c].month \in Months
          /\ LastDayOf[call[c].month] \in Nat
          /\ call[c].day \in 1..LastDayOf[call[c].month]
          /\ call[c].of[e] \in Amounts \cup {0}
          /\ ~Planned(e, call[c].month, call[c].day)
      BY <1>1, <1>11, <2>1, PayrollAssumption DEF InsertPayment, PaymentHolds, Months
    <2>3. PICK paid: paid = [employee |-> e, month |-> call[c].month, day |-> call[c].day,
                             amount |-> call[c].of[e], status |-> "scheduled"]
      OBVIOUS
    <2>4. paid \in PaymentRow
      BY <2>2, <2>3 DEF PaymentRow
    <2>5. PICK next: next = [at |-> "generate", month |-> call[c].month, of |-> call[c].of,
                             todo |-> call[c].todo]
      OBVIOUS
    <2>6. /\ payments' = Append(payments, paid) /\ Goto(c, next)
          /\ UNCHANGED <<schedule, salary>>
      BY <1>11, <2>1, <2>3, <2>5 DEF InsertPayment
    <2>7. /\ payments' \in Seq(PaymentRow) /\ DOMAIN payments' = 1..Len(payments) + 1
          /\ payments'[Len(payments) + 1] = paid
          /\ \A i \in 1..Len(payments): payments'[i] = payments[i]
      BY <2>4, <2>6 DEF PaymentInv
    <2>8. DOMAIN payments = 1..Len(payments) /\ Len(payments) \in Nat
      BY DEF PaymentInv
    <2>9. OnePaymentPerDate'
      <3>1. \A i \in DOMAIN payments:
              <<payments[i].employee, payments[i].month, payments[i].day>>
                # <<paid.employee, paid.month, paid.day>>
        BY <2>2, <2>3 DEF Planned
      <3>2. paid.day \in 1..LastDayOf[paid.month]
        BY <2>2, <2>3
      <3> QED
        BY <2>7, <2>8, <3>1, <3>2 DEF PaymentInv, OnePaymentPerDate
    <2>10. OneCall' /\ call'[c] = next /\ \A d \in Clients \ {c}: call'[d] = Idle
      BY <1>3, <2>2, <2>6 DEF Idle
    <2>11. next.at = "generate" /\ PaymentHolds(next)
      BY <1>1, <2>2, <2>5 DEF PaymentHolds
    <2>12. ASSUME NEW d \in Clients
           PROVE  PaymentHolds(call[d])'
      <3>1. CASE d = c
        BY <2>10, <2>11, <3>1 DEF PaymentHolds
      <3>2. CASE d # c
        <4>1. call'[d].at = "idle"
          BY <2>10, <3>2 DEF Idle
        <4> QED
          BY <4>1, Zenon DEF PaymentHolds
      <3> QED
        BY <3>1, <3>2
    <2> QED
      BY <2>6, <2>7, <2>9, <2>10, <2>12 DEF PaymentInv
  <1>12. ASSUME NEW c \in Clients, EndGenerate(c)
         PROVE  PaymentInv'
    <2>1. Goto(c, Idle) /\ call[c] # Idle /\ UNCHANGED <<schedule, payments, salary>>
      BY <1>12 DEF EndGenerate, Return, Idle, payrollVars
    <2> QED
      BY <1>2, <1>4, <2>1, IdlePaysNobody
  <1>13. ASSUME NEW i \in DOMAIN payments, MarkPaymentPaid(i)
         PROVE  PaymentInv'
    <2>1. i \in 1..Len(payments) /\ payments[i] \in PaymentRow
      BY DEF PaymentInv
    <2>2. PICK row: row = [payments[i] EXCEPT !.status = "paid"]
      OBVIOUS
    <2>3. /\ row \in PaymentRow /\ row.employee = payments[i].employee
          /\ row.month = payments[i].month /\ row.day = payments[i].day
      BY ONLY <2>1, <2>2 DEF PaymentRow
    <2>4. /\ payments' = [payments EXCEPT ![i] = row] /\ Quiet
          /\ UNCHANGED <<schedule, salary, call>>
      BY <1>13, <2>2 DEF MarkPaymentPaid, MayRun
    <2>5. payments' \in Seq(PaymentRow) /\ DOMAIN payments' = DOMAIN payments
      BY <2>1, <2>3, <2>4 DEF PaymentInv
    <2>6. \A j \in DOMAIN payments: /\ payments'[j].employee = payments[j].employee
                                    /\ payments'[j].month = payments[j].month
                                    /\ payments'[j].day = payments[j].day
      BY <2>3, <2>4 DEF PaymentInv
    <2>7. OnePaymentPerDate'
      BY <2>5, <2>6 DEF PaymentInv, OnePaymentPerDate
    <2>8. OneCall'
      BY <1>1, <2>4 DEF OneCall
    <2>9. ASSUME NEW d \in Clients
          PROVE  PaymentHolds(call[d])'
      <3>1. call'[d].at = "idle"
        BY <2>4 DEF Quiet, Idle
      <3> QED
        BY <3>1, Zenon DEF PaymentHolds
    <2> QED
      BY <2>4, <2>5, <2>7, <2>8, <2>9 DEF PaymentInv
  <1>14. ASSUME NEW c \in Clients, NEW e \in Staff, NEW amount \in Amounts,
                BeginRaise(c, e, amount)
         PROVE  PaymentInv'
    <2>1. PICK next: next = [at |-> "raise", employee |-> e, amount |-> amount]
      OBVIOUS
    <2>2. PaymentHolds(next)
      BY <2>1 DEF PaymentHolds
    <2>3. MayStart(c, "payroll") /\ Goto(c, next) /\ UNCHANGED <<schedule, payments, salary>>
      BY <1>14, <2>1, Zenon DEF BeginRaise
    <2>4. Quiet
      BY <2>3 DEF MayStart, MayRun
    <2> QED
      BY <1>2, <1>4, <2>2, <2>3, <2>4
  <1>15. ASSUME NEW c \in Clients, FinishRaise(c)
         PROVE  PaymentInv'
    <2>1. call[c].at = "raise" /\ call[c].employee \in Staff /\ call[c].amount \in Amounts
      BY <1>1, <1>15 DEF FinishRaise, PaymentHolds
    <2>2. /\ Goto(c, Idle) /\ UNCHANGED <<schedule, payments>>
          /\ salary' = [salary EXCEPT ![call[c].employee] = call[c].amount]
      BY <1>15 DEF FinishRaise, Return
    <2>3. (salary \in [Staff -> Amounts \cup {0}])'
      BY <1>2, <2>1, <2>2
    <2>4. call[c] # Idle
      BY <2>1 DEF Idle
    <2> QED
      BY <1>4, <2>2, <2>3, <2>4, IdlePaysNobody
  <1>16. ASSUME NEW i \in DOMAIN entries,
                \/ \E amount \in Amounts, open \in BOOLEAN: UpdateEntry(i, amount, open)
                \/ DeleteEntry(i)
         PROVE  PaymentInv'
    <2>1. UNCHANGED <<schedule, payments, salary, call>>
      BY <1>16, Zenon DEF UpdateEntry, DeleteEntry
    <2>2. (schedule \in [Schedules -> ScheduleRow])' /\ (salary \in [Staff -> Amounts \cup {0}])'
      BY <2>1 DEF PaymentInv
    <2>3. OneCall' /\ \A c \in Clients: PaymentHolds(call'[c])
      BY <1>1, <2>1 DEF OneCall
    <2> QED
      BY <2>1, <2>2, <2>3, PaymentsStand
  <1> QED
    BY <1>6, <1>7, <1>8, <1>9, <1>10, <1>11, <1>12, <1>13, <1>14, <1>15, <1>16 DEF PayrollNext
-----------------------------------------------------------------------------
\* Whatever was deleted, revoked, replaced and revived before, calls made one after the
\* other leave no two live enrolments of a learner in one place (but for one more of an
\* employee that an administrator made under her account), no two payments of an employee on
\* a date, and no two default libraries.
THEOREM NoSecondOne ==
  ASSUME "academy" \notin Overlapping, "payroll" \notin Overlapping
  PROVE  OfficeSpec => []NoTwoOfOne
  <1> DEFINE Inv == EnrollInv /\ PaymentInv /\ LibrariesInv
  <1>1. OfficeInit => Inv
    <2> SUFFICES ASSUME OfficeInit
                 PROVE  Inv
      OBVIOUS
    <2>1. OneCall /\ \A c \in Clients: call[c].at = "idle"
      BY IdleFirst
    <2>2. EnrollInv
      <3>2. PICK row: row = [exists |-> FALSE, deleted |-> FALSE, course |-> "none",
                             session |-> "none", employee |-> Nobody, user |-> Nobody,
                             status |-> "enrolled"]
        OBVIOUS
      <3>3. row \in EnrollmentRow /\ ~row.exists
        BY ONLY <3>2 DEF EnrollmentRow, EnrollmentStatuses, CoursesOrNone
      <3>4. enrollment = [e \in Enrollments |-> row]
        BY <3>2 DEF OfficeInit, AcademyInit
      <3>5. OnePlacePerIds
        BY <3>3, <3>4 DEF OnePlacePerIds, LiveEnrollment
      <3>6. \A k \in Clients: EnrollHolds(call[k])
        BY <2>1, Zenon DEF EnrollHolds
      <3> QED
        BY <2>1, <3>3, <3>4, <3>5, <3>6 DEF EnrollInv
    <2>3. PaymentInv
      <3>1. PICK date \in PayDays: date = CHOOSE d \in PayDays: TRUE
        BY PayrollAssumption
      <3>2. schedule \in [Schedules -> ScheduleRow]
        BY <3>1 DEF OfficeInit, PayrollInit, ScheduleRow
      <3>3. payments \in Seq(PaymentRow) /\ salary \in [Staff -> Amounts \cup {0}]
            /\ OnePaymentPerDate
        BY DEF OfficeInit, PayrollInit, OnePaymentPerDate
      <3>4. \A c \in Clients: PaymentHolds(call[c])
        BY <2>1, Zenon DEF PaymentHolds
      <3> QED
        BY <2>1, <3>2, <3>3, <3>4 DEF PaymentInv
    <2>4. LibrariesInv
      <3>1. library = [l \in Libraries |-> NoRow]
        BY DEF OfficeInit, LibraryInit
      <3>2. library \in [Libraries -> LibraryRow \cup {NoRow}] /\ OneDefaultLibrary
        BY ONLY <3>1, Zenon DEF OneDefaultLibrary, Found
      <3> QED
        BY <3>2 DEF LibrariesInv
    <2> QED
      BY <2>2, <2>3, <2>4
  <1>2. Inv /\ [OfficeNext]_<<officeVars, call, focus>> => Inv'
    <2> SUFFICES ASSUME Inv, [OfficeNext]_<<officeVars, call, focus>>
                 PROVE  Inv'
      OBVIOUS
    <2>1. EnrollInv'
      <3>1. \/ focus = "academy" /\ AcademyNext /\ UNCHANGED focus
            \/ UNCHANGED <<enrollment, focus>> /\ (focus # "academy" \/ UNCHANGED call)
        BY DEF OfficeNext, officeVars, academyVars
      <3>2. CASE UNCHANGED <<enrollment, focus>> /\ focus # "academy"
        BY <3>2 DEF EnrollInv, OnePlacePerIds, LiveEnrollment, SameIds, SamePlace
      <3>3. CASE UNCHANGED <<enrollment, focus>> /\ UNCHANGED call /\ focus = "academy"
        BY <3>3, EnrollmentsStand DEF EnrollInv, OneCall
      <3> QED
        BY <3>1, <3>2, <3>3, AcademyStepKeeps
    <2>2. PaymentInv'
      <3>1. \/ focus = "payroll" /\ PayrollNext /\ UNCHANGED focus
            \/ UNCHANGED <<schedule, payments, salary, focus>>
               /\ (focus # "payroll" \/ UNCHANGED call)
        BY DEF OfficeNext, officeVars, payrollVars
      <3>2. CASE UNCHANGED <<schedule, payments, salary, focus>> /\ focus # "payroll"
        BY <3>2 DEF PaymentInv, OnePaymentPerDate
      <3>3. CASE UNCHANGED <<schedule, payments, salary, focus>> /\ UNCHANGED call
                 /\ focus = "payroll"
        <4>1. OneCall' /\ \A c \in Clients: PaymentHolds(call'[c])
          BY <3>3 DEF PaymentInv, OneCall
        <4>2. /\ (schedule \in [Schedules -> ScheduleRow])'
              /\ (salary \in [Staff -> Amounts \cup {0}])'
          BY <3>3 DEF PaymentInv
        <4> QED
          BY <3>3, <4>1, <4>2, PaymentsStand
      <3> QED
        BY <3>1, <3>2, <3>3, PayrollStepKeeps
    <2>3. LibrariesInv'
      <3>1. LibraryNext \/ UNCHANGED libraryVars
        BY DEF OfficeNext, officeVars
      <3>2. CASE UNCHANGED libraryVars
        BY <3>2 DEF libraryVars, LibrariesInv, OneDefaultLibrary
      <3> QED
        BY <3>1, <3>2, LibraryStepKeeps
    <2> QED
      BY <2>1, <2>2, <2>3
  <1>3. Inv => NoTwoOfOne
    BY OnePlaceForEachLearner DEF EnrollInv, PaymentInv, LibrariesInv, NoTwoOfOne
  <1> QED
    BY <1>1, <1>2, <1>3, PTL DEF OfficeSpec
-----------------------------------------------------------------------------
(* Progress of a project *)

Recounted == progress = WeightedAverage(LiveTasks)

\* what a call is about to write is the average of the tasks as they are
Averaged(row) == row.at = "write_project" => row.progress = WeightedAverage(LiveTasks)

ProgressInv ==
  IF focus = "progress" THEN OneCall /\ \A c \in Clients: Averaged(call[c])
  ELSE Recounted

LEMMA AverageStands ==
  UNCHANGED <<task, subtask>> =>
    WeightedAverage(LiveTasks)' = WeightedAverage(LiveTasks)
  BY DEF WeightedAverage, Weight, LiveTasks, LiveSubtasks

\* A step of the component: a call goes on, or its last write is of the average.
LEMMA ProgressSteps ==
  ASSUME "progress" \notin Overlapping, ProgressInv, focus = "progress", ProgressNext
  PROVE  \E c \in Clients: \E next:
           /\ Goto(c, next) /\ (Quiet \/ call[c] # Idle)
           /\ \/ next.at \in {"average", "count", "write_task", "commit"}
              \/ next.at = "write_project" /\ next.progress = WeightedAverage(LiveTasks)'
              \/ next = Idle /\ (call[c].at = "commit" \/ Recounted')
  <1>1. OneCall /\ \A c \in Clients: Averaged(call[c])
    BY DEF ProgressInv
  <1>2. \A c \in Clients: MayStart(c, "progress") => Quiet
    BY DEF MayStart, MayRun
  <1>3. ASSUME NEW c \in Clients, NEW t \in ProgressTasks,
               \/ (\E p: CreateTask(c, t, p)) \/ (\E p: UpdateTask(c, t, p))
               \/ ValidateTaskProgress(c, t) \/ DeleteTask(c, t)
        PROVE  \E next: Goto(c, next) /\ Quiet /\ next.at = "average"
    <2>1. PICK given: given \in {"no", t} /\ MayStart(c, "progress")
                      /\ Goto(c, [at |-> "average", deletes |-> given])
      BY <1>3, Zenon DEF CreateTask, UpdateTask, ValidateTaskProgress, DeleteTask
    <2>2. PICK next: next = [at |-> "average", deletes |-> given]
      OBVIOUS
    <2> QED
      BY <1>2, <2>1, <2>2
  <1>4. ASSUME NEW c \in Clients, NEW s \in Subtasks,
               \/ (\E t: CreateSubtask(c, s, t)) \/ (\E done: UpdateSubtask(c, s, done))
               \/ DeleteSubtask(c, s)
        PROVE  \E next: Goto(c, next) /\ Quiet /\ next.at = "count"
    <2>1. PICK t: MayStart(c, "progress") /\ Goto(c, [at |-> "count", task |-> t])
      BY <1>4, Zenon DEF CreateSubtask, UpdateSubtask, DeleteSubtask
    <2>2. PICK next: next = [at |-> "count", task |-> t]
      OBVIOUS
    <2> QED
      BY <1>2, <2>1, <2>2
  <1>5. ASSUME NEW c \in Clients, CountSubtasks(c) \/ WriteTaskProgress(c)
        PROVE  \E next: Goto(c, next) /\ call[c] # Idle /\ next.at \in {"write_task", "average"}
    <2>1. CASE CountSubtasks(c)
      <3>1. PICK next: next = [at |-> "write_task", task |-> call[c].task,
                               progress |-> SubtaskCount(call[c].task)]
        OBVIOUS
      <3> QED
        BY <2>1, <3>1 DEF CountSubtasks, Idle
    <2>2. CASE WriteTaskProgress(c)
      <3>1. PICK next: next = [at |-> "average", deletes |-> "no"]
        OBVIOUS
      <3> QED
        BY <2>2, <3>1 DEF WriteTaskProgress, Idle
    <2> QED
      BY <1>5, <2>1, <2>2
  <1>6. ASSUME NEW c \in Clients, AverageTasks(c)
        PROVE  \E next: /\ Goto(c, next) /\ call[c] # Idle
                        /\ next.at = "write_project" /\ next.progress = WeightedAverage(LiveTasks)'
    <2>1. PICK average: average = WeightedAverage(LiveTasks)
      OBVIOUS
    <2>2. PICK next: next = [at |-> "write_project", progress |-> average,
                             deletes |-> call[c].deletes]
      OBVIOUS
    <2>3. Goto(c, next) /\ call[c] # Idle /\ UNCHANGED <<task, subtask>>
      BY <1>6, <2>1, <2>2 DEF AverageTasks, progVars, Idle
    <2>4. average = WeightedAverage(LiveTasks)'
      BY <2>1, <2>3, AverageStands
    <2> QED
      BY <2>2, <2>3, <2>4
  <1>7. ASSUME NEW c \in Clients, WriteProjectProgress(c)
        PROVE  \E next: /\ Goto(c, next) /\ call[c] # Idle
                        /\ next.at = "commit" \/ (next = Idle /\ Recounted')
    <2>1. progress' = WeightedAverage(LiveTasks) /\ call[c] # Idle /\ UNCHANGED <<task, subtask>>
      BY <1>1, <1>7 DEF WriteProjectProgress, Averaged, Idle
    <2>2. Recounted'
      BY <2>1, AverageStands DEF Recounted
    <2>3. CASE call[c].deletes = "no"
      BY <1>7, <2>1, <2>2, <2>3 DEF WriteProjectProgress, Return
    <2>4. CASE call[c].deletes # "no"
      <3>1. PICK next: next = [at |-> "commit", deletes |-> call[c].deletes]
        OBVIOUS
      <3> QED
        BY <1>7, <2>1, <2>4, <3>1 DEF WriteProjectProgress
    <2> QED
      BY <2>3, <2>4
  <1>8. ASSUME NEW c \in Clients, CommitDeletion(c)
        PROVE  Goto(c, Idle) /\ call[c] # Idle /\ call[c].at = "commit"
    BY <1>8 DEF CommitDeletion, Return, Idle
  <1>9. PICK c \in Clients:
          \/ \E t \in ProgressTasks: \/ (\E p: CreateTask(c, t, p)) \/ (\E p: UpdateTask(c, t, p))
                                     \/ ValidateTaskProgress(c, t) \/ DeleteTask(c, t)
          \/ \E s \in Subtasks: \/ (\E t: CreateSubtask(c, s, t))
                                \/ (\E done: UpdateSubtask(c, s, done))
                                \/ DeleteSubtask(c, s)
          \/ CountSubtasks(c) \/ WriteTaskProgress(c) \/ AverageTasks(c)
          \/ WriteProjectProgress(c) \/ CommitDeletion(c)
    BY Zenon DEF ProgressNext
  <1> QED
    BY <1>3, <1>4, <1>5, <1>6, <1>7, <1>8, <1>9
\* Made one after the other, every call but a deletion returns with the project at the
\* average of its live tasks, each weighted by its live subtasks, whichever handler it came
\* through and whatever was given by hand or deleted before; for any tasks and subtasks.
THEOREM ProjectsRecounted ==
  ASSUME "progress" \notin Overlapping
  PROVE  OfficeSpec => ReturnsRecounted
  <1>1. OfficeInit => ProgressInv
    <2> SUFFICES ASSUME OfficeInit
                 PROVE  ProgressInv
      OBVIOUS
    <2>1. LiveTasks = {}
      <3>1. task = [t \in ProgressTasks |-> [life |-> "none", progress |-> 0]]
        BY DEF OfficeInit, ProgressInit
      <3> QED
        BY <3>1 DEF LiveTasks
    <2>2. Recounted
      BY <2>1 DEF OfficeInit, ProgressInit, Recounted, WeightedAverage
    <2>3. OneCall /\ \A c \in Clients: call[c].at = "idle"
      BY IdleFirst
    <2> QED
      BY <2>2, <2>3, Zenon DEF ProgressInv, Averaged
  <1>2. ASSUME ProgressInv, [OfficeNext]_<<officeVars, call, focus>>
        PROVE  /\ ProgressInv'
               /\ [(\A c \in Clients: call[c].at # "commit" /\ call[c]' = Idle)
                     => progress' = WeightedAverage(LiveTasks)']_<<progVars, call>>
    <2> DEFINE Ending == \A c \in Clients: call[c].at # "commit" /\ call[c]' = Idle
    <2>1. \/ focus = "progress" /\ ProgressNext /\ UNCHANGED focus
          \/ UNCHANGED <<progVars, focus>> /\ (focus # "progress" \/ UNCHANGED call)
      BY <1>2 DEF OfficeNext, officeVars
    <2>2. CASE UNCHANGED <<progVars, focus>> /\ (focus # "progress" \/ UNCHANGED call)
      <3>1. WeightedAverage(LiveTasks)' = WeightedAverage(LiveTasks) /\ progress' = progress
        BY <2>2, AverageStands DEF progVars
      <3>2. CASE focus # "progress"
        BY <1>2, <2>2, <3>1, <3>2 DEF ProgressInv, Recounted
      <3>3. CASE focus = "progress"
        BY <1>2, <2>2, <3>1, <3>3 DEF ProgressInv, OneCall, Averaged, progVars
      <3> QED
        BY <3>2, <3>3
    <2>3. CASE focus = "progress" /\ ProgressNext /\ UNCHANGED focus
      <3>1. PICK c \in Clients: \E next:
              /\ Goto(c, next) /\ (Quiet \/ call[c] # Idle)
              /\ \/ next.at \in {"average", "count", "write_task", "commit"}
                 \/ next.at = "write_project" /\ next.progress = WeightedAverage(LiveTasks)'
                 \/ next = Idle /\ (call[c].at = "commit" \/ Recounted')
        BY <1>2, <2>3, ProgressSteps
      <3>2. PICK next:
              /\ Goto(c, next) /\ (Quiet \/ call[c] # Idle)
              /\ \/ next.at \in {"average", "count", "write_task", "commit"}
                 \/ next.at = "write_project" /\ next.progress = WeightedAverage(LiveTasks)'
                 \/ next = Idle /\ (call[c].at = "commit" \/ Recounted')
        BY <3>1
      <3>3. OneCall' /\ call'[c] = next /\ \A d \in Clients \ {c}: call'[d] = Idle
        BY <1>2, <2>3, <3>2, AloneOrNone DEF ProgressInv
      <3>4. Idle.at = "idle"
        BY DEF Idle
      <3>5. ASSUME NEW d \in Clients
            PROVE  Averaged(call[d])'
        <4>1. call'[d].at = "write_project"
                => call'[d].progress = WeightedAverage(LiveTasks)'
          BY <3>2, <3>3, <3>4
        <4> QED
          BY <4>1 DEF Averaged
      <3>6. ASSUME Ending
            PROVE  Recounted'
        BY <3>2, <3>3, <3>4, <3>6
      <3> QED
        BY <2>3, <3>3, <3>5, <3>6 DEF ProgressInv, Recounted
    <2> QED
      BY <2>1, <2>2, <2>3
  <1> QED
    BY <1>1, <1>2, PTL DEF OfficeSpec, ReturnsRecounted
-----------------------------------------------------------------------------
(* Types: what a step of a component makes of well-formed rows and calls is well formed *)

\* A call that goes to a well-formed next state.
LEMMA CallTyped ==
  ASSUME NEW T, call \in [Clients -> T], NEW c \in Clients, NEW next \in T, Goto(c, next)
  PROVE  call' \in [Clients -> T]
  BY DEF Goto

LEMMA NumberingStepTyped ==
  ASSUME NumberingTypeOK, NumberingInv, focus = "numbering", UNCHANGED focus, NumberingNext
  PROVE  NumberingTypeOK'
  <1>1. call \in [Clients -> NumberingCall] /\ Idle \in NumberingCall
    BY DEF NumberingTypeOK, NumberingCall
  <1>2. ASSUME NEW c \in Clients, ReadLast(c)
        PROVE  NumberingTypeOK'
    <2>1. NextNumber \in Nat \ {0}
      BY NextNumberFollows, NumberingAssumption DEF NumberingInv
    <2>2. [at |-> "number", number |-> NextNumber] \in NumberingCall
      BY <2>1 DEF NumberingCall
    <2>3. call' \in [Clients -> NumberingCall]
      BY <1>1, <1>2, <2>2, CallTyped DEF ReadLast
    <2> QED
      BY <1>2, <2>3 DEF ReadLast, NumberingTypeOK
  <1>3. ASSUME NEW c \in Clients, InsertDocument(c)
        PROVE  NumberingTypeOK'
    <2>1. call[c].number \in Nat \ {0}
      BY <1>1, <1>3 DEF InsertDocument, NumberingCall, Idle
    <2>2. call' \in [Clients -> NumberingCall]
      BY <1>1, <1>3, CallTyped DEF InsertDocument, Return
    <2> QED
      BY <1>3, <2>1, <2>2 DEF InsertDocument, NumberingTypeOK
  <1>4. ASSUME NEW c \in Clients, Collide(c)
        PROVE  NumberingTypeOK'
    <2>1. call' \in [Clients -> NumberingCall]
      BY <1>1, <1>4, CallTyped DEF Collide, Return
    <2> QED
      BY <1>4, <2>1 DEF Collide, NumberingTypeOK
  <1> QED
    BY <1>2, <1>3, <1>4 DEF NumberingNext

\* The three counts that end up in a row are integers.
LEMMA CountsAreIntegers ==
  ASSUME ProgressTypeOK
  PROVE  /\ \A t \in ProgressTasks: SubtaskCount(t) \in 0..100
         /\ WeightedAverage(LiveTasks) \in Int
  <1>1. ASSUME NEW t \in ProgressTasks
        PROVE  /\ IsFiniteSet(LiveSubtasks(t)) /\ Cardinality(LiveSubtasks(t)) \in Nat
               /\ Weight(t) \in Nat \ {0}
    <2>1. LiveSubtasks(t) \in SUBSET Subtasks
      BY DEF LiveSubtasks
    <2>2. IsFiniteSet(LiveSubtasks(t)) /\ Cardinality(LiveSubtasks(t)) \in Nat
      BY <2>1, FS_Subset, FS_CardinalityType, ProgressAssumption
    <2>3. PICK n \in Nat: n = Cardinality(LiveSubtasks(t))
      BY <2>2
    <2>4. Max({1, n}) = IF n > 1 THEN n ELSE 1
      BY DEF Max
    <2> QED
      BY <2>2, <2>3, <2>4 DEF Weight
  <1>2. ASSUME NEW t \in ProgressTasks
        PROVE  SubtaskCount(t) \in 0..100
    <2> DEFINE all == IF task[t].life = "deleted" THEN {} ELSE LiveSubtasks(t)
               done == {s \in all: subtask[s].done}
    <2>1. CASE all = {}
      BY <2>1 DEF SubtaskCount
    <2>2. CASE all # {}
      <3>1. IsFiniteSet(all) /\ all # {} /\ done \in SUBSET all
        BY <1>1, <2>2
      <3>2. PICK n \in Nat \ {0}: n = Cardinality(all)
        BY <3>1, FS_CardinalityType, FS_EmptySet
      <3>3. PICK k \in Nat: k = Cardinality(done) /\ k <= n
        BY <3>1, <3>2, FS_Subset, FS_CardinalityType
      <3>4. (2 * (100 * k) + n) \div (2 * n) \in 0..100
        BY <3>3, RoundedLies, 100 * k \in Nat, 0 * n <= 100 * k, 100 * k <= 100 * n
      <3>5. SubtaskCount(t) = Rounded(100 * k, n)
        BY <2>2, <3>2, <3>3 DEF SubtaskCount
      <3> QED
        BY <3>4, <3>5 DEF Rounded
    <2> QED
      BY <2>1, <2>2
  <1>3. WeightedAverage(LiveTasks) \in Int
    <2>1. CASE LiveTasks = {}
      BY <2>1 DEF WeightedAverage
    <2>2. CASE LiveTasks # {}
      <3> DEFINE weights == [t \in LiveTasks |-> Weight(t)]
                 weighted == [t \in LiveTasks |-> task[t].progress * Weight(t)]
      <3>1. IsFiniteSet(LiveTasks) /\ LiveTasks \in SUBSET ProgressTasks
        BY FS_Subset, ProgressAssumption DEF LiveTasks
      <3>2. \A t \in LiveTasks: Weight(t) \in Nat \ {0} /\ task[t].progress \in Int
        BY <1>1, <3>1 DEF ProgressTypeOK
      <3>3. \A t \in LiveTasks: task[t].progress * Weight(t) \in Int
        BY <3>2
      <3>4. weighted \in [LiveTasks -> Int] /\ weights \in [LiveTasks -> Nat]
        BY <3>2, <3>3
      <3>5. PICK t \in LiveTasks: TRUE
        BY <2>2
      <3>6. weights[t] \in Nat \ {0}
        BY <3>2
      <3> HIDE DEF weights, weighted
      <3>7. PICK a \in Int: a = SumFunction(weighted)
        BY <3>1, <3>4, SumIsInteger
      <3>8. PICK b \in Nat \ {0}: b = SumFunction(weights)
        BY <3>1, <3>4, <3>6, SumOfNaturals
      <3>9. Rounded(a, b) \in Int
        BY DEF Rounded
      <3> QED
        BY <2>2, <3>7, <3>8, <3>9 DEF WeightedAverage, weights, weighted
    <2> QED
      BY <2>1, <2>2
  <1> QED
    BY <1>2, <1>3
LEMMA TaskFields ==
  ASSUME NEW row \in [life: Life, progress: Int]
  PROVE  /\ \A p \in Int: [row EXCEPT !.progress = p] \in [life: Life, progress: Int]
         /\ \A life \in Life: [row EXCEPT !.life = life] \in [life: Life, progress: Int]
  OBVIOUS

LEMMA SubtaskFields ==
  ASSUME NEW row \in [life: Life, task: ProgressTasks, done: BOOLEAN]
  PROVE  /\ \A done \in BOOLEAN: [row EXCEPT !.done = done]
                                   \in [life: Life, task: ProgressTasks, done: BOOLEAN]
         /\ \A life \in Life: [row EXCEPT !.life = life]
                                \in [life: Life, task: ProgressTasks, done: BOOLEAN]
  OBVIOUS

\* The first write of a call.
LEMMA ProgressWriteTyped ==
  ASSUME ProgressTypeOK, focus = "progress", UNCHANGED focus, NEW c \in Clients,
         \/ \E t \in ProgressTasks, p \in Percents: CreateTask(c, t, p) \/ UpdateTask(c, t, p)
         \/ \E t \in ProgressTasks: ValidateTaskProgress(c, t) \/ DeleteTask(c, t)
         \/ \E s \in Subtasks, t \in ProgressTasks: CreateSubtask(c, s, t)
         \/ \E s \in Subtasks, done \in BOOLEAN: UpdateSubtask(c, s, done)
         \/ \E s \in Subtasks: DeleteSubtask(c, s)
  PROVE  ProgressTypeOK'
  <1> DEFINE TaskRow == [life: Life, progress: Int]
             SubtaskRow == [life: Life, task: ProgressTasks, done: BOOLEAN]
  <1>1. /\ call \in [Clients -> ProgressCall] /\ progress \in Int
        /\ task \in [ProgressTasks -> TaskRow] /\ subtask \in [Subtasks -> SubtaskRow]
    BY DEF ProgressTypeOK
  <1>2. ASSUME NEW deletes \in ProgressTasks \cup {"no"},
               Goto(c, [at |-> "average", deletes |-> deletes])
        PROVE  call' \in [Clients -> ProgressCall]
    <2>1. [at |-> "average", deletes |-> deletes] \in ProgressCall
      BY DEF ProgressCall
    <2> QED
      BY <1>1, <1>2, <2>1, CallTyped
  <1>3. ASSUME NEW t \in ProgressTasks, Goto(c, [at |-> "count", task |-> t])
        PROVE  call' \in [Clients -> ProgressCall]
    <2>1. [at |-> "count", task |-> t] \in ProgressCall
      BY DEF ProgressCall
    <2> QED
      BY <1>1, <1>3, <2>1, CallTyped
  <1>4. ASSUME NEW t \in ProgressTasks, NEW row \in TaskRow, UNCHANGED <<subtask, progress>>,
               task' = [task EXCEPT ![t] = row], call' \in [Clients -> ProgressCall]
        PROVE  ProgressTypeOK'
    BY <1>1, <1>4 DEF ProgressTypeOK
  <1>5. ASSUME NEW s \in Subtasks, NEW row \in SubtaskRow, UNCHANGED <<task, progress>>,
               subtask' = [subtask EXCEPT ![s] = row], call' \in [Clients -> ProgressCall]
        PROVE  ProgressTypeOK'
    BY <1>1, <1>5 DEF ProgressTypeOK
  <1>6. "live" \in Life /\ "deleted" \in Life
    BY DEF Life
  <1>7. ASSUME NEW t \in ProgressTasks, NEW p \in Percents, CreateTask(c, t, p)
        PROVE  ProgressTypeOK'
    <2>1. [life |-> "live", progress |-> p] \in TaskRow
      BY <1>6, ProgressAssumption
    <2> QED
      BY <1>2, <1>4, <1>7, <2>1 DEF CreateTask
  <1>8. ASSUME NEW t \in ProgressTasks, NEW p \in Percents, UpdateTask(c, t, p)
        PROVE  ProgressTypeOK'
    <2>1. [task[t] EXCEPT !.progress = p] \in TaskRow
      BY <1>1, TaskFields, ProgressAssumption
    <2>2. task' = [task EXCEPT ![t] = [task[t] EXCEPT !.progress = p]]
      BY <1>8 DEF UpdateTask
    <2> QED
      BY <1>2, <1>4, <1>8, <2>1, <2>2 DEF UpdateTask
  <1>9. ASSUME NEW t \in ProgressTasks, ValidateTaskProgress(c, t) \/ DeleteTask(c, t)
        PROVE  ProgressTypeOK'
    BY <1>2, <1>9 DEF ValidateTaskProgress, DeleteTask, progVars, ProgressTypeOK
  <1>10. ASSUME NEW s \in Subtasks, NEW t \in ProgressTasks, CreateSubtask(c, s, t)
         PROVE  ProgressTypeOK'
    <2>1. [life |-> "live", task |-> t, done |-> FALSE] \in SubtaskRow
      BY <1>6
    <2> QED
      BY <1>3, <1>5, <1>10, <2>1 DEF CreateSubtask
  <1>11. \A s \in Subtasks: subtask[s].task \in ProgressTasks
    BY <1>1
  <1>12. ASSUME NEW s \in Subtasks, NEW done \in BOOLEAN, UpdateSubtask(c, s, done)
         PROVE  ProgressTypeOK'
    <2>1. [subtask[s] EXCEPT !.done = done] \in SubtaskRow
      BY <1>1, SubtaskFields
    <2>2. subtask' = [subtask EXCEPT ![s] = [subtask[s] EXCEPT !.done = done]]
      BY <1>12 DEF UpdateSubtask
    <2> QED
      BY <1>3, <1>5, <1>11, <1>12, <2>1, <2>2 DEF UpdateSubtask
  <1>13. ASSUME NEW s \in Subtasks, DeleteSubtask(c, s)
         PROVE  ProgressTypeOK'
    <2>1. [subtask[s] EXCEPT !.life = "deleted"] \in SubtaskRow
      BY <1>1, <1>6, SubtaskFields
    <2>2. subtask' = [subtask EXCEPT ![s] = [subtask[s] EXCEPT !.life = "deleted"]]
      BY <1>13 DEF DeleteSubtask
    <2> QED
      BY <1>3, <1>5, <1>11, <1>13, <2>1, <2>2 DEF DeleteSubtask
  <1> QED
    BY <1>7, <1>8, <1>9, <1>10, <1>12, <1>13

\* The recounts.
LEMMA RecountTyped ==
  ASSUME ProgressTypeOK, focus = "progress", UNCHANGED focus, NEW c \in Clients,
         \/ CountSubtasks(c) \/ WriteTaskProgress(c) \/ AverageTasks(c)
         \/ WriteProjectProgress(c) \/ CommitDeletion(c)
  PROVE  ProgressTypeOK'
  <1> DEFINE TaskRow == [life: Life, progress: Int]
             MayDelete == ProgressTasks \cup {"no"}
  <1>1. /\ call \in [Clients -> ProgressCall] /\ call[c] \in ProgressCall
        /\ task \in [ProgressTasks -> TaskRow]
    BY DEF ProgressTypeOK
  <1>2. ASSUME NEW next \in ProgressCall, Goto(c, next)
        PROVE  call' \in [Clients -> ProgressCall]
    BY <1>1, <1>2, CallTyped
  <1>3. ASSUME NEW t \in ProgressTasks, NEW row \in TaskRow, UNCHANGED <<subtask, progress>>,
               task' = [task EXCEPT ![t] = row], call' \in [Clients -> ProgressCall]
        PROVE  ProgressTypeOK'
    BY <1>1, <1>3 DEF ProgressTypeOK
  <1>4. ASSUME CountSubtasks(c)
        PROVE  ProgressTypeOK'
    <2>1. call[c].task \in ProgressTasks
      BY <1>1, <1>4 DEF CountSubtasks, ProgressCall, Idle
    <2>2. PICK n \in 0..100: n = SubtaskCount(call[c].task)
      BY <2>1, CountsAreIntegers
    <2>3. [at |-> "write_task", task |-> call[c].task, progress |-> n] \in ProgressCall
      BY <2>1, <2>2 DEF ProgressCall
    <2> QED
      BY <1>2, <1>4, <2>2, <2>3 DEF CountSubtasks, progVars, ProgressTypeOK
  <1>5. ASSUME WriteTaskProgress(c)
        PROVE  ProgressTypeOK'
    <2>1. call[c].task \in ProgressTasks /\ call[c].progress \in Int
      BY <1>1, <1>5 DEF WriteTaskProgress, ProgressCall, Idle
    <2>2. [at |-> "average", deletes |-> "no"] \in ProgressCall
      BY DEF ProgressCall
    <2>3. [task[call[c].task] EXCEPT !.progress = call[c].progress] \in TaskRow
      BY <1>1, <2>1, TaskFields
    <2>4. task' = [task EXCEPT ![call[c].task] = [task[call[c].task] EXCEPT !.progress = call[c].progress]]
      BY <1>5 DEF WriteTaskProgress
    <2> QED
      BY <1>2, <1>3, <1>5, <2>1, <2>2, <2>3, <2>4 DEF WriteTaskProgress
  <1>6. ASSUME AverageTasks(c)
        PROVE  ProgressTypeOK'
    <2>1. call[c].deletes \in MayDelete
      BY <1>1, <1>6 DEF AverageTasks, ProgressCall, Idle
    <2>2. PICK n \in Int: n = WeightedAverage(LiveTasks)
      BY CountsAreIntegers
    <2>3. [at |-> "write_project", progress |-> n, deletes |-> call[c].deletes] \in ProgressCall
      BY <2>1, <2>2 DEF ProgressCall
    <2> QED
      BY <1>2, <1>6, <2>2, <2>3 DEF AverageTasks, progVars, ProgressTypeOK
  <1>7. ASSUME WriteProjectProgress(c)
        PROVE  ProgressTypeOK'
    <2>1. call[c].progress \in Int /\ call[c].deletes \in MayDelete
      BY <1>1, <1>7 DEF WriteProjectProgress, ProgressCall, Idle
    <2>2. Idle \in ProgressCall
      BY DEF ProgressCall
    <2>3. call[c].deletes # "no"
            => [at |-> "commit", deletes |-> call[c].deletes] \in ProgressCall
      BY <2>1 DEF ProgressCall
    <2>4. call' \in [Clients -> ProgressCall]
      BY <1>2, <1>7, <2>2, <2>3 DEF WriteProjectProgress, Return
    <2> QED
      BY <1>7, <2>1, <2>4 DEF WriteProjectProgress, ProgressTypeOK
  <1>8. ASSUME CommitDeletion(c)
        PROVE  ProgressTypeOK'
    <2>1. call[c].deletes \in ProgressTasks
      BY <1>1, <1>8 DEF CommitDeletion, ProgressCall, Idle
    <2>2. Idle \in ProgressCall /\ "deleted" \in Life
      BY DEF ProgressCall, Life
    <2>3. [task[call[c].deletes] EXCEPT !.life = "deleted"] \in TaskRow
      BY <1>1, <2>1, <2>2, TaskFields
    <2>4. task' = [task EXCEPT ![call[c].deletes] = [task[call[c].deletes] EXCEPT !.life = "deleted"]]
      BY <1>8 DEF CommitDeletion
    <2> QED
      BY <1>2, <1>3, <1>8, <2>1, <2>2, <2>3, <2>4 DEF CommitDeletion, Return
  <1> QED
    BY <1>4, <1>5, <1>6, <1>7, <1>8

LEMMA ProgressStepTyped ==
  ASSUME ProgressTypeOK, focus = "progress", UNCHANGED focus, ProgressNext
  PROVE  ProgressTypeOK'
  BY ProgressWriteTyped, RecountTyped DEF ProgressNext
-----------------------------------------------------------------------------
\* A step of a call about the project that has looked up what it needs.
LEMMA SetupStepTyped ==
  ASSUME SetupTypeOK, SetupInv, focus = "projects", UNCHANGED focus, SetupNext
  PROVE  SetupTypeOK'
  <1> DEFINE MemberState == {Outsider, "MANAGER", "MEMBER"}
             Holder == People \cup {Unassigned, NoTask}
             MayHave == People \cup {Unassigned}
             Day == ProjectDates \cup {Undated}
  <1>1. /\ call \in [Clients -> SetupCall] /\ project \in ProjectRow \cup {NoProject}
        /\ members \in [People -> MemberState] /\ assignee \in [ProjectTasks -> Holder]
        /\ today \in ProjectDates
    BY DEF SetupTypeOK
  <1>2. ASSUME NEW c \in Clients, NEW next \in SetupCall, Goto(c, next)
        PROVE  call' \in [Clients -> SetupCall]
    BY <1>1, <1>2, CallTyped
  <1>3. Idle \in SetupCall
    BY DEF SetupCall
  <1>4. Created => project \in ProjectRow
    BY <1>1 DEF Created
  <1>5. ASSUME NEW c \in Clients, NEW creator \in People, NEW managers \in SUBSET People,
               NEW others \in SUBSET People, NEW start \in Day, NEW end \in Day,
               CreateProject(c, creator, managers, others, start, end)
        PROVE  SetupTypeOK'
    <2>1. [status |-> "planning", start |-> start, end |-> end] \in ProjectRow
      BY DEF ProjectRow, ProjectStatuses
    <2>2. members' \in [People -> MemberState]
      BY <1>5 DEF CreateProject
    <2> QED
      BY <1>1, <1>5, <2>1, <2>2 DEF CreateProject, SetupTypeOK
  <1>6. ASSUME NEW c \in Clients, NEW p \in People, NEW wanted \in ProjectStatuses,
               BeginProjectStatus(c, p, wanted)
        PROVE  SetupTypeOK'
    <2>1. [at |-> "status", status |-> wanted] \in SetupCall
      BY DEF SetupCall
    <2> QED
      BY <1>1, <1>2, <1>6, <2>1 DEF BeginProjectStatus, setupVars, SetupTypeOK
  <1>7. ASSUME NEW c \in Clients, SetProjectStatus(c)
        PROVE  SetupTypeOK'
    <2>1. call[c].status \in ProjectStatuses
      BY <1>1, <1>7 DEF SetProjectStatus, SetupCall, Idle
    <2>2. call[c].at = "status" /\ Created
      BY <1>7 DEF SetupInv, SetupHolds, SetProjectStatus
    <2>3. [project EXCEPT !.status = call[c].status] \in ProjectRow
      BY <1>4, <2>1, <2>2 DEF ProjectRow
    <2>4. [at |-> "start"] \in SetupCall
      BY DEF SetupCall
    <2>5. call' \in [Clients -> SetupCall]
      BY <1>2, <1>3, <1>7, <2>4 DEF SetProjectStatus, Return
    <2> QED
      BY <1>1, <1>7, <2>3, <2>5 DEF SetProjectStatus, SetupTypeOK
  <1>8. ASSUME NEW c \in Clients, DateTheStart(c)
        PROVE  SetupTypeOK'
    <2>1. call[c].at = "start" /\ Created
      BY <1>8 DEF SetupInv, SetupHolds, DateTheStart
    <2>2. [project EXCEPT !.start = StartDate(project.end)] \in ProjectRow
      BY <1>1, <1>4, <2>1, DatedAtLast
    <2>3. project' \in ProjectRow
      BY <1>4, <1>8, <2>1, <2>2 DEF DateTheStart
    <2>4. call' \in [Clients -> SetupCall]
      BY <1>2, <1>3, <1>8 DEF DateTheStart, Return
    <2> QED
      BY <1>1, <1>8, <2>3, <2>4 DEF DateTheStart, SetupTypeOK
  <1>9. ASSUME NEW c \in Clients, NEW p \in People, NEW end \in Day, SetDeadline(c, p, end)
        PROVE  SetupTypeOK'
    <2>1. [project EXCEPT !.end = end] \in ProjectRow
      BY <1>4, <1>9 DEF SetDeadline, ProjectRow
    <2> QED
      BY <1>1, <1>9, <2>1 DEF SetDeadline, SetupTypeOK
  <1>10. ASSUME NEW c \in Clients, NEW t \in ProjectTasks, NEW to \in MayHave,
                CreateTaskFor(c, t, to) \/ GiveTask(c, t, to)
         PROVE  SetupTypeOK'
    <2>1. assignee' \in [ProjectTasks -> Holder]
      BY <1>1, <1>10 DEF CreateTaskFor, GiveTask
    <2> QED
      BY <1>1, <1>10, <2>1 DEF CreateTaskFor, GiveTask, SetupTypeOK
  <1>11. ASSUME NEW c \in Clients, NEW t \in ProjectTasks, NEW to \in MayHave, BeginAssign(c, t, to)
         PROVE  SetupTypeOK'
    <2>1. assignee[t] \in MayHave
      BY <1>1, <1>11 DEF BeginAssign
    <2>2. [at |-> "assign", task |-> t, to |-> to, loaded |-> assignee[t]] \in SetupCall
      BY <2>1 DEF SetupCall
    <2> QED
      BY <1>1, <1>2, <1>11, <2>2 DEF BeginAssign, setupVars, SetupTypeOK
  <1>12. ASSUME NEW c \in Clients, Assign(c)
         PROVE  SetupTypeOK'
    <2>1. call[c].task \in ProjectTasks /\ call[c].to \in MayHave /\ call[c].loaded \in MayHave
      BY <1>1, <1>12 DEF Assign, SetupCall, Idle
    <2>2. SavedAssignee(call[c].loaded, call[c].to) \in Holder
      BY <2>1 DEF SavedAssignee
    <2>3. call' \in [Clients -> SetupCall]
      BY <1>2, <1>3, <1>12 DEF Assign, Return
    <2> QED
      BY <1>1, <1>12, <2>2, <2>3 DEF Assign, SetupTypeOK
  <1>13. CASE NextDate
    <2>1. today' \in ProjectDates
      BY <1>1, <1>13, SetupAssumption DEF NextDate, ProjectDates
    <2> QED
      BY <1>1, <1>13, <2>1 DEF NextDate, SetupTypeOK
  <1> QED
    BY <1>5, <1>6, <1>7, <1>8, <1>9, <1>10, <1>11, <1>12, <1>13 DEF SetupNext
-----------------------------------------------------------------------------
\* The courses and sessions of the academy, and the time that passes.
LEMMA CourseFields ==
  ASSUME NEW row \in CourseRow
  PROVE  /\ [row EXCEPT !.exists = TRUE] \in CourseRow
         /\ [row EXCEPT !.deleted = TRUE] \in CourseRow
         /\ \A to \in {"draft", "published", "archived"}: [row EXCEPT !.status = to] \in CourseRow
  BY DEF CourseRow

LEMMA SessionFields ==
  ASSUME NEW row \in SessionRow
  PROVE  /\ \A c \in CoursesOrNone: [row EXCEPT !.course = c] \in SessionRow
         /\ \A start \in Dates: [row EXCEPT !.start = start] \in SessionRow
         /\ \A end \in Dates: [row EXCEPT !.end = end] \in SessionRow
         /\ [row EXCEPT !.deleted = TRUE] \in SessionRow
         /\ \A to \in ActiveStatuses \cup {"completed", "cancelled"}:
              [row EXCEPT !.status = to] \in SessionRow
  BY DEF SessionRow

LEMMA EnrollmentFields ==
  ASSUME NEW row \in EnrollmentRow
  PROVE  /\ [row EXCEPT !.deleted = TRUE] \in EnrollmentRow
         /\ \A to \in EnrollmentStatuses: [row EXCEPT !.status = to] \in EnrollmentRow
  BY DEF EnrollmentRow

LEMMA CourseStepTyped ==
  ASSUME AcademyTypeOK, focus = "academy", UNCHANGED focus, NEW c \in Courses,
         \/ CreateCourse(c) \/ DeleteCourse(c)
         \/ SetCourseStatus(c, {"draft"}, "published")
         \/ SetCourseStatus(c, {"draft", "published"}, "archived")
         \/ SetCourseStatus(c, {"archived"}, "draft")
  PROVE  AcademyTypeOK'
  <1>1. course \in [Courses -> CourseRow] /\ course[c] \in CourseRow
    BY DEF AcademyTypeOK
  <1>2. UNCHANGED <<session, enrollment, day, call>>
    BY DEF CreateCourse, DeleteCourse, SetCourseStatus
  <1>3. PICK row \in CourseRow: course' = [course EXCEPT ![c] = row]
    <2>1. CASE CreateCourse(c)
      BY <1>1, <2>1, CourseFields DEF CreateCourse
    <2>2. CASE DeleteCourse(c)
      BY <1>1, <2>2, CourseFields DEF DeleteCourse
    <2>3. ASSUME NEW from, NEW new \in {"draft", "published", "archived"},
                 SetCourseStatus(c, from, new)
          PROVE  \E row \in CourseRow: course' = [course EXCEPT ![c] = row]
      BY <1>1, <2>3, CourseFields DEF SetCourseStatus
    <2> QED
      BY <2>1, <2>2, <2>3
  <1> QED
    BY <1>1, <1>2, <1>3 DEF AcademyTypeOK

LEMMA PhaseIsStatus ==
  ASSUME NEW start, NEW end
  PROVE  computePhase(start, end) \in ActiveStatuses \cup {"completed", "cancelled"}
  BY DEF computePhase, ActiveStatuses

LEMMA SessionStepTyped ==
  ASSUME AcademyTypeOK, focus = "academy", UNCHANGED focus,
         \/ \E s \in Sessions: \/ \E c \in CoursesOrNone, start, end \in Dates:
                                    \/ CreateSession(s, c, start, end)
                                    \/ \E cancel \in BOOLEAN:
                                         UpdateSession(s, c, start, end, cancel)
                               \/ DeleteSession(s)
         \/ AutoCompletePastSessions \/ NextDay
  PROVE  AcademyTypeOK'
  <1> DEFINE State == ActiveStatuses \cup {"completed", "cancelled"}
  <1>1. session \in [Sessions -> SessionRow] /\ day \in 1..LastDay
    BY DEF AcademyTypeOK
  <1>2. ASSUME session' \in [Sessions -> SessionRow], UNCHANGED <<course, enrollment, day, call>>
        PROVE  AcademyTypeOK'
    BY <1>2 DEF AcademyTypeOK
  <1>3. ASSUME NEW s \in Sessions, NEW c \in CoursesOrNone, NEW start \in Dates, NEW end \in Dates,
               CreateSession(s, c, start, end)
        PROVE  AcademyTypeOK'
    <2>1. [exists |-> TRUE, deleted |-> FALSE, course |-> c, start |-> start, end |-> end,
           status |-> computePhase(start, end)] \in SessionRow
      BY PhaseIsStatus DEF SessionRow
    <2> QED
      BY <1>1, <1>2, <1>3, <2>1 DEF CreateSession
  <1>4. ASSUME NEW s \in Sessions, NEW c \in CoursesOrNone, NEW start \in Dates, NEW end \in Dates,
               NEW cancel \in BOOLEAN, UpdateSession(s, c, start, end, cancel)
        PROVE  AcademyTypeOK'
    <2> DEFINE to == IF cancel THEN "cancelled" ELSE computePhase(start, end)
               of == SavedCourse(session[s].course, c)
               led == [session[s] EXCEPT !.course = of]
               moved == [[led EXCEPT !.start = start] EXCEPT !.end = end]
               row == [moved EXCEPT !.status = to]
    <2>1. to \in State
      BY PhaseIsStatus
    <2>2. session' = [session EXCEPT ![s] = row] /\ UNCHANGED <<course, enrollment, day, call>>
      BY ONLY <1>4, Zenon DEF UpdateSession
    <2> HIDE DEF to
    <2>5. session[s] \in SessionRow
      BY <1>1
    <2>6. of \in CoursesOrNone
      BY <2>5 DEF SessionRow, SavedCourse
    <2> HIDE DEF of
    <2>7. led \in SessionRow
      BY <2>5, <2>6, SessionFields
    <2> HIDE DEF led
    <2>3. moved \in SessionRow
      BY <2>7, SessionFields
    <2> HIDE DEF moved
    <2>4. row \in SessionRow
      BY <2>1, <2>3, SessionFields
    <2> HIDE DEF row
    <2> QED
      BY <1>1, <1>2, <2>2, <2>4
  <1>5. ASSUME NEW s \in Sessions, DeleteSession(s)
        PROVE  AcademyTypeOK'
    <2>1. session[s] \in SessionRow
      BY <1>1
    <2>2. [session[s] EXCEPT !.deleted = TRUE] \in SessionRow
      BY <2>1, SessionFields
    <2> QED
      BY <1>1, <1>2, <1>5, <2>2 DEF DeleteSession
  <1>6. CASE AutoCompletePastSessions
    <2>1. ASSUME NEW s \in Sessions
          PROVE  [session[s] EXCEPT !.status = "completed"] \in SessionRow
      <3>1. session[s] \in SessionRow
        BY <1>1
      <3> QED
        BY <3>1, SessionFields
    <2> QED
      BY <1>1, <1>2, <1>6, <2>1 DEF AutoCompletePastSessions
  <1>7. CASE NextDay
    <2>1. day' \in 1..LastDay
      BY <1>1, <1>7, AcademyAssumption DEF NextDay
    <2> QED
      BY <1>7, <2>1 DEF NextDay, AcademyTypeOK
  <1> QED
    BY <1>3, <1>4, <1>5, <1>6, <1>7
LEMMA EnrollmentStepTyped ==
  ASSUME AcademyTypeOK, focus = "academy", UNCHANGED focus,
         \/ \E k \in Clients, p \in Learners:
              \/ \E c \in CoursesOrNone, s \in Sessions \cup {"none"}: BeginSelfEnroll(k, p, c, s)
              \/ \E c \in Courses, asEmployee \in BOOLEAN: BeginCreateEnrollment(k, p, asEmployee, c, "invited")
         \/ \E k \in Clients, p \in Learners, e \in Enrollments: BeginCompleteMine(k, p, e)
         \/ \E k \in Clients: InsertEnrollment(k) \/ CompleteMine(k)
         \/ \E e \in Enrollments:
              \/ \E to \in SentStatuses: UpdateEnrollment(e, to)
              \/ DeleteEnrollment(e)
  PROVE  AcademyTypeOK'
  <1> DEFINE Place == Sessions \cup {"none"}
             Who == Learners \cup {Nobody}
  <1>1. call \in [Clients -> AcademyCall] /\ enrollment \in [Enrollments -> EnrollmentRow]
    BY DEF AcademyTypeOK
  <1>2. ASSUME NEW k \in Clients, NEW next \in AcademyCall, Goto(k, next), UNCHANGED academyVars
        PROVE  AcademyTypeOK'
    BY <1>1, <1>2, CallTyped DEF academyVars, AcademyTypeOK
  <1>3. ASSUME NEW e \in Enrollments, NEW row \in EnrollmentRow,
               enrollment' = [enrollment EXCEPT ![e] = row], UNCHANGED <<course, session, day>>,
               call' \in [Clients -> AcademyCall]
        PROVE  AcademyTypeOK'
    BY <1>1, <1>3 DEF AcademyTypeOK
  <1>4. ASSUME NEW e \in Enrollments, NEW to \in EnrollmentStatuses
        PROVE  [enrollment[e] EXCEPT !.status = to] \in EnrollmentRow
    <2>1. enrollment[e] \in EnrollmentRow
      BY <1>1
    <2> QED
      BY <2>1, EnrollmentFields
  <1>5. \A k \in Clients: Return(k) => call' \in [Clients -> AcademyCall]
    BY <1>1, CallTyped DEF Return, AcademyCall
  <1>6. ASSUME NEW c \in CoursesOrNone, NEW s \in Place, NEW employee \in Who, NEW user \in Who,
               NEW to \in EnrollmentStatuses
        PROVE  /\ [at |-> "enroll", course |-> c, session |-> s, employee |-> employee,
                   user |-> user, status |-> to] \in AcademyCall
               /\ [exists |-> TRUE, deleted |-> FALSE, course |-> c, session |-> s,
                   employee |-> employee, user |-> user, status |-> to] \in EnrollmentRow
    BY DEF AcademyCall, EnrollmentRow
  <1>7. "invited" \in EnrollmentStatuses /\ "enrolled" \in EnrollmentStatuses
        /\ "completed" \in EnrollmentStatuses /\ "cancelled" \in EnrollmentStatuses
    BY DEF EnrollmentStatuses
  <1>8. ASSUME NEW k \in Clients, NEW c \in CoursesOrNone, NEW p \in Learners, NEW s \in Place,
               BeginSelfEnroll(k, p, c, s)
        PROVE  AcademyTypeOK'
    <2> DEFINE employee == IF p \in Employed THEN p ELSE Nobody
               next == [at |-> "enroll", course |-> c, session |-> s, employee |-> employee,
                        user |-> p, status |-> "enrolled"]
    <2>1. Goto(k, next) /\ UNCHANGED academyVars
      BY <1>8 DEF BeginSelfEnroll
    <2>2. employee \in Who
      OBVIOUS
    <2> HIDE DEF employee
    <2>3. next \in AcademyCall
      BY <1>6, <1>7, <2>2
    <2> HIDE DEF next
    <2> QED
      BY <1>2, <2>1, <2>3
  <1>9. ASSUME NEW k \in Clients, NEW c \in Courses, NEW p \in Learners, NEW asEmployee \in BOOLEAN,
               BeginCreateEnrollment(k, p, asEmployee, c, "invited")
        PROVE  AcademyTypeOK'
    <2> DEFINE employee == IF asEmployee THEN p ELSE Nobody
               user == IF asEmployee THEN Nobody ELSE p
               next == [at |-> "enroll", course |-> c, session |-> "none", employee |-> employee,
                        user |-> user, status |-> "invited"]
    <2>1. Goto(k, next) /\ UNCHANGED academyVars
      BY <1>9 DEF BeginCreateEnrollment
    <2>2. employee \in Who /\ user \in Who
      OBVIOUS
    <2> HIDE DEF employee, user
    <2>4. c \in CoursesOrNone
      BY DEF CoursesOrNone
    <2>3. next \in AcademyCall
      BY <1>6, <1>7, <2>2, <2>4
    <2> HIDE DEF next
    <2> QED
      BY <1>2, <2>1, <2>3
  <1>10. ASSUME NEW k \in Clients, NEW p \in Learners, NEW e \in Enrollments, BeginCompleteMine(k, p, e)
         PROVE  AcademyTypeOK'
    <2>1. [at |-> "complete", enrollment |-> e] \in AcademyCall
      BY DEF AcademyCall
    <2> QED
      BY <1>2, <1>10, <2>1 DEF BeginCompleteMine
  <1>11. ASSUME NEW k \in Clients, InsertEnrollment(k)
         PROVE  AcademyTypeOK'
    <2>1. /\ call[k].course \in CoursesOrNone /\ call[k].session \in Place /\ call[k].employee \in Who
          /\ call[k].user \in Who /\ call[k].status \in EnrollmentStatuses
      BY <1>1, <1>11 DEF InsertEnrollment, AcademyCall, Idle
    <2>2. PICK e \in Enrollments: e = CHOOSE free \in Enrollments: ~enrollment[free].exists
      BY <1>11 DEF InsertEnrollment
    <2> DEFINE row == [exists |-> TRUE, deleted |-> FALSE, course |-> call[k].course,
                       session |-> call[k].session, employee |-> call[k].employee,
                       user |-> call[k].user, status |-> call[k].status]
    <2>3. enrollment' = [enrollment EXCEPT ![e] = row] /\ UNCHANGED <<course, session, day>>
      BY <1>11, <2>2 DEF InsertEnrollment
    <2>4. row \in EnrollmentRow
      BY <1>6, <2>1
    <2> HIDE DEF row
    <2> QED
      BY <1>3, <1>5, <1>11, <2>3, <2>4 DEF InsertEnrollment
  <1>12. ASSUME NEW k \in Clients, CompleteMine(k)
         PROVE  AcademyTypeOK'
    <2>1. PICK e \in Enrollments: e = call[k].enrollment
      BY <1>1, <1>12 DEF CompleteMine, AcademyCall, Idle
    <2>2. enrollment' = [enrollment EXCEPT ![e] = [enrollment[e] EXCEPT !.status = "completed"]]
      BY <1>12, <2>1 DEF CompleteMine
    <2> QED
      BY <1>3, <1>4, <1>5, <1>7, <1>12, <2>2 DEF CompleteMine
  <1>13. ASSUME NEW e \in Enrollments, NEW to \in SentStatuses, UpdateEnrollment(e, to)
         PROVE  AcademyTypeOK'
    <2>1. enrollment' = [enrollment EXCEPT ![e] = [enrollment[e] EXCEPT !.status = to]]
      BY <1>13 DEF UpdateEnrollment
    <2> QED
      BY <1>1, <1>3, <1>4, <1>13, <2>1, AcademyAssumption DEF UpdateEnrollment
  <1>14. ASSUME NEW e \in Enrollments, DeleteEnrollment(e)
         PROVE  AcademyTypeOK'
    <2> DEFINE marked == [enrollment[e] EXCEPT !.deleted = TRUE]
               row == [marked EXCEPT !.status = "cancelled"]
    <2>1. enrollment' = [enrollment EXCEPT ![e] = row]
      BY <1>1, <1>14 DEF DeleteEnrollment
    <2>2. enrollment[e] \in EnrollmentRow
      BY <1>1
    <2>3. marked \in EnrollmentRow
      BY <2>2, EnrollmentFields
    <2> HIDE DEF marked
    <2>4. row \in EnrollmentRow
      BY <1>7, <2>3, EnrollmentFields
    <2> HIDE DEF row
    <2> QED
      BY <1>1, <1>3, <1>14, <2>1, <2>4 DEF DeleteEnrollment
  <1> QED
    BY <1>8, <1>9, <1>10, <1>11, <1>12, <1>13, <1>14

LEMMA AcademyStepTyped ==
  ASSUME AcademyTypeOK, focus = "academy", UNCHANGED focus, AcademyNext
  PROVE  AcademyTypeOK'
  BY CourseStepTyped, SessionStepTyped, EnrollmentStepTyped, Zenon DEF AcademyNext, AcademyEndpoints
-----------------------------------------------------------------------------
\* Accounts, devices and the guard.
LEMMA AccountFields ==
  ASSUME NEW row \in AccountRow, NEW value \in BOOLEAN
  PROVE  /\ [row EXCEPT !.active = value] \in AccountRow
         /\ [row EXCEPT !.deleted = value] \in AccountRow
         /\ [row EXCEPT !.linked = value] \in AccountRow
  BY DEF AccountRow

LEMMA AccessCallsAre ==
  /\ Idle \in AccessCall
  /\ \A u \in Accounts: [at |-> "insert", who |-> u] \in AccessCall
  /\ \A u \in Accounts: \A open \in BOOLEAN: [at |-> "door", who |-> u, open |-> open] \in AccessCall
  /\ \A u \in Accounts: \A f \in Fingerprints: \A others \in SUBSET Accounts:
       /\ [at |-> "answer", who |-> u, print |-> f] \in AccessCall
       /\ [at |-> "owners", who |-> u, print |-> f] \in AccessCall
       /\ [at |-> "register", who |-> u, print |-> f, others |-> others] \in AccessCall
  BY DEF AccessCall

\* The account is opened or closed, and both flags with it.
LEMMA AccountMoved ==
  ASSUME NEW u \in Accounts, NEW active \in BOOLEAN, NEW deleted \in BOOLEAN,
         account \in [Accounts -> AccountRow],
         account' = [account EXCEPT ![u].active = active, ![u].deleted = deleted]
  PROVE  account' \in [Accounts -> AccountRow]
  <1> DEFINE opened == [account[u] EXCEPT !.active = active]
             row == [opened EXCEPT !.deleted = deleted]
  <1>1. account[u] \in AccountRow
    OBVIOUS
  <1>2. opened \in AccountRow
    BY <1>1, AccountFields
  <1>3. account' = [account EXCEPT ![u] = row]
    OBVIOUS
  <1> HIDE DEF opened
  <1>4. row \in AccountRow
    BY <1>2, AccountFields
  <1> HIDE DEF row
  <1> QED
    BY <1>3, <1>4

\* The endpoints of UsersService.
LEMMA AccountStepTyped ==
  ASSUME AccessTypeOK, focus = "access", UNCHANGED focus,
         \/ \E c \in Clients:
              \/ \E u \in Accounts, open \in BOOLEAN: BeginSetActive(c, u, open)
              \/ \E u \in Accounts: BeginCreateAccount(c, u)
              \/ FinishSetActive(c) \/ InsertAccount(c)
         \/ \E us \in SUBSET Accounts, open, stamp \in BOOLEAN: BulkAction(us, open, stamp)
  PROVE  AccessTypeOK'
  <1> DEFINE Doors == {"none", "enabled", "disabled"}
             AccessTyped == /\ call' \in [Clients -> AccessCall]
                            /\ account' \in [Accounts -> AccountRow]
                            /\ firebase' \in [Accounts -> Doors] /\ context' \in SUBSET Accounts
  <1>1. /\ call \in [Clients -> AccessCall] /\ account \in [Accounts -> AccountRow]
        /\ firebase \in [Accounts -> Doors] /\ context \in SUBSET Accounts
    BY DEF AccessTypeOK
  <1>2. ASSUME AccessTyped, UNCHANGED <<device, reported>>
        PROVE  AccessTypeOK'
    BY <1>2 DEF AccessTypeOK
  <1>3. ASSUME NEW c \in Clients, NEW next \in AccessCall, Goto(c, next)
        PROVE  call' \in [Clients -> AccessCall]
    BY <1>1, <1>3, CallTyped
  <1>9. TRUE \in BOOLEAN /\ FALSE \in BOOLEAN
    OBVIOUS
  <1>4. ASSUME NEW c \in Clients, NEW u \in Accounts, NEW open \in BOOLEAN, BeginSetActive(c, u, open)
        PROVE  AccessTypeOK'
    <2>1. [at |-> "door", who |-> u, open |-> open] \in AccessCall
      BY AccessCallsAre
    <2>2. account' \in [Accounts -> AccountRow]
      <3>1. account' = [account EXCEPT ![u].active = open, ![u].deleted = ~open]
        BY ONLY <1>4, Zenon DEF BeginSetActive
      <3>2. CASE open
        <4>1. open = TRUE /\ (~open) = FALSE
          BY <3>2
        <4>2. account' = [account EXCEPT ![u].active = TRUE, ![u].deleted = FALSE]
          BY ONLY <3>1, <4>1
        <4> QED
          BY <1>1, <4>2, <1>9, AccountMoved, Zenon
      <3>3. CASE ~open
        <4>1. open = FALSE /\ (~open) = TRUE
          BY <3>3
        <4>2. account' = [account EXCEPT ![u].active = FALSE, ![u].deleted = TRUE]
          BY ONLY <3>1, <4>1
        <4> QED
          BY <1>1, <4>2, <1>9, AccountMoved, Zenon
      <3> QED
        BY <3>2, <3>3
    <2> QED
      BY <1>1, <1>2, <1>3, <1>4, <2>1, <2>2 DEF BeginSetActive
  <1>5. ASSUME NEW c \in Clients, NEW u \in Accounts, BeginCreateAccount(c, u)
        PROVE  AccessTypeOK'
    <2>1. /\ [at |-> "door", who |-> u, open |-> TRUE] \in AccessCall
          /\ [at |-> "insert", who |-> u] \in AccessCall
      BY AccessCallsAre
    <2>2. /\ account' \in [Accounts -> AccountRow] /\ firebase' \in [Accounts -> Doors]
          /\ call' \in [Clients -> AccessCall]
      <3>1. CASE Closed(u)
        <4>1. /\ account' = [account EXCEPT ![u].active = TRUE, ![u].deleted = FALSE]
              /\ UNCHANGED firebase /\ Goto(c, [at |-> "door", who |-> u, open |-> TRUE])
          BY <1>5, <3>1 DEF BeginCreateAccount
        <4>2. account' \in [Accounts -> AccountRow]
          BY <1>1, <4>1, <1>9, AccountMoved, Zenon
        <4> QED
          BY <1>1, <1>3, <2>1, <4>1, <4>2
      <3>2. CASE ~Closed(u)
        <4>1. /\ firebase' = [firebase EXCEPT ![u] = "enabled"] /\ UNCHANGED account
              /\ Goto(c, [at |-> "insert", who |-> u])
          BY <1>5, <3>2 DEF BeginCreateAccount
        <4> QED
          BY <1>1, <1>3, <2>1, <4>1
      <3> QED
        BY <3>1, <3>2
    <2> QED
      BY <1>1, <1>2, <1>5, <2>2 DEF BeginCreateAccount
  <1>6. ASSUME NEW c \in Clients, FinishSetActive(c)
        PROVE  AccessTypeOK'
    <2>1. call[c].who \in Accounts /\ call[c].open \in BOOLEAN
      BY <1>1, <1>6 DEF FinishSetActive, AccessCall, Idle
    <2>2. firebase' \in [Accounts -> Doors]
      BY <1>1, <1>6, <2>1 DEF FinishSetActive, SetFirebase
    <2>3. context' \in SUBSET Accounts
      BY <1>1, <1>6 DEF FinishSetActive
    <2>4. call' \in [Clients -> AccessCall]
      BY <1>3, <1>6, AccessCallsAre DEF FinishSetActive, Return
    <2> QED
      BY <1>1, <1>2, <1>6, <2>2, <2>3, <2>4 DEF FinishSetActive
  <1>7. ASSUME NEW c \in Clients, InsertAccount(c)
        PROVE  AccessTypeOK'
    <2>1. [exists |-> TRUE, active |-> TRUE, deleted |-> FALSE, linked |-> TRUE] \in AccountRow
      BY DEF AccountRow
    <2>2. account' \in [Accounts -> AccountRow]
      BY <1>1, <1>7, <2>1 DEF InsertAccount
    <2>3. call' \in [Clients -> AccessCall]
      BY <1>3, <1>7, AccessCallsAre DEF InsertAccount, Return
    <2> QED
      BY <1>1, <1>2, <1>7, <2>2, <2>3 DEF InsertAccount
  <1>8. ASSUME NEW us \in SUBSET Accounts, NEW open \in BOOLEAN, NEW stamp \in BOOLEAN,
               BulkAction(us, open, stamp)
        PROVE  AccessTypeOK'
    <2> DEFINE row(u) == [account[u] EXCEPT !.active = open, !.deleted = IF stamp THEN ~open ELSE @]
               put(u) == IF u \in us /\ account[u].exists THEN row(u) ELSE account[u]
    <2>1. ASSUME NEW u \in Accounts
          PROVE  put(u) \in AccountRow
      <3>1. account[u] \in AccountRow
        BY <1>1
      <3> QED
        BY <3>1 DEF AccountRow
    <2>2. account' = [u \in Accounts |-> put(u)]
      BY ONLY <1>8, Zenon DEF BulkAction
    <2>3. UNCHANGED <<firebase, context, device, reported, call>>
      BY ONLY <1>8, Zenon DEF BulkAction
    <2> HIDE DEF put
    <2>4. account' \in [Accounts -> AccountRow]
      BY <2>1, <2>2
    <2> QED
      BY <1>1, <1>2, <2>3, <2>4
  <1> QED
    BY <1>4, <1>5, <1>6, <1>7, <1>8

\* The guard, and the devices it registers.
LEMMA GuardStepTyped ==
  ASSUME AccessTypeOK, focus = "access", UNCHANGED focus,
         \/ \E c \in Clients:
              \/ \E u \in Accounts, f \in Fingerprints: BeginRequest(c, u, f)
              \/ AnswerRequest(c) \/ FindOwners(c)
              \/ \E heard \in BOOLEAN: RegisterDevice(c, heard)
         \/ \E u \in Accounts, f \in Fingerprints: RevokeDevice(u, f)
         \/ \E u \in Accounts: ExpireContext(u)
  PROVE  AccessTypeOK'
  <1> DEFINE Held == Accounts \X Fingerprints
             Pairs == Accounts \X Accounts \X Fingerprints \X BOOLEAN
  <1>1. /\ call \in [Clients -> AccessCall] /\ account \in [Accounts -> AccountRow]
        /\ context \in SUBSET Accounts /\ device \in SUBSET Held /\ reported \in SUBSET Pairs
    BY DEF AccessTypeOK
  <1>2. ASSUME UNCHANGED firebase, call' \in [Clients -> AccessCall],
               account' \in [Accounts -> AccountRow], context' \in SUBSET Accounts,
               device' \in SUBSET Held, reported' \in SUBSET Pairs
        PROVE  AccessTypeOK'
    BY <1>2 DEF AccessTypeOK
  <1>3. ASSUME NEW c \in Clients, NEW next \in AccessCall, Goto(c, next)
        PROVE  call' \in [Clients -> AccessCall]
    BY <1>1, <1>3, CallTyped
  <1>4. ASSUME NEW c \in Clients, NEW u \in Accounts, NEW f \in Fingerprints, BeginRequest(c, u, f)
        PROVE  AccessTypeOK'
    <2>1. [at |-> "answer", who |-> u, print |-> f] \in AccessCall
      BY AccessCallsAre
    <2>2. call' \in [Clients -> AccessCall]
      BY <1>1, <1>3, <1>4, <2>1 DEF BeginRequest
    <2>3. account[u] \in AccountRow
      BY <1>1
    <2>4. [account[u] EXCEPT !.linked = TRUE] \in AccountRow
      BY <2>3, AccountFields
    <2>5. account' \in [Accounts -> AccountRow]
      BY <1>1, <1>4, <2>4 DEF BeginRequest
    <2> QED
      BY <1>1, <1>2, <1>4, <2>2, <2>5 DEF BeginRequest
  <1>5. ASSUME NEW c \in Clients, AnswerRequest(c)
        PROVE  AccessTypeOK'
    <2>1. call[c].who \in Accounts /\ call[c].print \in Fingerprints
      BY <1>1, <1>5 DEF AnswerRequest, AccessCall, Idle
    <2>2. [at |-> "owners", who |-> call[c].who, print |-> call[c].print] \in AccessCall
      BY <2>1, AccessCallsAre
    <2>3. call' \in [Clients -> AccessCall] /\ context' \in SUBSET Accounts
      BY <1>1, <1>3, <1>5, <2>1, <2>2 DEF AnswerRequest
    <2> QED
      BY <1>1, <1>2, <1>5, <2>3 DEF AnswerRequest
  <1>6. ASSUME NEW c \in Clients, FindOwners(c)
        PROVE  AccessTypeOK'
    <2>1. call[c].who \in Accounts /\ call[c].print \in Fingerprints
      BY <1>1, <1>6 DEF FindOwners, AccessCall, Idle
    <2>2. PICK others \in SUBSET Accounts: others = OtherOwners(call[c].who, call[c].print)
      BY DEF OtherOwners
    <2>3. [at |-> "register", who |-> call[c].who, print |-> call[c].print, others |-> others]
            \in AccessCall
      BY <2>1, <2>2, AccessCallsAre
    <2>4. call' \in [Clients -> AccessCall]
      BY <1>3, <1>6, <2>2, <2>3, AccessCallsAre DEF FindOwners, Return
    <2> QED
      BY <1>1, <1>2, <1>6, <2>4 DEF FindOwners, accessVars
  <1>7. ASSUME NEW c \in Clients, NEW heard \in BOOLEAN, RegisterDevice(c, heard)
        PROVE  AccessTypeOK'
    <2>1. /\ call[c].who \in Accounts /\ call[c].print \in Fingerprints
          /\ call[c].others \in SUBSET Accounts
      BY <1>1, <1>7 DEF RegisterDevice, AccessCall, Idle
    <2>2. SharedBy(call[c].who, call[c].others, call[c].print, heard) \in SUBSET Pairs
      BY <2>1 DEF SharedBy
    <2>3. device' \in SUBSET Held /\ reported' \in SUBSET Pairs
      BY <1>1, <1>7, <2>1, <2>2 DEF RegisterDevice
    <2>4. call' \in [Clients -> AccessCall]
      BY <1>3, <1>7, AccessCallsAre DEF RegisterDevice, Return
    <2> QED
      BY <1>1, <1>2, <1>7, <2>3, <2>4 DEF RegisterDevice
  <1>8. ASSUME NEW u \in Accounts, NEW f \in Fingerprints, RevokeDevice(u, f)
        PROVE  AccessTypeOK'
    BY <1>1, <1>2, <1>8 DEF RevokeDevice
  <1>9. ASSUME NEW u \in Accounts, ExpireContext(u)
        PROVE  AccessTypeOK'
    BY <1>1, <1>2, <1>9 DEF ExpireContext
  <1> QED
    BY <1>4, <1>5, <1>6, <1>7, <1>8, <1>9

LEMMA AccessStepTyped ==
  ASSUME AccessTypeOK, focus = "access", UNCHANGED focus, AccessNext
  PROVE  AccessTypeOK'
  BY AccountStepTyped, GuardStepTyped, Zenon DEF AccessNext
-----------------------------------------------------------------------------
\* Roles, links and answers.
LEMMA RoleFields ==
  ASSUME NEW row \in RoleRow
  PROVE  /\ \A value \in BOOLEAN: [row EXCEPT !.active = value] \in RoleRow
         /\ \A value \in BOOLEAN: [row EXCEPT !.exists = value] \in RoleRow
         /\ \A ps \in SUBSET Permissions: [row EXCEPT !.permits = ps] \in RoleRow
  BY DEF RoleRow

LEMMA RoleCallsAre ==
  /\ Idle \in RoleCall
  /\ \A r \in Roles: [at |-> "saved", role |-> r] \in RoleCall
  /\ \A r \in Roles: \A ps \in SUBSET Permissions:
       [at |-> "emptied", role |-> r, permits |-> ps] \in RoleCall
  /\ \A u \in Holders: \A o \in Branches: \A ps \in SUBSET Permissions:
       [at |-> "read", user |-> u, branch |-> o, permits |-> ps] \in RoleCall
  BY DEF RoleCall

\* what the guard remembers
GuardTyped ==
  /\ cached \in [Keys -> {Missing} \cup SUBSET Permissions]
  /\ untold \in SUBSET Keys

LEMMA NotifiedTyped ==
  ASSUME GuardTyped, NEW told, NEW changed, Notify(told, changed)
  PROVE  GuardTyped'
  BY DEF GuardTyped, Notify

\* The rows of the roles.
LEMMA RoleRowStepTyped ==
  ASSUME RoleTypeOK, focus = "roles", UNCHANGED focus,
         \/ \E r \in Roles: CreateRole(r) \/ HardDeleteRole(r)
         \/ \E o \in Branches, rs \in SUBSET Roles \ {{}}, on \in BOOLEAN: SetRolesActive(o, rs, on)
         \/ \E ps \in SUBSET Permissions: SeedPermissions(ps)
         \/ InitializeDefaultPermissions
         \/ \E p \in Permissions: CreatePermission(p) \/ DeletePermission(p)
  PROVE  RoleTypeOK'
  <1>1. role \in [Roles -> RoleRow] /\ known \in SUBSET Permissions
    BY DEF RoleTypeOK
  <1>2. ASSUME role' \in [Roles -> RoleRow], known' \in SUBSET Permissions,
               UNCHANGED <<link, call>>,
               UNCHANGED <<cached, untold>> \/ \E told, changed: Notify(told, changed)
        PROVE  RoleTypeOK'
    <2>1. GuardTyped
      BY DEF RoleTypeOK, GuardTyped
    <2>2. CASE UNCHANGED <<cached, untold>>
      BY <1>2, <2>2 DEF RoleTypeOK
    <2>3. CASE \E told, changed: Notify(told, changed)
      <3>1. GuardTyped'
        BY <2>1, <2>3, NotifiedTyped
      <3> QED
        BY <1>2, <3>1 DEF RoleTypeOK, GuardTyped
    <2> QED
      BY <1>2, <2>2, <2>3
  <1>3. ASSUME NEW r \in Roles, CreateRole(r)
        PROVE  RoleTypeOK'
    <2>1. [exists |-> TRUE, active |-> TRUE, permits |-> {}] \in RoleRow
      BY DEF RoleRow
    <2> QED
      BY <1>1, <1>2, <1>3, <2>1 DEF CreateRole
  <1>4. ASSUME NEW r \in Roles, HardDeleteRole(r)
        PROVE  RoleTypeOK'
    <2>1. role' = [role EXCEPT ![r] = [role[r] EXCEPT !.exists = FALSE]]
      BY <1>4 DEF HardDeleteRole
    <2>2. [role[r] EXCEPT !.exists = FALSE] \in RoleRow
      BY <1>1, RoleFields
    <2> QED
      BY <1>1, <1>2, <1>4, <2>1, <2>2 DEF HardDeleteRole
  <1>5. ASSUME NEW o \in Branches, NEW rs \in SUBSET Roles, NEW on \in BOOLEAN,
               SetRolesActive(o, rs, on)
        PROVE  RoleTypeOK'
    <2> DEFINE put(r) == IF r \in rs /\ OrgOf[r] = o /\ role[r].exists
                         THEN [role[r] EXCEPT !.active = on] ELSE role[r]
    <2>1. \A r \in Roles: put(r) \in RoleRow
      BY <1>1, RoleFields
    <2>2. /\ role' = [r \in Roles |-> put(r)] /\ UNCHANGED <<known, link, call>>
          /\ Notify({}, Holders \X {o})
      BY ONLY <1>5, Zenon DEF SetRolesActive
    <2> HIDE DEF put
    <2> QED
      BY <1>1, <1>2, <2>1, <2>2
  <1>6. ASSUME NEW ps \in SUBSET Permissions, SeedPermissions(ps)
        PROVE  RoleTypeOK'
    BY <1>1, <1>2, <1>6 DEF SeedPermissions
  <1>7. ASSUME NEW p \in Permissions, CreatePermission(p)
        PROVE  RoleTypeOK'
    BY <1>1, <1>2, <1>7 DEF CreatePermission
  <1>8. ASSUME NEW p \in Permissions, DeletePermission(p)
        PROVE  RoleTypeOK'
    <2> DEFINE put(r) == [role[r] EXCEPT !.permits = @ \ {p}]
    <2>1. ASSUME NEW r \in Roles
          PROVE  put(r) \in RoleRow
      <3>1. role[r] \in RoleRow /\ role[r].permits \ {p} \in SUBSET Permissions
        BY <1>1 DEF RoleRow
      <3> QED
        BY <3>1, RoleFields
    <2>2. /\ role' = [r \in Roles |-> put(r)] /\ known' = known \ {p}
          /\ Notify({}, Keys) /\ UNCHANGED <<link, call>>
      BY ONLY <1>8, Zenon DEF DeletePermission
    <2> HIDE DEF put
    <2> QED
      BY <1>1, <1>2, <2>1, <2>2
  <1> QED
    BY <1>3, <1>4, <1>5, <1>6, <1>7, <1>8 DEF InitializeDefaultPermissions

\* The calls of several steps, of the administrators and of the guard.
LEMMA RoleCallStepTyped ==
  ASSUME RoleTypeOK, focus = "roles", UNCHANGED focus, NEW c \in Clients,
         \/ \E by \in Holders, r \in Roles, o \in Branches:
              \/ \E permits \in SUBSET Permissions: BeginSetPermissions(c, by, r, o, permits)
              \/ \E p \in Permissions, add \in BOOLEAN: EditPermission(c, by, r, o, p, add)
         \/ \E u \in Holders, o \in Branches: ReadPermissions(c, u, o)
         \/ SavePermissions(c) \/ RoleChanged(c) \/ CachePermissions(c)
  PROVE  RoleTypeOK'
  <1>1. /\ call \in [Clients -> RoleCall] /\ call[c] \in RoleCall
        /\ role \in [Roles -> RoleRow] /\ GuardTyped
    BY DEF RoleTypeOK, GuardTyped
  <1>2. ASSUME UNCHANGED <<known, link>>, role' \in [Roles -> RoleRow],
               GuardTyped \/ GuardTyped', UNCHANGED <<cached, untold>> \/ GuardTyped',
               call' \in [Clients -> RoleCall]
        PROVE  RoleTypeOK'
    BY <1>2 DEF RoleTypeOK, GuardTyped
  <1>3. ASSUME NEW next \in RoleCall, Goto(c, next)
        PROVE  call' \in [Clients -> RoleCall]
    BY <1>1, <1>3, CallTyped
  <1>4. ASSUME Return(c)
        PROVE  call' \in [Clients -> RoleCall]
    BY <1>3, <1>4, RoleCallsAre DEF Return
  <1>5. ASSUME NEW r \in Roles, NEW ps \in SUBSET Permissions,
               role' = [role EXCEPT ![r] = [role[r] EXCEPT !.permits = ps]]
        PROVE  role' \in [Roles -> RoleRow]
    <2>1. role[r] \in RoleRow
      BY <1>1
    <2>2. [role[r] EXCEPT !.permits = ps] \in RoleRow
      BY <2>1, RoleFields
    <2> QED
      BY <1>1, <1>5, <2>2
  <1>6. \A r \in Roles: role[r].permits \in SUBSET Permissions
    BY <1>1 DEF RoleRow
  <1>7. ASSUME NEW by \in Holders, NEW r \in Roles, NEW o \in Branches, NEW permits \in SUBSET Permissions,
               BeginSetPermissions(c, by, r, o, permits)
        PROVE  RoleTypeOK'
    <2>1. [at |-> "emptied", role |-> r, permits |-> permits] \in RoleCall
      BY RoleCallsAre
    <2>2. role' = [role EXCEPT ![r] = [role[r] EXCEPT !.permits = {}]]
      BY <1>7 DEF BeginSetPermissions
    <2>3. role' \in [Roles -> RoleRow]
      BY <1>5, <2>2, {} \in SUBSET Permissions
    <2> QED
      BY <1>1, <1>2, <1>3, <1>7, <2>1, <2>3 DEF BeginSetPermissions
  <1>8. ASSUME NEW by \in Holders, NEW r \in Roles, NEW o \in Branches, NEW p \in Permissions,
               NEW add \in BOOLEAN, EditPermission(c, by, r, o, p, add)
        PROVE  RoleTypeOK'
    <2> DEFINE permits == IF add THEN role[r].permits \cup {p} ELSE role[r].permits \ {p}
    <2>1. [at |-> "saved", role |-> r] \in RoleCall
      BY RoleCallsAre
    <2>2. permits \in SUBSET Permissions
      BY <1>6
    <2>3. role' = [role EXCEPT ![r] = [role[r] EXCEPT !.permits = permits]]
      BY <1>8 DEF EditPermission
    <2> HIDE DEF permits
    <2>4. role' \in [Roles -> RoleRow]
      BY <1>5, <2>2, <2>3
    <2> QED
      BY <1>1, <1>2, <1>3, <1>8, <2>1, <2>4 DEF EditPermission
  <1>9. ASSUME NEW u \in Holders, NEW o \in Branches, ReadPermissions(c, u, o)
        PROVE  RoleTypeOK'
    <2>1. PICK permits \in SUBSET Permissions: permits = Granted(u, o)
      BY <1>6 DEF Granted
    <2>2. [at |-> "read", user |-> u, branch |-> o, permits |-> permits] \in RoleCall
      BY RoleCallsAre
    <2> QED
      BY <1>1, <1>2, <1>3, <1>9, <2>1, <2>2 DEF ReadPermissions, roleVars
  <1>10. ASSUME SavePermissions(c)
         PROVE  RoleTypeOK'
    <2>1. PICK r \in Roles: r = call[c].role
      BY <1>1, <1>10 DEF SavePermissions, RoleCall, Idle
    <2>2. call[c].permits \in SUBSET Permissions
      BY <1>1, <1>10 DEF SavePermissions, RoleCall, Idle
    <2>3. role[r].permits \cup call[c].permits \in SUBSET Permissions
      BY <1>6, <2>2
    <2>4. [at |-> "saved", role |-> r] \in RoleCall
      BY RoleCallsAre
    <2>5. CASE role[r].exists /\ call[c].permits \subseteq known
      <3>1. role' = [role EXCEPT ![r] = [role[r] EXCEPT !.permits = role[r].permits \cup call[c].permits]]
        BY <1>10, <2>1, <2>5 DEF SavePermissions
      <3>2. role' \in [Roles -> RoleRow]
        BY <1>5, <2>3, <3>1
      <3> QED
        BY <1>1, <1>2, <1>3, <1>10, <2>1, <2>4, <2>5, <3>2 DEF SavePermissions
    <2>6. CASE ~(role[r].exists /\ call[c].permits \subseteq known)
      BY <1>1, <1>2, <1>4, <1>10, <2>1, <2>6 DEF SavePermissions
    <2> QED
      BY <2>5, <2>6
  <1>11. ASSUME RoleChanged(c)
         PROVE  RoleTypeOK'
    <2>1. GuardTyped'
      BY <1>1, <1>11, NotifiedTyped DEF RoleChanged
    <2> QED
      BY <1>1, <1>2, <1>4, <1>11, <2>1 DEF RoleChanged
  <1>12. ASSUME CachePermissions(c)
         PROVE  RoleTypeOK'
    <2>1. /\ <<call[c].user, call[c].branch>> \in Holders \X Branches
          /\ call[c].permits \in SUBSET Permissions
      BY <1>1, <1>12 DEF CachePermissions, RoleCall, Idle
    <2>2. GuardTyped'
      BY <1>1, <1>12, <2>1 DEF CachePermissions, GuardTyped, Keys
    <2> QED
      BY <1>1, <1>2, <1>4, <1>12, <2>2 DEF CachePermissions
  <1> QED
    BY <1>7, <1>8, <1>9, <1>10, <1>11, <1>12

\* Who holds a role, and what the guard forgets.
LEMMA LinkStepTyped ==
  ASSUME RoleTypeOK, focus = "roles", UNCHANGED focus,
         \/ \E u \in Holders, r \in Roles:
              \/ \E by \in Holders, o \in Branches, until \in BOOLEAN: AssignRole(by, u, r, o, until)
              \/ \E o \in Branches: RemoveRole(u, r, o)
              \/ LapseLink(u, r)
              \/ ChangeRole(u, r)
         \/ \E u \in Holders: EnsureBaseRole(u)
         \/ \E u \in Holders, o \in Branches: ExpireAnswer(u, o)
  PROVE  RoleTypeOK'
  <1> DEFINE Links == [Roles -> LinkStates]
  <1>1. link \in [Holders -> Links] /\ GuardTyped
    BY DEF RoleTypeOK, GuardTyped
  <1>2. ASSUME UNCHANGED <<known, role, call>>, link' \in [Holders -> Links],
               \E told, changed: Notify(told, changed)
        PROVE  RoleTypeOK'
    <2>1. GuardTyped'
      BY <1>1, <1>2, NotifiedTyped
    <2> QED
      BY <1>2, <2>1 DEF RoleTypeOK, GuardTyped
  <1>4. ASSUME NEW u \in Holders, NEW r \in Roles, NEW state \in LinkStates,
               link' = [link EXCEPT ![u][r] = state]
        PROVE  link' \in [Holders -> Links]
    <2>1. [link[u] EXCEPT ![r] = state] \in Links
      BY <1>1
    <2> QED
      BY <1>1, <1>4, <2>1
  <1>5. "none" \in LinkStates /\ "active" \in LinkStates /\ "inactive" \in LinkStates
        /\ "lapsed" \in LinkStates
    BY DEF LinkStates
  <1>6. ASSUME NEW u \in Holders, NEW r \in Roles, NEW by \in Holders, NEW o \in Branches,
               NEW until \in BOOLEAN, AssignRole(by, u, r, o, until)
        PROVE  RoleTypeOK'
    <2>1. CASE link[u][r] = "none"
      BY <1>2, <1>4, <1>5, <1>6, <2>1 DEF AssignRole
    <2>2. CASE link[u][r] # "none"
      <3>1. link' \in [Holders -> Links]
        BY <1>1, <1>4, <1>5, <1>6, <2>2 DEF AssignRole
      <3> QED
        BY <1>1, <1>2, <1>6, <2>2, <3>1 DEF AssignRole
    <2> QED
      BY <2>1, <2>2
  <1>7. ASSUME NEW u \in Holders, NEW r \in Roles, NEW o \in Branches, RemoveRole(u, r, o)
        PROVE  RoleTypeOK'
    BY <1>2, <1>4, <1>5, <1>7 DEF RemoveRole
  <1>8. ASSUME NEW u \in Holders, NEW r \in Roles, LapseLink(u, r)
        PROVE  RoleTypeOK'
    BY <1>1, <1>2, <1>4, <1>5, <1>8 DEF LapseLink
  <1>9. ASSUME NEW state \in LinkStates
        PROVE  WithBaseRole(state) \in LinkStates
    BY <1>5, <1>9 DEF WithBaseRole
  <1>10. ASSUME NEW u \in Holders, NEW r \in Roles, ChangeRole(u, r)
         PROVE  RoleTypeOK'
    <2> DEFINE put(x) == IF x = r THEN "active"
                         ELSE IF x \in Obsolete(u, r) THEN "inactive"
                         ELSE IF x = BaseRole /\ role[x].exists /\ role[x].active
                              THEN WithBaseRole(link[u][x])
                         ELSE link[u][x]
    <2>1. \A x \in Roles: link[u][x] \in LinkStates
      BY <1>1
    <2>2. \A x \in Roles: put(x) \in LinkStates
      BY <1>5, <1>9, <2>1
    <2>3. link' = [link EXCEPT ![u] = [x \in Roles |-> put(x)]]
      BY ONLY <1>10, Zenon DEF ChangeRole
    <2> HIDE DEF put
    <2>4. link' \in [Holders -> Links]
      BY <1>1, <2>2, <2>3
    <2> QED
      BY <1>1, <1>2, <1>10, <2>4 DEF ChangeRole
  <1>11. ASSUME NEW u \in Holders, EnsureBaseRole(u)
         PROVE  RoleTypeOK'
    <2>1. link' = [link EXCEPT ![u] = [link[u] EXCEPT ![BaseRole] = WithBaseRole(link[u][BaseRole])]]
      BY <1>11 DEF EnsureBaseRole
    <2>2. link[u] \in Links
      BY <1>1
    <2>3. [link[u] EXCEPT ![BaseRole] = WithBaseRole(link[u][BaseRole])] \in Links
      <3>1. CASE BaseRole \in Roles
        <4>1. WithBaseRole(link[u][BaseRole]) \in LinkStates
          BY <1>9, <2>2, <3>1
        <4> QED
          BY <2>2, <4>1
      <3>2. CASE BaseRole \notin Roles
        BY <2>2, <3>2
      <3> QED
        BY <3>1, <3>2
    <2>4. link' \in [Holders -> Links]
      BY <1>1, <2>1, <2>3
    <2> QED
      BY <1>1, <1>2, <1>11, <2>4 DEF EnsureBaseRole
  <1>12. ASSUME NEW u \in Holders, NEW o \in Branches, ExpireAnswer(u, o)
         PROVE  RoleTypeOK'
    BY <1>1, <1>2, <1>12 DEF ExpireAnswer
  <1> QED
    BY <1>6, <1>7, <1>8, <1>10, <1>11, <1>12

LEMMA RoleStepTyped ==
  ASSUME RoleTypeOK, focus = "roles", UNCHANGED focus, RoleNext
  PROVE  RoleTypeOK'
  BY RoleRowStepTyped, RoleCallStepTyped, LinkStepTyped, Zenon DEF RoleNext
-----------------------------------------------------------------------------
\* Schedules, payments and salaries.
LEMMA PayrollFields ==
  /\ \A row \in ScheduleRow: \A value \in BOOLEAN:
       /\ [row EXCEPT !.active = value] \in ScheduleRow
       /\ [row EXCEPT !.deleted = value] \in ScheduleRow
  /\ \A row \in ScheduleRow: \A date \in PayDays: [row EXCEPT !.payDay = date] \in ScheduleRow
  /\ \A row \in PaymentRow: [row EXCEPT !.status = "paid"] \in PaymentRow
  /\ \A row \in EntryRow: \A value \in BOOLEAN:
       /\ [row EXCEPT !.open = value] \in EntryRow
       /\ [row EXCEPT !.deleted = value] \in EntryRow
  /\ \A row \in EntryRow: \A amount \in Amounts: [row EXCEPT !.amount = amount] \in EntryRow
  BY DEF ScheduleRow, PaymentRow, EntryRow

\* The schedules, and the rows changed in one step.
LEMMA ScheduleStepTyped ==
  ASSUME PayrollTypeOK, focus = "payroll", UNCHANGED focus,
         \/ \E s \in Schedules:
              \/ \E date \in PayDays: CreateSchedule(s, date)
              \/ \E date \in PayDays, active \in BOOLEAN: UpdateSchedule(s, date, active)
              \/ DeleteSchedule(s)
         \/ \E i \in DOMAIN payments: MarkPaymentPaid(i)
         \/ \E i \in DOMAIN entries:
              \/ \E amount \in Amounts, open \in BOOLEAN: UpdateEntry(i, amount, open)
              \/ DeleteEntry(i)
  PROVE  PayrollTypeOK'
  <1>1. /\ schedule \in [Schedules -> ScheduleRow] /\ payments \in Seq(PaymentRow)
        /\ entries \in Seq(EntryRow) /\ Len(payments) <= MaxPayments /\ Len(entries) <= MaxEntries
    BY DEF PayrollTypeOK
  <1>2. ASSUME schedule' \in [Schedules -> ScheduleRow], UNCHANGED <<payments, salary, entries, call>>
        PROVE  PayrollTypeOK'
    BY <1>2 DEF PayrollTypeOK
  <1>3. ASSUME NEW i \in DOMAIN entries, NEW row \in EntryRow, entries' = [entries EXCEPT ![i] = row],
               UNCHANGED <<schedule, payments, salary, call>>
        PROVE  PayrollTypeOK'
    <2>1. entries' \in Seq(EntryRow) /\ Len(entries') = Len(entries)
      BY <1>1, <1>3
    <2> QED
      BY <1>1, <1>3, <2>1 DEF PayrollTypeOK
  <1>9. TRUE \in BOOLEAN /\ FALSE \in BOOLEAN
    OBVIOUS
  <1>4. ASSUME NEW s \in Schedules, NEW date \in PayDays, CreateSchedule(s, date)
        PROVE  PayrollTypeOK'
    <2> DEFINE put(x) == IF x = s THEN [exists |-> TRUE, active |-> TRUE, deleted |-> FALSE,
                                        payDay |-> date]
                         ELSE IF OfEmployee[x] = OfEmployee[s] THEN [schedule[x] EXCEPT !.active = FALSE]
                         ELSE schedule[x]
    <2>1. [exists |-> TRUE, active |-> TRUE, deleted |-> FALSE, payDay |-> date] \in ScheduleRow
      BY DEF ScheduleRow
    <2>2. ASSUME NEW x \in Schedules
          PROVE  schedule[x] \in ScheduleRow /\ [schedule[x] EXCEPT !.active = FALSE] \in ScheduleRow
      <3>1. schedule[x] \in ScheduleRow
        BY <1>1
      <3> QED
        BY <1>9, <3>1, PayrollFields
    <2>3. \A x \in Schedules: put(x) \in ScheduleRow
      BY <2>1, <2>2
    <2>4. schedule' = [x \in Schedules |-> put(x)] /\ UNCHANGED <<payments, salary, entries, call>>
      BY ONLY <1>4, Zenon DEF CreateSchedule
    <2> HIDE DEF put
    <2> QED
      BY <1>2, <2>3, <2>4
  <1>5. ASSUME NEW s \in Schedules, NEW date \in PayDays, NEW active \in BOOLEAN,
               UpdateSchedule(s, date, active)
        PROVE  PayrollTypeOK'
    <2> DEFINE dated == [schedule[s] EXCEPT !.payDay = date]
               row == [dated EXCEPT !.active = active]
    <2>1. schedule[s] \in ScheduleRow
      BY <1>1
    <2>2. dated \in ScheduleRow
      BY <2>1, PayrollFields
    <2>3. schedule' = [schedule EXCEPT ![s] = row]
      BY <1>1, <1>5 DEF UpdateSchedule
    <2> HIDE DEF dated
    <2>4. row \in ScheduleRow
      BY <2>2, PayrollFields
    <2> HIDE DEF row
    <2> QED
      BY <1>1, <1>2, <1>5, <2>3, <2>4 DEF UpdateSchedule
  <1>6. ASSUME NEW s \in Schedules, DeleteSchedule(s)
        PROVE  PayrollTypeOK'
    <2> DEFINE marked == [schedule[s] EXCEPT !.deleted = TRUE]
               row == [marked EXCEPT !.active = FALSE]
    <2>1. schedule[s] \in ScheduleRow
      BY <1>1
    <2>2. marked \in ScheduleRow
      BY <1>9, <2>1, PayrollFields
    <2>3. schedule' = [schedule EXCEPT ![s] = row]
      BY <1>1, <1>6 DEF DeleteSchedule
    <2> HIDE DEF marked
    <2>4. row \in ScheduleRow
      BY <1>9, <2>2, PayrollFields
    <2> HIDE DEF row
    <2> QED
      BY <1>1, <1>2, <1>6, <2>3, <2>4 DEF DeleteSchedule
  <1>7. ASSUME NEW i \in DOMAIN payments, MarkPaymentPaid(i)
        PROVE  PayrollTypeOK'
    <2>1. payments[i] \in PaymentRow
      BY <1>1
    <2>2. [payments[i] EXCEPT !.status = "paid"] \in PaymentRow
      BY <2>1, PayrollFields
    <2>3. payments' = [payments EXCEPT ![i] = [payments[i] EXCEPT !.status = "paid"]]
      BY <1>7 DEF MarkPaymentPaid
    <2>4. payments' \in Seq(PaymentRow) /\ Len(payments') = Len(payments)
      BY <1>1, <2>2, <2>3
    <2> QED
      BY <1>1, <1>7, <2>4 DEF MarkPaymentPaid, PayrollTypeOK
  <1>8. ASSUME NEW i \in DOMAIN entries, NEW amount \in Amounts, NEW open \in BOOLEAN,
               UpdateEntry(i, amount, open)
        PROVE  PayrollTypeOK'
    <2> DEFINE paid == [entries[i] EXCEPT !.amount = amount]
               row == [paid EXCEPT !.open = open]
    <2>1. entries[i] \in EntryRow
      BY <1>1
    <2>2. paid \in EntryRow
      BY <2>1, PayrollFields
    <2> DEFINE first == [entries EXCEPT ![i] = paid]
    <2>3. /\ entries' = [first EXCEPT ![i] = [first[i] EXCEPT !.open = open]]
          /\ UNCHANGED <<schedule, payments, salary, call>>
      BY ONLY <1>8, Zenon DEF UpdateEntry
    <2> HIDE DEF paid
    <2>4. row \in EntryRow
      BY <2>2, PayrollFields
    <2>5. first[i] = paid
      OBVIOUS
    <2>6. entries' = [first EXCEPT ![i] = row]
      BY <2>3, <2>5
    <2> HIDE DEF row
    <2>7. entries' = [entries EXCEPT ![i] = row]
      BY <1>1, <2>6
    <2> QED
      BY ONLY <1>3, <2>3, <2>4, <2>7, Zenon
  <1>10. ASSUME NEW i \in DOMAIN entries, DeleteEntry(i)
         PROVE  PayrollTypeOK'
    <2>1. entries[i] \in EntryRow
      BY <1>1
    <2>2. [entries[i] EXCEPT !.deleted = TRUE] \in EntryRow
      BY <1>9, <2>1, PayrollFields
    <2>3. entries' = [entries EXCEPT ![i] = [entries[i] EXCEPT !.deleted = TRUE]]
      BY <1>10 DEF DeleteEntry
    <2> QED
      BY <1>1, <1>3, <1>10, <2>2, <2>3 DEF DeleteEntry
  <1> QED
    BY <1>4, <1>5, <1>6, <1>7, <1>8, <1>10

\* The generation of a month, and a raise.
LEMMA PayrollCallStepTyped ==
  ASSUME PayrollTypeOK, focus = "payroll", UNCHANGED focus, NEW c \in Clients,
         \/ \E m \in Months: BeginGenerate(c, m)
         \/ \E s \in Schedules: LookForPayment(c, s)
         \/ InsertPayment(c) \/ EndGenerate(c)
         \/ \E e \in Staff, amount \in Amounts: BeginRaise(c, e, amount)
         \/ FinishRaise(c)
  PROVE  PayrollTypeOK'
  <1> DEFINE Salaries == [Staff -> Amounts \cup {0}]
  <1>1. /\ call \in [Clients -> PayrollCall] /\ call[c] \in PayrollCall
        /\ schedule \in [Schedules -> ScheduleRow] /\ payments \in Seq(PaymentRow)
        /\ entries \in Seq(EntryRow) /\ Len(payments) <= MaxPayments /\ Len(entries) <= MaxEntries
        /\ salary \in Salaries
    BY DEF PayrollTypeOK
  <1>2. ASSUME NEW next \in PayrollCall, Goto(c, next)
        PROVE  call' \in [Clients -> PayrollCall]
    BY <1>1, <1>2, CallTyped
  <1>3. Idle \in PayrollCall
    BY DEF PayrollCall
  <1>4. ASSUME call' \in [Clients -> PayrollCall], UNCHANGED payrollVars
        PROVE  PayrollTypeOK'
    BY <1>4 DEF PayrollTypeOK, payrollVars
  <1>5. ASSUME NEW m \in Months, NEW todo \in SUBSET Schedules, NEW wages \in Salaries
        PROVE  [at |-> "generate", month |-> m, todo |-> todo, of |-> wages] \in PayrollCall
    BY DEF PayrollCall
  <1>6. ASSUME call[c].at = "generate"
        PROVE  call[c].month \in Months /\ call[c].todo \in SUBSET Schedules /\ call[c].of \in Salaries
    BY <1>1, <1>6 DEF PayrollCall, Idle
  <1>7. ASSUME NEW m \in Months, BeginGenerate(c, m)
        PROVE  PayrollTypeOK'
    <2>1. PICK todo \in SUBSET Schedules: todo = {s \in Schedules: schedule[s].exists /\ schedule[s].active}
      OBVIOUS
    <2>2. [at |-> "generate", month |-> m, todo |-> todo, of |-> salary] \in PayrollCall
      BY <1>1, <1>5
    <2> QED
      BY <1>2, <1>4, <1>7, <2>1, <2>2 DEF BeginGenerate
  <1>8. ASSUME NEW s \in Schedules, LookForPayment(c, s)
        PROVE  PayrollTypeOK'
    <2>1. call[c].month \in Months /\ call[c].todo \in SUBSET Schedules /\ call[c].of \in Salaries
      BY <1>6, <1>8 DEF LookForPayment
    <2>2. PICK date \in Nat: date = PayDay(s, call[c].month)
      <3>1. schedule[s] \in ScheduleRow
        BY <1>1
      <3>2. schedule[s].payDay \in Nat
        BY <3>1, PayrollAssumption DEF ScheduleRow
      <3>3. LastDayOf[call[c].month] \in Nat
        BY <2>1, PayrollAssumption DEF Months
      <3> QED
        BY <3>2, <3>3 DEF PayDay
    <2>3. PICK rest \in SUBSET Schedules: rest = call[c].todo \ {s}
      BY <2>1
    <2>4. [at |-> "generate", month |-> call[c].month, todo |-> rest, of |-> call[c].of] \in PayrollCall
      BY <1>5, <2>1
    <2>5. [at |-> "insert", month |-> call[c].month, todo |-> rest, of |-> call[c].of, schedule |-> s,
           day |-> date] \in PayrollCall
      BY <2>1 DEF PayrollCall
    <2>6. /\ \/ Goto(c, [at |-> "generate", month |-> call[c].month, todo |-> rest, of |-> call[c].of])
             \/ Goto(c, [at |-> "insert", month |-> call[c].month, todo |-> rest, of |-> call[c].of,
                         schedule |-> s, day |-> date])
          /\ UNCHANGED payrollVars
      BY <1>8, <2>2, <2>3 DEF LookForPayment
    <2>7. call' \in [Clients -> PayrollCall]
      BY <1>2, <2>4, <2>5, <2>6
    <2> QED
      BY <1>4, <2>6, <2>7
  <1>9. ASSUME InsertPayment(c)
        PROVE  PayrollTypeOK'
    <2>1. /\ call[c].month \in Months /\ call[c].todo \in SUBSET Schedules /\ call[c].of \in Salaries
          /\ call[c].schedule \in Schedules /\ call[c].day \in Nat
      BY <1>1, <1>9 DEF InsertPayment, PayrollCall, Idle
    <2>2. PICK e \in Staff: e = OfEmployee[call[c].schedule]
      BY <2>1, PayrollAssumption
    <2> DEFINE row == [employee |-> e, month |-> call[c].month, day |-> call[c].day,
                       amount |-> call[c].of[e], status |-> "scheduled"]
    <2>3. row \in PaymentRow
      BY <2>1 DEF PaymentRow
    <2>4. payments' = Append(payments, row) /\ Len(payments) < MaxPayments
      BY <1>9, <2>2 DEF InsertPayment
    <2> HIDE DEF row
    <2>5. payments' \in Seq(PaymentRow) /\ Len(payments') <= MaxPayments
      BY <1>1, <2>3, <2>4, PayrollAssumption
    <2>6. [at |-> "generate", month |-> call[c].month, todo |-> call[c].todo, of |-> call[c].of]
            \in PayrollCall
      BY <1>5, <2>1
    <2>7. call' \in [Clients -> PayrollCall]
      BY <1>2, <1>9, <2>6 DEF InsertPayment
    <2> QED
      BY <1>1, <1>9, <2>5, <2>7 DEF InsertPayment, PayrollTypeOK
  <1>10. ASSUME EndGenerate(c)
         PROVE  PayrollTypeOK'
    BY <1>2, <1>3, <1>4, <1>10 DEF EndGenerate, Return
  <1>11. ASSUME NEW e \in Staff, NEW amount \in Amounts, BeginRaise(c, e, amount)
         PROVE  PayrollTypeOK'
    <2>1. entries' \in Seq(EntryRow) /\ Len(entries') <= MaxEntries
      <3>1. CASE UNCHANGED entries
        BY <1>1, <3>1
      <3>2. CASE \E i \in DOMAIN entries: entries' = [entries EXCEPT ![i].open = FALSE]
        <4>1. PICK i \in DOMAIN entries:
                entries' = [entries EXCEPT ![i] = [entries[i] EXCEPT !.open = FALSE]]
          BY <3>2
        <4>2. entries[i] \in EntryRow
          BY <1>1
        <4>3. [entries[i] EXCEPT !.open = FALSE] \in EntryRow
          BY <4>2, PayrollFields, FALSE \in BOOLEAN
        <4> QED
          BY <1>1, <4>1, <4>3
      <3> QED
        BY <1>11, <3>1, <3>2 DEF BeginRaise
    <2>2. [at |-> "raise", employee |-> e, amount |-> amount] \in PayrollCall
      BY DEF PayrollCall
    <2>3. call' \in [Clients -> PayrollCall]
      BY <1>2, <1>11, <2>2 DEF BeginRaise
    <2> QED
      BY <1>1, <1>11, <2>1, <2>3 DEF BeginRaise, PayrollTypeOK
  <1>12. ASSUME FinishRaise(c)
         PROVE  PayrollTypeOK'
    <2>1. call[c].employee \in Staff /\ call[c].amount \in Amounts
      BY <1>1, <1>12 DEF FinishRaise, PayrollCall, Idle
    <2> DEFINE row == [employee |-> call[c].employee, amount |-> call[c].amount,
                       open |-> TRUE, deleted |-> FALSE]
    <2>2. row \in EntryRow
      BY <2>1 DEF EntryRow
    <2>3. entries' = Append(entries, row) /\ Len(entries) < MaxEntries
      BY <1>12 DEF FinishRaise
    <2> HIDE DEF row
    <2>4. entries' \in Seq(EntryRow) /\ Len(entries') <= MaxEntries
      BY <1>1, <2>2, <2>3, PayrollAssumption
    <2>5. salary' \in Salaries
      BY <1>1, <1>12, <2>1 DEF FinishRaise
    <2>6. call' \in [Clients -> PayrollCall]
      BY <1>2, <1>3, <1>12 DEF FinishRaise, Return
    <2> QED
      BY <1>1, <1>12, <2>4, <2>5, <2>6 DEF FinishRaise, PayrollTypeOK
  <1> QED
    BY <1>7, <1>8, <1>9, <1>10, <1>11, <1>12

LEMMA PayrollStepTyped ==
  ASSUME PayrollTypeOK, focus = "payroll", UNCHANGED focus, PayrollNext
  PROVE  PayrollTypeOK'
  BY ScheduleStepTyped, PayrollCallStepTyped, Zenon DEF PayrollNext
-----------------------------------------------------------------------------
\* Organisations and departments.
LEMMA BranchFields ==
  /\ \A row \in OrganizationRow: \A flag \in BOOLEAN:
       [row EXCEPT !.root = flag] \in OrganizationRow /\ [row EXCEPT !.active = flag] \in OrganizationRow
  /\ \A row \in OrganizationRow: \A parent \in Organizations \cup {NoParent}:
       [row EXCEPT !.parent = parent] \in OrganizationRow
  /\ \A row \in DepartmentRow: \A flag \in BOOLEAN: [row EXCEPT !.active = flag] \in DepartmentRow
  BY DEF OrganizationRow, DepartmentRow

LEMMA BranchStepTyped ==
  ASSUME BranchTypeOK, focus = "branches", UNCHANGED focus, BranchNext
  PROVE  BranchTypeOK'
  <1> DEFINE Rows == OrganizationRow \cup {Gone}
             Offices == DepartmentRow \cup {Gone}
  <1>1. /\ organization \in [Organizations -> Rows] /\ department \in [Departments -> Offices]
        /\ call \in [Clients -> BranchCall]
    BY DEF BranchTypeOK
  <1>2. ASSUME NEW o \in Organizations, NEW row \in Rows,
               organization' = [organization EXCEPT ![o] = row], UNCHANGED department,
               call' \in [Clients -> BranchCall]
        PROVE  BranchTypeOK'
    BY <1>1, <1>2 DEF BranchTypeOK
  <1>3. ASSUME department' \in [Departments -> Offices], UNCHANGED <<organization, call>>
        PROVE  BranchTypeOK'
    BY <1>3 DEF BranchTypeOK
  <1>4. /\ Idle \in BranchCall
        /\ \A o \in Organizations: [at |-> "delete", organization |-> o] \in BranchCall
    BY DEF BranchCall
  <1>5. ASSUME NEW c \in Clients, NEW next \in BranchCall, Goto(c, next)
        PROVE  call' \in [Clients -> BranchCall]
    BY <1>1, <1>5, CallTyped
  <1>6. \A o \in Organizations: Exists(o) => organization[o] \in OrganizationRow
    BY <1>1 DEF Exists
  <1>7. \A d \in Departments: Present(d) => department[d] \in DepartmentRow
    BY <1>1 DEF Present
  <1>8. ASSUME NEW c \in Clients, NEW o \in Organizations, NEW parent \in Organizations \cup {NoParent},
               NEW root \in BOOLEAN, CreateOrganization(c, o, parent, root)
        PROVE  BranchTypeOK'
    <2>1. [parent |-> parent, root |-> root, active |-> TRUE] \in OrganizationRow
      BY DEF OrganizationRow
    <2> QED
      BY <1>1, <1>2, <1>8, <2>1 DEF CreateOrganization
  <1>9. ASSUME NEW c \in Clients, NEW o \in Organizations, NEW parent \in Organizations \cup {NoParent},
               AttachOrganization(c, o, parent)
        PROVE  BranchTypeOK'
    <2>1. organization[o] \in OrganizationRow
      BY <1>6, <1>9 DEF AttachOrganization
    <2>2. [organization[o] EXCEPT !.parent = parent] \in OrganizationRow
      BY <2>1, BranchFields
    <2>3. organization' = [organization EXCEPT ![o] = [organization[o] EXCEPT !.parent = parent]]
      BY <1>9 DEF AttachOrganization
    <2> QED
      BY <1>1, <1>2, <1>9, <2>2, <2>3 DEF AttachOrganization
  <1>10. ASSUME NEW c \in Clients, NEW o \in Organizations, NEW flag \in BOOLEAN,
                SetRoot(c, o, flag) \/ SetActive(c, o, flag)
         PROVE  BranchTypeOK'
    <2>1. organization[o] \in OrganizationRow
      BY <1>6, <1>10 DEF SetRoot, SetActive
    <2>2. /\ [organization[o] EXCEPT !.root = flag] \in OrganizationRow
          /\ [organization[o] EXCEPT !.active = flag] \in OrganizationRow
      BY <2>1, BranchFields
    <2>3. \/ organization' = [organization EXCEPT ![o] = [organization[o] EXCEPT !.root = flag]]
          \/ organization' = [organization EXCEPT ![o] = [organization[o] EXCEPT !.active = flag]]
      BY <1>10 DEF SetRoot, SetActive
    <2> QED
      BY <1>1, <1>2, <1>10, <2>2, <2>3 DEF SetRoot, SetActive
  <1>11. ASSUME NEW c \in Clients, NEW o \in Organizations, BeginDeleteOrganization(c, o)
         PROVE  BranchTypeOK'
    <2>1. call' \in [Clients -> BranchCall]
      BY <1>4, <1>5, <1>11 DEF BeginDeleteOrganization
    <2> QED
      BY <1>1, <1>11, <2>1 DEF BeginDeleteOrganization, branchVars, BranchTypeOK
  <1>12. ASSUME NEW c \in Clients, DeleteOrganization(c)
         PROVE  BranchTypeOK'
    <2>1. call[c].organization \in Organizations
      BY <1>1, <1>12 DEF DeleteOrganization, BranchCall, Idle
    <2>2. call' \in [Clients -> BranchCall]
      BY <1>4, <1>5, <1>12 DEF DeleteOrganization, Return
    <2> QED
      BY <1>2, <1>12, <2>1, <2>2 DEF DeleteOrganization
  <1>13. ASSUME NEW c \in Clients, NEW d \in Departments, NEW parent \in Departments \cup {NoParent},
                NEW code \in Codes,
                \/ CreateDepartment(c, d, parent, code)
                \/ \E active \in BOOLEAN: UpdateDepartment(c, d, parent, code, active)
         PROVE  BranchTypeOK'
    <2>1. \A active \in BOOLEAN: [parent |-> parent, code |-> code, active |-> active] \in DepartmentRow
      BY DEF DepartmentRow
    <2>2. \E active \in BOOLEAN:
            department' = [department EXCEPT ![d] = [parent |-> parent, code |-> code, active |-> active]]
      BY <1>13 DEF CreateDepartment, UpdateDepartment
    <2> QED
      BY <1>1, <1>3, <1>13, <2>1, <2>2 DEF CreateDepartment, UpdateDepartment
  <1>14. ASSUME NEW c \in Clients, NEW ds \in SUBSET Departments, NEW active \in BOOLEAN,
                ActivateDepartments(c, ds, active)
         PROVE  BranchTypeOK'
    <2> DEFINE put(d) == IF d \in ds THEN [department[d] EXCEPT !.active = active] ELSE department[d]
    <2>1. ASSUME NEW d \in Departments
          PROVE  put(d) \in Offices
      <3>1. CASE d \in ds
        <4>1. department[d] \in DepartmentRow
          BY <1>7, <1>14, <3>1 DEF ActivateDepartments
        <4> QED
          BY <3>1, <4>1, BranchFields
      <3>2. CASE d \notin ds
        BY <1>1, <3>2
      <3> QED
        BY <3>1, <3>2
    <2>2. department' = [d \in Departments |-> put(d)] /\ UNCHANGED <<organization, call>>
      BY ONLY <1>14, Zenon DEF ActivateDepartments
    <2> HIDE DEF put
    <2> QED
      BY <1>3, <2>1, <2>2
  <1>15. ASSUME NEW c \in Clients, NEW d \in Departments, HardDeleteDepartment(c, d)
         PROVE  BranchTypeOK'
    BY <1>1, <1>3, <1>15 DEF HardDeleteDepartment
  <1> QED
    BY <1>8, <1>9, <1>10, <1>11, <1>12, <1>13, <1>14, <1>15
       DEF BranchNext, OrganizationsController, DepartmentsController
-----------------------------------------------------------------------------
\* Libraries and folders.
LEMMA LibraryFields ==
  /\ \A row \in LibraryRow: \A value \in BOOLEAN:
       [row EXCEPT !.default = value] \in LibraryRow /\ [row EXCEPT !.deleted = value] \in LibraryRow
  /\ \A row \in FolderRow: \A parent \in Folders \cup {Top}: [row EXCEPT !.parent = parent] \in FolderRow
  /\ \A row \in FolderRow: [row EXCEPT !.deleted = TRUE] \in FolderRow
  BY DEF LibraryRow, FolderRow

LEMMA LibraryStepTyped ==
  ASSUME LibraryTypeOK, focus = "library", UNCHANGED focus, LibraryNext
  PROVE  LibraryTypeOK'
  <1> DEFINE Shelves == [Libraries -> LibraryRow \cup {NoRow}]
  <1>1. /\ library \in Shelves /\ folder \in [Folders -> FolderRow \cup {NoRow}]
    BY DEF LibraryTypeOK
  <1>2. ASSUME library' \in Shelves, UNCHANGED <<folder, call>>
        PROVE  LibraryTypeOK'
    BY <1>2 DEF LibraryTypeOK, Quiet
  <1>3. ASSUME NEW f \in Folders, NEW row \in FolderRow, folder' = [folder EXCEPT ![f] = row],
               UNCHANGED <<library, call>>
        PROVE  LibraryTypeOK'
    BY <1>1, <1>3 DEF LibraryTypeOK, Quiet
  <1>9. TRUE \in BOOLEAN /\ FALSE \in BOOLEAN
    OBVIOUS
  <1>4. ASSUME NEW l \in Libraries
        PROVE  OthersCleared(l) \in Shelves
    <2>1. ASSUME NEW k \in Libraries
          PROVE  (IF library[k] = NoRow THEN NoRow ELSE [library[k] EXCEPT !.default = FALSE])
                   \in LibraryRow \cup {NoRow}
      <3>1. CASE library[k] = NoRow
        BY <3>1
      <3>2. CASE library[k] # NoRow
        <4>1. library[k] \in LibraryRow
          BY <1>1, <3>2
        <4>2. [library[k] EXCEPT !.default = FALSE] \in LibraryRow
          BY <1>9, <4>1, LibraryFields
        <4> QED
          BY <3>2, <4>2
      <3> QED
        BY <3>1, <3>2
    <2> QED
      BY <2>1 DEF OthersCleared
  <1>5. ASSUME NEW c \in Clients, NEW l \in Libraries, NEW default \in BOOLEAN,
               CreateLibrary(c, l, default)
        PROVE  LibraryTypeOK'
    <2> DEFINE others == IF default THEN OthersCleared(l) ELSE library
    <2>1. others \in Shelves
      BY <1>1, <1>4
    <2>2. [default |-> default, deleted |-> FALSE] \in LibraryRow
      BY DEF LibraryRow
    <2>3. /\ library' = [others EXCEPT ![l] = [default |-> default, deleted |-> FALSE]]
          /\ UNCHANGED <<folder, call>>
      BY ONLY <1>5, Zenon DEF CreateLibrary
    <2> HIDE DEF others
    <2> QED
      BY <1>2, <2>1, <2>2, <2>3
  <1>6. ASSUME NEW c \in Clients, NEW l \in Libraries, NEW default \in BOOLEAN,
               UpdateLibrary(c, l, default)
        PROVE  LibraryTypeOK'
    <2> DEFINE others == IF default /\ ~library[l].default THEN OthersCleared(l) ELSE library
    <2>1. others \in Shelves
      BY <1>1, <1>4
    <2>2. others[l] # NoRow
      <3>1. library[l] # NoRow
        BY <1>6 DEF UpdateLibrary, Found
      <3>2. library[l] \in LibraryRow
        BY <1>1, <3>1
      <3>3. [library[l] EXCEPT !.default = FALSE] \in LibraryRow
        BY <1>9, <3>2, LibraryFields
      <3>4. NoRow \notin LibraryRow
        BY DEF NoRow, LibraryRow
      <3>5. OthersCleared(l)[l] = [library[l] EXCEPT !.default = FALSE]
        BY <3>1 DEF OthersCleared
      <3> QED
        BY <3>1, <3>3, <3>4, <3>5
    <2>3. /\ library' = [others EXCEPT ![l] = [others[l] EXCEPT !.default = default]]
          /\ UNCHANGED <<folder, call>>
      BY ONLY <1>6, Zenon DEF UpdateLibrary
    <2> HIDE DEF others
    <2>4. others[l] \in LibraryRow
      BY <2>1, <2>2
    <2>5. [others[l] EXCEPT !.default = default] \in LibraryRow
      BY <2>4, LibraryFields
    <2> QED
      BY <1>2, <2>1, <2>3, <2>5
  <1>7. ASSUME NEW c \in Clients, NEW l \in Libraries, DeleteLibrary(c, l)
        PROVE  LibraryTypeOK'
    <2>1. library[l] \in LibraryRow
      BY <1>1, <1>7 DEF DeleteLibrary, Found
    <2>2. [library[l] EXCEPT !.deleted = TRUE] \in LibraryRow
      BY <1>9, <2>1, LibraryFields
    <2>3. library' = [library EXCEPT ![l] = [library[l] EXCEPT !.deleted = TRUE]]
      BY <1>7 DEF DeleteLibrary
    <2> QED
      BY <1>1, <1>2, <1>7, <2>2, <2>3 DEF DeleteLibrary
  <1>8. ASSUME NEW c \in Clients, NEW f \in Folders, NEW l \in Libraries, NEW parent \in Folders \cup {Top},
               NEW name \in Names, CreateFolder(c, f, l, parent, name)
        PROVE  LibraryTypeOK'
    <2>1. [library |-> l, parent |-> parent, name |-> name, deleted |-> FALSE] \in FolderRow
      BY DEF FolderRow
    <2> QED
      BY <1>3, <1>8, <2>1 DEF CreateFolder
  <1>10. ASSUME NEW c \in Clients, NEW f \in Folders, NEW parent \in Folders \cup {Top},
                MoveFolder(c, f, parent)
         PROVE  LibraryTypeOK'
    <2>1. folder[f] \in FolderRow
      BY <1>1, <1>10 DEF MoveFolder, Live
    <2>2. PICK to \in Folders \cup {Top}: to = SavedParent(folder[f].parent, parent)
      BY <2>1 DEF SavedParent, FolderRow
    <2>3. [folder[f] EXCEPT !.parent = to] \in FolderRow
      BY <2>1, LibraryFields
    <2>4. folder' = [folder EXCEPT ![f] = [folder[f] EXCEPT !.parent = to]]
      BY <1>10, <2>2 DEF MoveFolder
    <2> QED
      BY <1>3, <1>10, <2>3, <2>4 DEF MoveFolder
  <1>11. ASSUME NEW c \in Clients, NEW f \in Folders, DeleteFolder(c, f)
         PROVE  LibraryTypeOK'
    <2>1. folder[f] \in FolderRow
      BY <1>1, <1>11 DEF DeleteFolder, Live
    <2>2. [folder[f] EXCEPT !.deleted = TRUE] \in FolderRow
      BY <2>1, LibraryFields
    <2>3. folder' = [folder EXCEPT ![f] = [folder[f] EXCEPT !.deleted = TRUE]]
      BY <1>11 DEF DeleteFolder
    <2> QED
      BY <1>3, <1>11, <2>2, <2>3 DEF DeleteFolder
  <1> QED
    BY <1>5, <1>6, <1>7, <1>8, <1>10, <1>11 DEF LibraryNext, DocumentLibraryController, FolderController
-----------------------------------------------------------------------------
\* Who may read a task.
LEMMA ReadingStepTyped ==
  ASSUME ReadingTypeOK, ReadingNext
  PROVE  ReadingTypeOK'
  <1> DEFINE Jobs == [SharedProjects -> TaskJob \cup {Unmade}]
  <1>1. /\ rights \in [Tenants -> Rights \cup {NoRole}] /\ seesAll \in BOOLEAN /\ job \in Jobs
        /\ shared \in [SharedProjects -> SharedProject \cup {Unmade}]
        /\ knownTenants \in SUBSET Tenants \/ knownTenants = NotKnown
    BY DEF ReadingTypeOK, TaskJob
  <1>2. ASSUME NEW p \in SharedProjects, NEW place \in {"outsider", "member", "manager"},
               NEW managed \in BOOLEAN, MakeProject(p, place, managed)
        PROVE  ReadingTypeOK'
    <2>1. Made(place, managed) \in SharedProject
      BY DEF Made, SharedProject
    <2> QED
      BY <1>1, <1>2, <2>1 DEF MakeProject, ReadingTypeOK
  <1>3. ASSUME NEW p \in SharedProjects, NEW assigned \in BOOLEAN, NEW authored \in BOOLEAN,
               MakeTask(p, assigned, authored)
        PROVE  ReadingTypeOK'
    <2>1. [assigned |-> assigned, authored |-> authored] \in TaskJob
      BY DEF TaskJob
    <2>2. job' \in Jobs
      BY <1>1, <1>3, <2>1 DEF MakeTask
    <2> QED
      BY <1>1, <1>3, <2>2 DEF MakeTask, ReadingTypeOK, TaskJob
  <1>4. ASSUME NEW p \in SharedProjects, NEW assigned \in BOOLEAN, Reassign(p, assigned)
        PROVE  ReadingTypeOK'
    <2>1. job[p] \in TaskJob
      BY <1>1, <1>4 DEF Reassign
    <2>2. [job[p] EXCEPT !.assigned = assigned] \in TaskJob
      BY <2>1 DEF TaskJob
    <2>3. job' = [job EXCEPT ![p] = [job[p] EXCEPT !.assigned = assigned]]
      BY <1>4 DEF Reassign
    <2>4. job' \in Jobs
      BY <1>1, <2>2, <2>3
    <2> QED
      BY <1>1, <1>4, <2>4 DEF Reassign, ReadingTypeOK, TaskJob
  <1>5. ASSUME AllowedIsKept, UNCHANGED <<rights, seesAll, shared, job>>
        PROVE  ReadingTypeOK'
    <2>1. Accessible \in SUBSET Tenants
      BY ReadingAssumption DEF Accessible, Linked
    <2> QED
      BY <1>1, <1>5, <2>1 DEF AllowedIsKept, ReadingTypeOK
  <1>6. ASSUME NEW o \in Tenants, NEW r \in Rights \cup {NoRole}, ChangeRights(o, r)
        PROVE  ReadingTypeOK'
    BY <1>1, <1>6 DEF ChangeRights, ReadingTypeOK
  <1>7. CASE ChangeSeesAll
    BY <1>1, <1>7 DEF ChangeSeesAll, ReadingTypeOK
  <1>8. CASE ForgetOrganizations
    BY <1>1, <1>8 DEF ForgetOrganizations, ReadingTypeOK
  <1> QED
    BY <1>2, <1>3, <1>4, <1>5, <1>6, <1>7, <1>8 DEF ReadingNext, OpenTask, ListTasks
-----------------------------------------------------------------------------
\* All of them.
OfficeTyped ==
  /\ NumberingTypeOK /\ DependencyTypeOK /\ ProgressTypeOK /\ SetupTypeOK /\ AcademyTypeOK
  /\ AccessTypeOK /\ RoleTypeOK /\ PayrollTypeOK /\ BranchTypeOK /\ LibraryTypeOK
  /\ RealtimeTyped /\ ReadingTypeOK

LEMMA OfficeTypedInitially == OfficeInit => OfficeTyped
  <1> SUFFICES ASSUME OfficeInit
               PROVE  OfficeTyped
    OBVIOUS
  <1>1. call = [c \in Clients |-> Idle]
    BY DEF OfficeInit
  <1>2. NumberingTypeOK
    BY <1>1 DEF OfficeInit, NumberingInit, NumberingTypeOK, NumberingCall
  <1>3. DependencyTypeOK
    BY <1>1 DEF OfficeInit, DependencyInit, DependencyTypeOK, DependencyCall
  <1>4. ProgressTypeOK
    <2>1. (CHOOSE t \in ProgressTasks: TRUE) \in ProgressTasks
      BY ProgressAssumption
    <2> QED
      BY <1>1, <2>1 DEF OfficeInit, ProgressInit, ProgressTypeOK, ProgressCall, Life
  <1>5. SetupTypeOK
    BY <1>1, SetupAssumption DEF OfficeInit, SetupInit, SetupTypeOK, SetupCall, ProjectDates
  <1>6. AcademyTypeOK
    <2>1. 1 \in 1..LastDay
      BY AcademyAssumption
    <2>2. [exists |-> FALSE, deleted |-> FALSE, status |-> "draft"] \in CourseRow
      BY DEF CourseRow
    <2>3. [exists |-> FALSE, deleted |-> FALSE, course |-> "none", start |-> NoDate, end |-> NoDate,
           status |-> "planned"] \in SessionRow
      BY DEF SessionRow, NoDate, Dates, ActiveStatuses, CoursesOrNone
    <2>4. [exists |-> FALSE, deleted |-> FALSE, course |-> "none", session |-> "none",
           employee |-> Nobody, user |-> Nobody, status |-> "enrolled"] \in EnrollmentRow
      BY DEF EnrollmentRow, EnrollmentStatuses, CoursesOrNone
    <2> QED
      BY <1>1, <2>1, <2>2, <2>3, <2>4 DEF OfficeInit, AcademyInit, AcademyTypeOK, AcademyCall
  <1>7. AccessTypeOK
    BY <1>1 DEF OfficeInit, AccessInit, AccessTypeOK, AccessCall, AccountRow
  <1>8. RoleTypeOK
    <2>1. role \in [Roles -> RoleRow]
      BY DEF OfficeInit, RoleInit, RoleRow
    <2>2. link \in [Holders -> [Roles -> LinkStates]]
      BY DEF OfficeInit, RoleInit, LinkStates
    <2> QED
      BY <1>1, <2>1, <2>2, RoleCallsAre DEF OfficeInit, RoleInit, RoleTypeOK, Keys
  <1>9. PayrollTypeOK
    <2>1. (CHOOSE d \in PayDays: TRUE) \in PayDays
      BY PayrollAssumption
    <2>2. schedule \in [Schedules -> ScheduleRow]
      BY <2>1 DEF OfficeInit, PayrollInit, ScheduleRow
    <2>3. payments = <<>> /\ entries = <<>> /\ salary \in [Staff -> Amounts \cup {0}]
      BY DEF OfficeInit, PayrollInit
    <2>4. /\ payments \in Seq(PaymentRow) /\ Len(payments) <= MaxPayments
          /\ entries \in Seq(EntryRow) /\ Len(entries) <= MaxEntries
      BY <2>3, PayrollAssumption
    <2> QED
      BY <1>1, <2>2, <2>3, <2>4 DEF PayrollTypeOK, PayrollCall
  <1>10. BranchTypeOK
    BY <1>1 DEF OfficeInit, BranchInit, BranchTypeOK, BranchCall
  <1>11. LibraryTypeOK
    BY <1>1 DEF OfficeInit, LibraryInit, LibraryTypeOK, Quiet
  <1>12. RealtimeTyped
    BY RealtimeTypedInitially DEF OfficeInit
  <1>13. ReadingTypeOK
    BY DEF OfficeInit, ReadingInit, ReadingTypeOK
  <1> QED
    BY <1>2, <1>3, <1>4, <1>5, <1>6, <1>7, <1>8, <1>9, <1>10, <1>11, <1>12, <1>13 DEF OfficeTyped

\* The components that a step is not about keep their rows, and their calls are none.
LEMMA OtherOfficesTyped ==
  ASSUME OfficeTyped, UNCHANGED focus
  PROVE  /\ UNCHANGED taken /\ (focus # "numbering" \/ UNCHANGED call) => NumberingTypeOK'
         /\ UNCHANGED depVars /\ (focus # "dependencies" \/ UNCHANGED call) => DependencyTypeOK'
         /\ UNCHANGED progVars /\ (focus # "progress" \/ UNCHANGED call) => ProgressTypeOK'
         /\ UNCHANGED setupVars /\ (focus # "projects" \/ UNCHANGED call) => SetupTypeOK'
         /\ UNCHANGED academyVars /\ (focus # "academy" \/ UNCHANGED call) => AcademyTypeOK'
         /\ UNCHANGED accessVars /\ (focus # "access" \/ UNCHANGED call) => AccessTypeOK'
         /\ UNCHANGED roleVars /\ (focus # "roles" \/ UNCHANGED call) => RoleTypeOK'
         /\ UNCHANGED payrollVars /\ (focus # "payroll" \/ UNCHANGED call) => PayrollTypeOK'
         /\ UNCHANGED branchVars /\ (focus # "branches" \/ UNCHANGED call) => BranchTypeOK'
         /\ UNCHANGED libraryVars /\ (focus # "library" \/ UNCHANGED call) => LibraryTypeOK'
         /\ UNCHANGED realtimeVars => RealtimeTyped'
         /\ UNCHANGED readingVars => ReadingTypeOK'
  <1> USE DEF OfficeTyped
  <1>1. UNCHANGED taken /\ (focus # "numbering" \/ UNCHANGED call) => NumberingTypeOK'
    BY DEF NumberingTypeOK
  <1>2. UNCHANGED depVars /\ (focus # "dependencies" \/ UNCHANGED call) => DependencyTypeOK'
    BY DEF DependencyTypeOK, depVars
  <1>3. UNCHANGED progVars /\ (focus # "progress" \/ UNCHANGED call) => ProgressTypeOK'
    BY DEF ProgressTypeOK, progVars
  <1>4. UNCHANGED setupVars /\ (focus # "projects" \/ UNCHANGED call) => SetupTypeOK'
    BY DEF SetupTypeOK, setupVars
  <1>5. UNCHANGED academyVars /\ (focus # "academy" \/ UNCHANGED call) => AcademyTypeOK'
    BY DEF AcademyTypeOK, academyVars
  <1>6. UNCHANGED accessVars /\ (focus # "access" \/ UNCHANGED call) => AccessTypeOK'
    BY DEF AccessTypeOK, accessVars
  <1>7. UNCHANGED roleVars /\ (focus # "roles" \/ UNCHANGED call) => RoleTypeOK'
    BY DEF RoleTypeOK, roleVars
  <1>8. UNCHANGED payrollVars /\ (focus # "payroll" \/ UNCHANGED call) => PayrollTypeOK'
    BY DEF PayrollTypeOK, payrollVars
  <1>9. UNCHANGED branchVars /\ (focus # "branches" \/ UNCHANGED call) => BranchTypeOK'
    BY DEF BranchTypeOK, branchVars
  <1>10. UNCHANGED libraryVars /\ (focus # "library" \/ UNCHANGED call) => LibraryTypeOK'
    BY DEF LibraryTypeOK, libraryVars, Quiet
  <1>11. UNCHANGED realtimeVars => RealtimeTyped'
    BY DEF RealtimeTyped, CountsTyped, RoomTyped, SeenTyped, PendingOf, realtimeVars
  <1>12. UNCHANGED readingVars => ReadingTypeOK'
    BY DEF ReadingTypeOK, readingVars
  <1> QED
    BY <1>1, <1>2, <1>3, <1>4, <1>5, <1>6, <1>7, <1>8, <1>9, <1>10, <1>11, <1>12

\* A step of a component leaves the component typed.
LEMMA ComponentStepTyped ==
  ASSUME OfficeTyped, NumberingKept, SetupInv, UNCHANGED focus
  PROVE  /\ focus = "numbering" /\ NumberingNext => NumberingTypeOK'
         /\ focus = "dependencies" /\ DependencyNext => DependencyTypeOK'
         /\ focus = "progress" /\ ProgressNext => ProgressTypeOK'
         /\ focus = "projects" /\ SetupNext => SetupTypeOK'
         /\ focus = "academy" /\ AcademyNext => AcademyTypeOK'
         /\ focus = "access" /\ AccessNext => AccessTypeOK'
         /\ focus = "roles" /\ RoleNext => RoleTypeOK'
         /\ focus = "payroll" /\ PayrollNext => PayrollTypeOK'
         /\ focus = "branches" /\ BranchNext => BranchTypeOK'
         /\ focus = "library" /\ LibraryNext => LibraryTypeOK'
         /\ focus = "realtime" /\ RealtimeNext => RealtimeTyped'
         /\ focus = "reading" /\ ReadingNext => ReadingTypeOK'
  <1>1. focus = "dependencies" /\ DependencyNext => DependencyTypeOK'
    <2> SUFFICES ASSUME focus = "dependencies", DependencyNext
                 PROVE  DependencyTypeOK'
      OBVIOUS
    <2>1. DependencyTyped
      BY DEF OfficeTyped, DependencyTypeOK, DependencyTyped
    <2>2. DependencyTyped'
      BY <2>1, DependencyStepTyped
    <2> QED
      BY <2>2 DEF DependencyTypeOK, DependencyTyped
  <1>2. focus = "numbering" /\ NumberingNext => NumberingTypeOK'
    BY NumberingStepTyped DEF OfficeTyped, NumberingKept
  <1>3. focus = "progress" /\ ProgressNext => ProgressTypeOK'
    BY ProgressStepTyped DEF OfficeTyped
  <1>4. focus = "projects" /\ SetupNext => SetupTypeOK'
    BY SetupStepTyped DEF OfficeTyped
  <1>5. focus = "academy" /\ AcademyNext => AcademyTypeOK'
    BY AcademyStepTyped DEF OfficeTyped
  <1>6. focus = "access" /\ AccessNext => AccessTypeOK'
    BY AccessStepTyped DEF OfficeTyped
  <1>7. focus = "roles" /\ RoleNext => RoleTypeOK'
    BY RoleStepTyped DEF OfficeTyped
  <1>8. focus = "payroll" /\ PayrollNext => PayrollTypeOK'
    BY PayrollStepTyped DEF OfficeTyped
  <1>9. focus = "branches" /\ BranchNext => BranchTypeOK'
    BY BranchStepTyped DEF OfficeTyped
  <1>10. focus = "library" /\ LibraryNext => LibraryTypeOK'
    BY LibraryStepTyped DEF OfficeTyped
  <1>11. focus = "realtime" /\ RealtimeNext => RealtimeTyped'
    BY RealtimeStepTyped DEF OfficeTyped
  <1>12. focus = "reading" /\ ReadingNext => ReadingTypeOK'
    BY ReadingStepTyped DEF OfficeTyped
  <1> QED
    BY <1>1, <1>2, <1>3, <1>4, <1>5, <1>6, <1>7, <1>8, <1>9, <1>10, <1>11, <1>12

LEMMA OfficeStepTyped ==
  ASSUME OfficeTyped, NumberingKept, SetupInv, [OfficeNext]_<<officeVars, call, focus>>
  PROVE  OfficeTyped'
  <1>1. UNCHANGED focus
    BY DEF OfficeNext
  <1>2. CASE UNCHANGED <<officeVars, call>>
    BY <1>1, <1>2, OtherOfficesTyped DEF officeVars, OfficeTyped
  <1>3. CASE OfficeNext
    <2>1. CASE focus \in {"numbering", "dependencies", "progress", "projects"}
      BY <1>1, <1>3, <2>1, OtherOfficesTyped, ComponentStepTyped DEF OfficeNext, OfficeTyped
    <2>2. CASE focus \in {"academy", "access", "roles", "payroll"}
      BY <1>1, <1>3, <2>2, OtherOfficesTyped, ComponentStepTyped DEF OfficeNext, OfficeTyped
    <2>3. CASE focus \in {"branches", "library", "realtime", "reading"}
      BY <1>1, <1>3, <2>3, OtherOfficesTyped, ComponentStepTyped DEF OfficeNext, OfficeTyped
    <2> QED
      BY <1>3, <2>1, <2>2, <2>3 DEF OfficeNext
  <1> QED
    BY <1>2, <1>3

\* Every row that the components around projects, training, users, rights, pay, organisations
\* and documents save, what the process keeps in memory, and whatever a call that overlaps
\* others holds on to between its awaits, is well formed, and the counts stay within their
\* bounds, for any number of callers.
THEOREM OfficeIsTyped == OfficeSpec => []OfficeTypeOK
  <1> DEFINE Inv == OfficeTyped /\ NumberingKept /\ SetupInv
  <1>1. OfficeInit => Inv
    BY OfficeTypedInitially, NumberingKeptInitially, SetupInitially
  <1>2. Inv /\ [OfficeNext]_<<officeVars, call, focus>> => Inv'
    BY OfficeStepTyped, NumberingKeptByOffice, SetupKeptByOffice
  <1>3. Inv => OfficeTypeOK
    BY RealtimeTypes DEF OfficeTyped, OfficeTypeOK
  <1> QED
    BY <1>1, <1>2, <1>3, PTL DEF OfficeSpec
-----------------------------------------------------------------------------
(* What the guard remembers *)

GrantedRights == [k \in Keys |-> Granted(k[1], k[2])]

AnswersRight == \A k \in Keys: cached[k] \in {Missing, GrantedRights[k]} \/ k \in untold

\* what a call holds: a role that may still be given its new permissions, or an answer
\* that nothing has changed since it was read
RoleHolds(row) ==
  /\ row.at = "emptied" => role[row.role].exists /\ row.permits \subseteq known
  /\ row.at = "read" => row.permits = GrantedRights[<<row.user, row.branch>>]

NoneBeforeCreated == \A r \in Roles: ~role[r].exists => role[r].permits = {}

AnswersInv ==
  /\ focus # "roles" => AnswersRight
  /\ focus = "roles" => /\ OneCall /\ NoneBeforeCreated
                        /\ \A c \in Clients: RoleHolds(call[c])
                        /\ \/ \E c \in Clients: call[c].at \in {"emptied", "saved"}
                           \/ AnswersRight

LEMMA IdleHoldsNoRole == RoleHolds(Idle)
  BY Zenon DEF RoleHolds, Idle

LEMMA SameRolesSameRights ==
  ASSUME NEW u \in Holders, NEW o \in Branches, NEW k \in Keys, k = <<u, o>>,
         \A r \in Roles: (OrgOf[r] \in {o, "global"} /\ role[r].permits # {}) \/
                         (OrgOf[r] \in {o, "global"} /\ role'[r].permits # {}) =>
           /\ role'[r].active = role[r].active /\ role'[r].permits = role[r].permits
           /\ link'[u][r] = link[u][r]
  PROVE  GrantedRights'[k] = GrantedRights[k]
  <1> DEFINE Holding == {x \in Roles: /\ OrgOf[x] \in {o, "global"} /\ role[x].active
                                     /\ link[u][x] = "active"}
             Given == UNION {role[r].permits: r \in Holding}
  <1>1. GrantedRights[k] = Given
    BY DEF GrantedRights, Granted
  <1>2. GrantedRights'[k] = Given'
    BY DEF GrantedRights, Granted
  <1>3. \A p: p \in Given' <=> p \in Given
    OBVIOUS
  <1>4. Given' = Given
    BY <1>3
  <1> QED
    BY <1>1, <1>2, <1>4

\* An event makes the guard forget; where there is none the answer is marked, unless what
\* it says has not changed.
LEMMA NotifiedRight ==
  ASSUME AnswersRight, GuardTyped, NEW told, NEW changed, Notify(told, changed),
         \A k \in Keys: k \in told \cup changed \/ GrantedRights'[k] = GrantedRights[k]
  PROVE  AnswersRight'
  <1>1. ASSUME NEW k \in Keys
        PROVE  cached'[k] \in {Missing, GrantedRights'[k]} \/ k \in untold'
    <2>1. /\ cached'[k] = IF k \in told THEN Missing ELSE cached[k]
          /\ k \in untold' <=> k \notin told /\ k \in untold \cup changed /\ cached[k] # Missing
      BY DEF Notify
    <2>2. cached[k] \in {Missing, GrantedRights[k]} \/ k \in untold
      BY DEF AnswersRight
    <2> QED
      BY <2>1, <2>2
  <1> QED
    BY <1>1 DEF AnswersRight

LEMMA RightWhenQuiet ==
  ASSUME AnswersInv, focus = "roles", Quiet
  PROVE  AnswersRight
  <1>1. ASSUME NEW c \in Clients
        PROVE  call[c].at = "idle"
    <2>1. call[c] = Idle
      BY DEF Quiet
    <2> QED
      BY <2>1 DEF Idle
  <1> QED
    BY <1>1 DEF AnswersInv

\* A handler of one step.
LEMMA AnswersStandAlone ==
  ASSUME OneCall, Quiet, UNCHANGED <<call, focus>>, AnswersRight', NoneBeforeCreated'
  PROVE  AnswersInv'
  <1>1. ASSUME NEW c \in Clients
        PROVE  RoleHolds(call[c])'
    <2>1. call'[c] = Idle
      BY DEF Quiet
    <2>2. call'[c].at = "idle"
      BY <2>1 DEF Idle
    <2> QED
      BY <2>2, Zenon DEF RoleHolds
  <1>2. OneCall'
    BY DEF OneCall
  <1> QED
    BY <1>1, <1>2 DEF AnswersInv

\* The rows of the roles.
LEMMA RoleRowsKeepAnswers ==
  ASSUME RoleTypeOK, AnswersInv, focus = "roles", UNCHANGED focus, "roles" \notin Overlapping,
         \/ \E r \in Roles: CreateRole(r) \/ HardDeleteRole(r)
         \/ \E o \in Branches, rs \in SUBSET Roles \ {{}}, on \in BOOLEAN: SetRolesActive(o, rs, on)
         \/ \E ps \in SUBSET Permissions: SeedPermissions(ps)
         \/ InitializeDefaultPermissions
         \/ \E p \in Permissions: CreatePermission(p) \/ DeletePermission(p)
  PROVE  AnswersInv'
  <1>1. /\ Quiet /\ UNCHANGED call /\ OneCall /\ NoneBeforeCreated /\ AnswersRight
        /\ GuardTyped /\ role \in [Roles -> RoleRow]
    <2>1. Quiet /\ UNCHANGED call
      BY DEF CreateRole, HardDeleteRole, SetRolesActive, SeedPermissions,
             InitializeDefaultPermissions, CreatePermission, DeletePermission, MayRun
    <2> QED
      BY <2>1, RightWhenQuiet DEF AnswersInv, RoleTypeOK, GuardTyped
  <1>2. ASSUME UNCHANGED <<cached, untold>>, NoneBeforeCreated',
               \A k \in Keys: GrantedRights'[k] = GrantedRights[k]
        PROVE  AnswersInv'
    <2>1. AnswersRight'
      BY <1>1, <1>2 DEF AnswersRight
    <2> QED
      BY <1>1, <1>2, <2>1, AnswersStandAlone
  <1>3. ASSUME NEW told, NEW changed, Notify(told, changed), NoneBeforeCreated',
               \A k \in Keys: k \in told \cup changed \/ GrantedRights'[k] = GrantedRights[k]
        PROVE  AnswersInv'
    BY <1>1, <1>3, NotifiedRight, AnswersStandAlone
  <1>4. ASSUME NEW r \in Roles, CreateRole(r)
        PROVE  AnswersInv'
    <2>1. /\ role' = [role EXCEPT ![r] = [exists |-> TRUE, active |-> TRUE, permits |-> {}]]
          /\ UNCHANGED <<link, cached, untold>> /\ role[r].permits = {}
      BY <1>1, <1>4 DEF CreateRole, NoneBeforeCreated
    <2>2. ASSUME NEW k \in Keys
          PROVE  GrantedRights'[k] = GrantedRights[k]
      <3>1. PICK u \in Holders, o \in Branches: k = <<u, o>>
        BY DEF Keys
      <3> QED
        BY <1>1, <2>1, <3>1, SameRolesSameRights
    <2> QED
      BY <1>1, <1>2, <2>1, <2>2 DEF NoneBeforeCreated
  <1>5. ASSUME NEW r \in Roles, HardDeleteRole(r)
        PROVE  AnswersInv'
    <2>1. /\ role' = [role EXCEPT ![r].exists = FALSE] /\ role[r].permits = {}
          /\ UNCHANGED <<link, cached, untold>>
      BY <1>5 DEF HardDeleteRole
    <2>2. \A x \in Roles: role'[x].permits = role[x].permits /\ role'[x].active = role[x].active
      BY <1>1, <2>1 DEF RoleRow
    <2>3. ASSUME NEW k \in Keys
          PROVE  GrantedRights'[k] = GrantedRights[k]
      <3>1. PICK u \in Holders, o \in Branches: k = <<u, o>>
        BY DEF Keys
      <3> QED
        BY <2>1, <2>2, <3>1, SameRolesSameRights
    <2>4. NoneBeforeCreated'
      BY <1>1, <2>1 DEF NoneBeforeCreated, RoleRow
    <2> QED
      BY <1>2, <2>1, <2>3, <2>4
  <1>6. ASSUME NEW o \in Branches, NEW rs \in SUBSET Roles, NEW on \in BOOLEAN,
               SetRolesActive(o, rs, on)
        PROVE  AnswersInv'
    <2>1. /\ role' = [r \in Roles |-> IF r \in rs /\ OrgOf[r] = o /\ role[r].exists
                                      THEN [role[r] EXCEPT !.active = on] ELSE role[r]]
          /\ Notify({}, Holders \X {o}) /\ UNCHANGED link
      BY <1>6 DEF SetRolesActive
    <2>2. /\ \A r \in Roles: /\ role'[r].permits = role[r].permits
                             /\ role'[r].exists = role[r].exists
          /\ \A r \in Roles: OrgOf[r] # o => role'[r] = role[r]
      BY <1>1, <2>1 DEF RoleRow
    <2>3. ASSUME NEW k \in Keys, k \notin Holders \X {o}
          PROVE  GrantedRights'[k] = GrantedRights[k]
      <3>1. PICK u \in Holders, b \in Branches: k = <<u, b>>
        BY DEF Keys
      <3>2. b # o /\ o # "global"
        BY <2>3, <3>1, RoleAssumption
      <3> QED
        BY <2>1, <2>2, <3>1, <3>2, SameRolesSameRights
    <2>4. NoneBeforeCreated'
      BY <1>1, <2>2 DEF NoneBeforeCreated
    <2> QED
      BY <1>3, <2>1, <2>3, <2>4
  <1>7. ASSUME UNCHANGED <<role, link, cached, untold>>
        PROVE  AnswersInv'
    <2>1. ASSUME NEW k \in Keys
          PROVE  GrantedRights'[k] = GrantedRights[k]
      <3>1. PICK u \in Holders, o \in Branches: k = <<u, o>>
        BY DEF Keys
      <3> QED
        BY <1>7, <3>1, SameRolesSameRights
    <2> QED
      BY <1>1, <1>2, <1>7, <2>1 DEF NoneBeforeCreated
  <1>8. ASSUME NEW p \in Permissions, DeletePermission(p)
        PROVE  AnswersInv'
    <2>1. /\ role' = [r \in Roles |-> [role[r] EXCEPT !.permits = role[r].permits \ {p}]]
          /\ Notify({}, Keys)
      BY <1>8 DEF DeletePermission
    <2>2. NoneBeforeCreated'
      BY <1>1, <2>1 DEF NoneBeforeCreated, RoleRow
    <2> QED
      BY <1>3, <2>1, <2>2 DEF Keys
  <1> QED
    BY <1>4, <1>5, <1>6, <1>7, <1>8
       DEF SeedPermissions, InitializeDefaultPermissions, CreatePermission

\* Who holds a role.
LEMMA LinksKeepAnswers ==
  ASSUME RoleTypeOK, AnswersInv, focus = "roles", UNCHANGED focus, "roles" \notin Overlapping,
         \/ \E u \in Holders, r \in Roles:
              \/ \E by \in Holders, o \in Branches, until \in BOOLEAN: AssignRole(by, u, r, o, until)
              \/ \E o \in Branches: RemoveRole(u, r, o)
              \/ LapseLink(u, r)
              \/ ChangeRole(u, r)
         \/ \E u \in Holders: EnsureBaseRole(u)
  PROVE  AnswersInv'
  <1>1. GuardTyped /\ link \in [Holders -> [Roles -> LinkStates]]
    BY DEF RoleTypeOK, GuardTyped
  <1>2. ASSUME NEW u \in Holders, NEW told, Notify(told, KeysOf(u)), MayRun("roles"),
               UNCHANGED <<role, call>>, NEW of, link' = [link EXCEPT ![u] = of]
        PROVE  AnswersInv'
    <2>1. Quiet /\ OneCall /\ NoneBeforeCreated /\ AnswersRight
      BY <1>2, RightWhenQuiet DEF AnswersInv, MayRun
    <2>2. ASSUME NEW k \in Keys, k \notin KeysOf(u)
          PROVE  GrantedRights'[k] = GrantedRights[k]
      <3>1. PICK v \in Holders, o \in Branches: k = <<v, o>>
        BY DEF Keys
      <3>2. v # u
        BY <2>2, <3>1 DEF KeysOf
      <3>3. link'[v] = link[v]
        BY <1>1, <1>2, <3>2
      <3> QED
        BY <1>2, <3>1, <3>3, SameRolesSameRights
    <2>3. AnswersRight'
      BY <1>1, <1>2, <2>1, <2>2, NotifiedRight
    <2> QED
      BY <1>2, <2>1, <2>3, AnswersStandAlone DEF NoneBeforeCreated
  <1>3. ASSUME NEW u \in Holders, NEW r \in Roles, NEW by \in Holders, NEW o \in Branches,
               NEW until \in BOOLEAN, AssignRole(by, u, r, o, until)
        PROVE  AnswersInv'
    <2>1. PICK told: Notify(told, KeysOf(u))
      BY <1>3, Zenon DEF AssignRole
    <2>2. \E of: link' = [link EXCEPT ![u] = of]
      <3>1. \/ link' = [link EXCEPT ![u][r] = "active"]
            \/ link' = link
        BY <1>3, Zenon DEF AssignRole
      <3>2. link = [link EXCEPT ![u] = link[u]]
        BY <1>1
      <3> QED
        BY <3>1, <3>2
    <2> QED
      BY <1>2, <1>3, <2>1, <2>2 DEF AssignRole
  <1>4. ASSUME NEW u \in Holders, NEW r \in Roles, NEW o \in Branches, RemoveRole(u, r, o)
        PROVE  AnswersInv'
    <2>1. /\ Notify({<<u, o>>}, KeysOf(u)) /\ MayRun("roles") /\ UNCHANGED <<role, call>>
          /\ link' = [link EXCEPT ![u] = [link[u] EXCEPT ![r] = "none"]]
      BY <1>4 DEF RemoveRole
    <2> QED
      BY <1>2, <2>1
  <1>5. ASSUME NEW u \in Holders, NEW r \in Roles, LapseLink(u, r)
        PROVE  AnswersInv'
    <2>1. /\ Notify({}, KeysOf(u)) /\ MayRun("roles") /\ UNCHANGED <<role, call>>
          /\ link' = [link EXCEPT ![u] = [link[u] EXCEPT ![r] = "lapsed"]]
      BY <1>5 DEF LapseLink
    <2> QED
      BY <1>2, <2>1
  <1>6. ASSUME NEW u \in Holders, NEW r \in Roles, ChangeRole(u, r)
        PROVE  AnswersInv'
    <2>1. PICK of: link' = [link EXCEPT ![u] = of]
      BY <1>6, Zenon DEF ChangeRole
    <2>2. Notify({}, KeysOf(u)) /\ MayRun("roles") /\ UNCHANGED <<role, call>>
      BY <1>6, Zenon DEF ChangeRole
    <2> QED
      BY <1>2, <2>1, <2>2
  <1>7. ASSUME NEW u \in Holders, EnsureBaseRole(u)
        PROVE  AnswersInv'
    <2>1. PICK state: state = WithBaseRole(link[u][BaseRole])
      OBVIOUS
    <2>2. /\ Notify({}, KeysOf(u)) /\ MayRun("roles") /\ UNCHANGED <<role, call>>
          /\ link' = [link EXCEPT ![u] = [link[u] EXCEPT ![BaseRole] = state]]
      BY <1>7, <2>1 DEF EnsureBaseRole
    <2> QED
      BY <1>2, <2>2
  <1> QED
    BY <1>3, <1>4, <1>5, <1>6, <1>7

\* The calls of several steps, of the administrators and of the guard.
LEMMA RoleCallsKeepAnswers ==
  ASSUME RoleTypeOK, AnswersInv, focus = "roles", UNCHANGED focus, "roles" \notin Overlapping,
         NEW c \in Clients,
         \/ \E by \in Holders, r \in Roles, o \in Branches:
              \/ \E permits \in SUBSET Permissions: BeginSetPermissions(c, by, r, o, permits)
              \/ \E p \in Permissions, add \in BOOLEAN: EditPermission(c, by, r, o, p, add)
         \/ \E u \in Holders, o \in Branches: ReadPermissions(c, u, o)
         \/ SavePermissions(c) \/ RoleChanged(c) \/ CachePermissions(c)
  PROVE  AnswersInv'
  <1>1. /\ OneCall /\ NoneBeforeCreated /\ RoleHolds(call[c]) /\ GuardTyped
        /\ role \in [Roles -> RoleRow] /\ call[c] \in RoleCall
    BY DEF AnswersInv, RoleTypeOK, GuardTyped
  <1>2. ASSUME NEW next, Goto(c, next), Quiet \/ call[c] # Idle, NoneBeforeCreated',
               RoleHolds(next)', next.at \in {"emptied", "saved"} \/ AnswersRight'
        PROVE  AnswersInv'
    <2>1. OneCall' /\ call'[c] = next /\ \A d \in Clients \ {c}: call'[d] = Idle
      BY <1>1, <1>2, AloneOrNone
    <2>2. ASSUME NEW d \in Clients
          PROVE  RoleHolds(call[d])'
      <3>1. CASE d = c
        BY <1>2, <2>1, <3>1 DEF RoleHolds
      <3>2. CASE d # c
        <4>1. call'[d] = Idle
          BY <2>1, <3>2
        <4>2. call'[d].at = "idle"
          BY <4>1 DEF Idle
        <4> QED
          BY <4>2, Zenon DEF RoleHolds
      <3> QED
        BY <3>1, <3>2
    <2> QED
      BY <1>2, <2>1, <2>2 DEF AnswersInv
  <1>3. ASSUME NEW r \in Roles, role[r].exists, NEW ps,
               role' = [role EXCEPT ![r] = [role[r] EXCEPT !.permits = ps]]
        PROVE  NoneBeforeCreated' /\ role'[r].exists
    BY <1>1, <1>3 DEF NoneBeforeCreated, RoleRow
  <1>4. ASSUME NEW by \in Holders, NEW r \in Roles, NEW o \in Branches,
               NEW permits \in SUBSET Permissions, BeginSetPermissions(c, by, r, o, permits)
        PROVE  AnswersInv'
    <2>1. PICK next: next = [at |-> "emptied", role |-> r, permits |-> permits]
      OBVIOUS
    <2>2. /\ role' = [role EXCEPT ![r] = [role[r] EXCEPT !.permits = {}]]
          /\ role[r].exists /\ permits \subseteq known /\ UNCHANGED known
          /\ Goto(c, next) /\ Quiet
      BY <1>4, <2>1 DEF BeginSetPermissions, Editable, MayStart, MayRun
    <2>3. NoneBeforeCreated' /\ role'[r].exists
      BY <1>3, <2>2
    <2>4. RoleHolds(next)'
      BY <2>1, <2>2, <2>3 DEF RoleHolds
    <2> QED
      BY <1>2, <2>1, <2>2, <2>3, <2>4
  <1>5. ASSUME NEW by \in Holders, NEW r \in Roles, NEW o \in Branches, NEW p \in Permissions,
               NEW add \in BOOLEAN, EditPermission(c, by, r, o, p, add)
        PROVE  AnswersInv'
    <2>1. PICK next: next = [at |-> "saved", role |-> r]
      OBVIOUS
    <2>2. PICK ps: ps = IF add THEN role[r].permits \cup {p} ELSE role[r].permits \ {p}
      OBVIOUS
    <2>3. /\ role' = [role EXCEPT ![r] = [role[r] EXCEPT !.permits = ps]]
          /\ role[r].exists /\ Goto(c, next) /\ Quiet
      BY <1>5, <2>1, <2>2 DEF EditPermission, Editable, MayStart, MayRun
    <2>4. NoneBeforeCreated'
      BY <1>3, <2>3
    <2>5. RoleHolds(next)'
      BY <2>1 DEF RoleHolds
    <2> QED
      BY <1>2, <2>1, <2>3, <2>4, <2>5
  <1>6. ASSUME NEW u \in Holders, NEW o \in Branches, ReadPermissions(c, u, o)
        PROVE  AnswersInv'
    <2>1. PICK k \in Keys: k = <<u, o>>
      BY DEF Keys
    <2>2. GrantedRights[k] = Granted(u, o)
      BY <2>1 DEF GrantedRights
    <2>3. PICK next: next = [at |-> "read", user |-> u, branch |-> o, permits |-> GrantedRights[k]]
      OBVIOUS
    <2>4. Goto(c, next) /\ Quiet /\ UNCHANGED roleVars
      BY <1>6, <2>2, <2>3 DEF ReadPermissions, MayStart, MayRun
    <2>5. AnswersRight /\ UNCHANGED <<role, link, cached, untold>>
      BY <2>4, RightWhenQuiet DEF roleVars
    <2>6. ASSUME NEW x \in Keys
          PROVE  GrantedRights'[x] = GrantedRights[x]
      <3>1. PICK v \in Holders, b \in Branches: x = <<v, b>>
        BY DEF Keys
      <3> QED
        BY <2>5, <3>1, SameRolesSameRights
    <2>7. AnswersRight'
      BY <2>5, <2>6 DEF AnswersRight
    <2>8. RoleHolds(next)'
      BY <2>1, <2>3, <2>6 DEF RoleHolds
    <2>9. NoneBeforeCreated'
      BY <1>1, <2>5 DEF NoneBeforeCreated
    <2> QED
      BY <1>2, <2>4, <2>7, <2>8, <2>9
  <1>7. ASSUME SavePermissions(c)
        PROVE  AnswersInv'
    <2>1. PICK r \in Roles: r = call[c].role
      BY <1>1, <1>7 DEF SavePermissions, RoleCall, Idle
    <2>2. PICK next: next = [at |-> "saved", role |-> r]
      OBVIOUS
    <2>3. PICK ps: ps = role[r].permits \cup call[c].permits
      OBVIOUS
    <2>4. call[c].at = "emptied" /\ role[r].exists /\ call[c].permits \subseteq known
      BY <1>1, <1>7, <2>1 DEF SavePermissions, RoleHolds
    <2>5. /\ role' = [role EXCEPT ![r] = [role[r] EXCEPT !.permits = ps]]
          /\ Goto(c, next)
      BY <1>7, <2>1, <2>2, <2>3, <2>4 DEF SavePermissions
    <2>6. NoneBeforeCreated'
      BY <1>3, <2>4, <2>5
    <2>7. RoleHolds(next)' /\ call[c] # Idle
      BY <2>2, <2>4 DEF RoleHolds, Idle
    <2> QED
      BY <1>2, <2>2, <2>5, <2>6, <2>7
  <1>8. ASSUME RoleChanged(c)
        PROVE  AnswersInv'
    <2>1. /\ call[c].at = "saved" /\ Goto(c, Idle) /\ Notify(Keys, {})
          /\ UNCHANGED <<known, role, link>>
      BY <1>8 DEF RoleChanged, Return
    <2>2. AnswersRight'
      BY <2>1 DEF AnswersRight, Notify
    <2>3. NoneBeforeCreated'
      BY <1>1, <2>1 DEF NoneBeforeCreated
    <2>4. RoleHolds(Idle)' /\ call[c] # Idle
      BY <2>1 DEF RoleHolds, Idle
    <2> QED
      BY <1>2, <2>1, <2>2, <2>3, <2>4
  <1>9. ASSUME CachePermissions(c)
        PROVE  AnswersInv'
    <2>1. PICK k \in Keys: k = <<call[c].user, call[c].branch>>
      BY <1>1, <1>9 DEF CachePermissions, RoleCall, Idle, Keys
    <2>2. /\ call[c].at = "read" /\ Goto(c, Idle) /\ UNCHANGED <<known, role, link>>
          /\ cached' = [cached EXCEPT ![k] = call[c].permits] /\ untold' = untold \ {k}
      BY <1>9, <2>1 DEF CachePermissions, Return
    <2>3. call[c].permits = GrantedRights[k]
      BY <1>1, <2>1, <2>2 DEF RoleHolds
    <2>4. call[c] # Idle
      BY <2>2 DEF Idle
    <2>5. AnswersRight
      <3>1. \A d \in Clients: call[d].at \notin {"emptied", "saved"}
        <4> SUFFICES ASSUME NEW d \in Clients
                     PROVE  call[d].at \notin {"emptied", "saved"}
          OBVIOUS
        <4>1. CASE d = c
          BY <2>2, <4>1
        <4>2. CASE d # c
          <5>1. call[d] = Idle
            BY <1>1, <2>4, <4>2 DEF OneCall
          <5> QED
            BY <5>1 DEF Idle
        <4> QED
          BY <4>1, <4>2
      <3> QED
        BY <3>1 DEF AnswersInv
    <2>6. ASSUME NEW x \in Keys
          PROVE  GrantedRights'[x] = GrantedRights[x]
      <3>1. PICK v \in Holders, b \in Branches: x = <<v, b>>
        BY DEF Keys
      <3> QED
        BY <2>2, <3>1, SameRolesSameRights
    <2>7. AnswersRight'
      BY <1>1, <2>2, <2>3, <2>5, <2>6 DEF AnswersRight, GuardTyped
    <2>8. NoneBeforeCreated'
      BY <1>1, <2>2 DEF NoneBeforeCreated
    <2>9. RoleHolds(Idle)'
      BY DEF RoleHolds, Idle
    <2> QED
      BY <1>2, <2>2, <2>4, <2>7, <2>8, <2>9
  <1> QED
    BY <1>4, <1>5, <1>6, <1>7, <1>8, <1>9

\* The end of the thirty seconds, whatever call is in flight.
LEMMA ExpiryKeepsAnswers ==
  ASSUME RoleTypeOK, AnswersInv, focus = "roles", UNCHANGED focus, "roles" \notin Overlapping,
         NEW u \in Holders, NEW o \in Branches, ExpireAnswer(u, o)
  PROVE  AnswersInv'
  <1>1. /\ UNCHANGED <<known, role, link, call>> /\ Notify({<<u, o>>}, {}) /\ GuardTyped
        /\ OneCall /\ NoneBeforeCreated /\ \A c \in Clients: RoleHolds(call[c])
    BY DEF ExpireAnswer, AnswersInv, RoleTypeOK, GuardTyped
  <1>2. ASSUME NEW k \in Keys
        PROVE  GrantedRights'[k] = GrantedRights[k]
    <2>1. PICK v \in Holders, b \in Branches: k = <<v, b>>
      BY DEF Keys
    <2> QED
      BY <1>1, <2>1, SameRolesSameRights
  <1>3. AnswersRight => AnswersRight'
    BY <1>1, <1>2, NotifiedRight
  <1>4. ASSUME NEW c \in Clients
        PROVE  RoleHolds(call[c])'
    <2>1. CASE call[c].at = "read"
      <3>3. call[c] \in RoleCall
        BY DEF RoleTypeOK
      <3>4. call[c].user \in Holders /\ call[c].branch \in Branches
        BY <2>1, <3>3 DEF RoleCall, Idle
      <3>1. PICK k \in Keys: k = <<call[c].user, call[c].branch>>
        BY <3>4 DEF Keys
      <3>2. call[c].permits = GrantedRights[k]
        BY <1>1, <2>1, <3>1 DEF RoleHolds
      <3> QED
        BY <1>1, <1>2, <2>1, <3>1, <3>2 DEF RoleHolds
    <2>2. CASE call[c].at # "read"
      BY <1>1, <2>2 DEF RoleHolds
    <2> QED
      BY <2>1, <2>2
  <1> QED
    BY <1>1, <1>3, <1>4 DEF AnswersInv, OneCall, NoneBeforeCreated

\* With the calls about roles made one after the other, for any users, organisations, roles
\* and permissions: between two changes the guard keeps no answer that differs from the
\* tables, but those a change without an event has left behind.
THEOREM AnswersFollowEvents ==
  ASSUME "roles" \notin Overlapping
  PROVE  OfficeSpec => []OnlyUntoldAnswersDiffer
  <1>1. OfficeInit => AnswersInv
    <2> SUFFICES ASSUME OfficeInit
                 PROVE  AnswersInv
      OBVIOUS
    <2>1. OneCall /\ \A c \in Clients: call[c].at = "idle"
      BY IdleFirst
    <2>2. cached = [k \in Keys |-> Missing]
      BY DEF OfficeInit, RoleInit
    <2>3. role = [r \in Roles |-> [exists |-> r = BaseRole \/ OrgOf[r] = "global",
                                   active |-> TRUE, permits |-> {}]]
      BY DEF OfficeInit, RoleInit
    <2>4. AnswersRight
      BY <2>2 DEF AnswersRight
    <2>5. NoneBeforeCreated
      BY <2>3 DEF NoneBeforeCreated
    <2>6. \A c \in Clients: RoleHolds(call[c])
      BY <2>1, Zenon DEF RoleHolds
    <2> QED
      BY <2>1, <2>4, <2>5, <2>6 DEF AnswersInv
  <1>2. RoleTypeOK /\ AnswersInv /\ [OfficeNext]_<<officeVars, call, focus>> => AnswersInv'
    <2> SUFFICES ASSUME RoleTypeOK, AnswersInv, [OfficeNext]_<<officeVars, call, focus>>
                 PROVE  AnswersInv'
      OBVIOUS
    <2>1. \/ focus = "roles" /\ RoleNext /\ UNCHANGED focus
          \/ UNCHANGED <<known, role, link, cached, untold, focus>>
             /\ (focus # "roles" \/ UNCHANGED call)
      BY DEF OfficeNext, officeVars, roleVars
    <2>2. CASE focus = "roles" /\ RoleNext /\ UNCHANGED focus
      BY <2>2, RoleRowsKeepAnswers, LinksKeepAnswers, RoleCallsKeepAnswers, ExpiryKeepsAnswers, Zenon
         DEF RoleNext
    <2>3. CASE UNCHANGED <<known, role, link, cached, untold, focus>>
               /\ (focus # "roles" \/ UNCHANGED call)
      <3>1. ASSUME NEW k \in Keys
            PROVE  GrantedRights'[k] = GrantedRights[k]
        <4>1. PICK v \in Holders, b \in Branches: k = <<v, b>>
          BY DEF Keys
        <4> QED
          BY <2>3, <4>1, SameRolesSameRights
      <3>2. AnswersRight => AnswersRight'
        BY <2>3, <3>1 DEF AnswersRight
      <3>3. CASE focus # "roles"
        BY <2>3, <3>2, <3>3 DEF AnswersInv
      <3>4. CASE focus = "roles"
        <4>1. UNCHANGED <<known, role, link, cached, untold, call>>
          BY <2>3, <3>4
        <4>2. ASSUME NEW c \in Clients
              PROVE  RoleHolds(call[c])'
          <5>1. CASE call[c].at = "read"
            <6>3. call[c] \in RoleCall
              BY <3>4 DEF RoleTypeOK
            <6>4. call[c].user \in Holders /\ call[c].branch \in Branches
              BY <5>1, <6>3 DEF RoleCall, Idle
            <6>1. PICK k \in Keys: k = <<call[c].user, call[c].branch>>
              BY <6>4 DEF Keys
            <6>2. call[c].permits = GrantedRights[k]
              BY <3>4, <5>1, <6>1 DEF AnswersInv, RoleHolds
            <6> QED
              BY <3>1, <4>1, <5>1, <6>1, <6>2 DEF RoleHolds
          <5>2. CASE call[c].at # "read"
            BY <3>4, <4>1, <5>2 DEF AnswersInv, RoleHolds
          <5> QED
            BY <5>1, <5>2
        <4> QED
          BY <2>3, <3>2, <3>4, <4>1, <4>2 DEF AnswersInv, OneCall, NoneBeforeCreated
      <3> QED
        BY <3>3, <3>4
    <2> QED
      BY <2>1, <2>2, <2>3
  <1>3. AnswersInv => OnlyUntoldAnswersDiffer
    <2> SUFFICES ASSUME AnswersInv, \A c \in Clients: call[c].at \notin {"emptied", "saved"},
                        NEW u \in Holders, NEW o \in Branches
                 PROVE  cached[<<u, o>>] \in {Missing, Granted(u, o)} \/ <<u, o>> \in untold
      BY Zenon DEF OnlyUntoldAnswersDiffer
    <2>1. AnswersRight
      BY DEF AnswersInv
    <2>2. PICK k \in Keys: k = <<u, o>>
      BY DEF Keys
    <2>3. GrantedRights[k] = Granted(u, o)
      BY <2>2 DEF GrantedRights
    <2> QED
      BY <2>1, <2>2, <2>3 DEF AnswersRight
  <1>4. OfficeTypeOK => RoleTypeOK
    BY DEF OfficeTypeOK
  <1> QED
    BY <1>1, <1>2, <1>3, <1>4, OfficeIsTyped, PTL DEF OfficeSpec
=============================================================================
