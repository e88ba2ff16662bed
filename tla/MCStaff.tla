------------------------------- MODULE MCStaff ------------------------------
(* Instances for TLC of the components of core/hr that keep rows of their   *)
(* own.  A behaviour has one of them as its focus, and Foci names those     *)
(* that are tried.                                                          *)
EXTENDS LeaveBalance, Discipline, PersonnelFile, Regulations, Evaluations,
        HrDesk, DailyRecords, Overtime, Hiring, Reminders, TLC

CONSTANTS Foci, r1, r2

staffVars == <<leaveVars, disciplineVars, fileVars, regulationVars, evaluationVars, deskVars,
               recordVars, timesheet, hiringVars, reminderVars>>

StaffInit ==
  /\ focus \in Foci
  /\ call = [c \in Clients |-> Idle]
  /\ LeaveInit /\ DisciplineInit /\ FileInit /\ RegulationInit /\ EvaluationInit
  /\ DeskInit /\ RecordInit /\ OvertimeInit /\ HiringInit /\ ReminderInit

StaffNext ==
  \/ /\ focus = "leave" /\ LeaveNext
     /\ UNCHANGED <<disciplineVars, fileVars, regulationVars, evaluationVars,
                    deskVars, recordVars, timesheet, hiringVars, reminderVars, focus>>
  \/ /\ focus = "discipline" /\ DisciplineNext
     /\ UNCHANGED <<leaveVars, fileVars, regulationVars, evaluationVars,
                    deskVars, recordVars, timesheet, hiringVars, reminderVars, focus>>
  \/ /\ focus \in {"initiations", "documents"} /\ FileNext
     /\ UNCHANGED <<leaveVars, disciplineVars, regulationVars,
                    evaluationVars, deskVars, recordVars, timesheet, hiringVars,
                    reminderVars, focus>>
  \/ /\ focus \in {"regulations", "papers"} /\ RegulationNext
     /\ UNCHANGED <<leaveVars, disciplineVars, fileVars, evaluationVars,
                    deskVars, recordVars, timesheet, hiringVars, reminderVars, focus>>
  \/ /\ focus = "evaluations" /\ EvaluationNext
     /\ UNCHANGED <<leaveVars, disciplineVars, fileVars, regulationVars,
                    deskVars, recordVars, timesheet, hiringVars, reminderVars, focus>>
  \/ /\ focus \in {"tickets", "events", "rituals"} /\ DeskNext
     /\ UNCHANGED <<leaveVars, disciplineVars, fileVars, regulationVars,
                    evaluationVars, recordVars, timesheet, hiringVars, reminderVars, focus>>
  \/ /\ focus = "records" /\ RecordNext
     /\ UNCHANGED <<leaveVars, disciplineVars, fileVars, regulationVars,
                    evaluationVars, deskVars, timesheet, hiringVars, reminderVars, focus>>
  \/ /\ focus \in {"openings", "positions"} /\ HiringNext
     /\ UNCHANGED <<leaveVars, disciplineVars, fileVars, regulationVars,
                    evaluationVars, deskVars, recordVars, timesheet, reminderVars, focus>>
  \/ /\ focus \in {"deadlines", "punches"} /\ ReminderNext
     /\ UNCHANGED <<leaveVars, disciplineVars, fileVars, regulationVars,
                    evaluationVars, deskVars, recordVars, timesheet, hiringVars, focus>>

StaffSpec == StaffInit /\ [][StaffNext]_<<staffVars, call, focus>>

\* one type invariant for all of them
StaffTypeOK ==
  /\ LeaveTypeOK /\ DisciplineTypeOK /\ FileTypeOK /\ RegulationTypeOK /\ EvaluationTypeOK
  /\ DeskTypeOK /\ RecordTypeOK /\ OvertimeTypeOK /\ HiringTypeOK /\ ReminderTypeOK

\* Whatever was archived, deleted, cleared or broken off before, calls made one after the
\* other leave no two where the code wants one: of the regulations in force, of the
\* applications of a person for an opening, of the main positions of an employee, of the
\* reminders of a kind about a day (regulation.service.ts:89, public-careers.service.ts:222,
\* job-position.service.ts:271, attendance-reminder.service.ts:32).
NoTwoOfOne == OneInForce /\ OneApplicationEach /\ OneMainPosition /\ RemindedOncePerDay

\* The results a person is judged on add up: the score of a month, the balance of a
\* timesheet, the verdict of the quiz, the length of an event (evaluation.service.ts:140,
\* overtime.service.ts:180, employee-initiation.service.ts:78, internal-event.service.ts:131).
ResultsAddUp == ScoreIsAnAverage /\ OvertimeBalances /\ QuizVerdictStands /\ EventsLast

-----------------------------------------------------------------------------
AllComponents == {"leave", "discipline", "initiations", "documents", "regulations", "papers",
                  "evaluations", "tickets", "events", "rituals", "records", "overtime",
                  "openings", "positions", "deadlines", "punches"}

NoOverlap == {}

AllAttendanceCalls == Endpoints

\* all that writes attendance, and no sanction
AttendanceOnly == {"checkIn", "checkOut", "completeCheckout", "justify", "manualEntry"}

\* all days in one period
OnePeriod == [d \in 1..Days |-> 1]

\* points taken off, as well as given
SomePoints == {-10, 89, 90}
SomeWeights == {-50, 0, 50}

KpiWeights == [k \in {"k1", "k2"} |-> IF k = "k1" THEN 30 ELSE 70]
RitualDays2 == [r \in Rituals |-> IF r = "daily" THEN 0 ELSE 3]

\* in half days: half a day less than nothing, a day, a day and a half
HalfDays == {-1, 2, 3}

RequestSymmetry == Permutations(Requests)
===============================================================================
