---------------------------- MODULE PersonnelFile ---------------------------
(***************************************************************************)
(* The file of a new employee: the six steps of the initiation, with the   *)
(* quiz and its three attempts, and the documents the employee has to      *)
(* hand in, with the reminders of every morning                            *)
(* (core/hr/services/employee-initiation.service.ts,                       *)
(* core/hr/required-documents.service.ts, document-reminder.service.ts).   *)
(*                                                                         *)
(* Nothing calls initializeRequiredDocuments: the row of a document is     *)
(* made by the first upload.  Left out: the file itself, its expiry, the   *)
(* percentage of completion and the lists, which only read.                *)
(***************************************************************************)
EXTENDS Callers, Integers

CONSTANTS Recruits,     \* employees
          Account,      \* those with a user account
          Documents,    \* types of required documents
          Scores        \* results sent for the quiz

VARIABLES initiation,   \* employee_initiations
          document      \* employee_required_documents

fileVars == <<initiation, document>>

QUIZ_PASSING_SCORE == 8
MAX_QUIZ_ATTEMPTS == 3

InitiationRow ==
  [exists: BOOLEAN, status: {"pending", "in_progress", "completed", "failed"},
   currentStep: 0..6, manifestoSent: BOOLEAN, quizCompleted: BOOLEAN,
   quizScore: Scores \cup {0}, quizAttempts: 0..MAX_QUIZ_ATTEMPTS + 1, sponsor: BOOLEAN,
   teamPresentationDone: BOOLEAN, oathSigned: BOOLEAN, identityElementReceived: BOOLEAN]

NoInitiation ==
  [exists |-> FALSE, status |-> "pending", currentStep |-> 0, manifestoSent |-> FALSE,
   quizCompleted |-> FALSE, quizScore |-> 0, quizAttempts |-> 0, sponsor |-> FALSE,
   teamPresentationDone |-> FALSE, oathSigned |-> FALSE, identityElementReceived |-> FALSE]

\* reminded: reminder_sent_at is null, of the last day, or older
DocumentRow ==
  [status: {"none", "pending", "uploaded", "validated", "rejected"},
   filled: BOOLEAN, reminded: {"never", "today", "before"}]

FileTypeOK ==
  /\ initiation \in [Recruits -> InitiationRow]
  /\ document \in [Recruits -> [Documents -> DocumentRow]]

FileInit ==
  /\ initiation = [e \in Recruits |-> NoInitiation]
  /\ document = [e \in Recruits |->
                   [d \in Documents |-> [status |-> "none", filled |-> FALSE, reminded |-> "never"]]]

-----------------------------------------------------------------------------
(* EmployeeInitiationService *)

\* every handler, the progress shown included, makes the row when it is missing
Save(e, row) ==
  /\ MayRun("initiations")
  /\ initiation' = [initiation EXCEPT ![e] = [row EXCEPT !.exists = TRUE]]
  /\ UNCHANGED <<document, call>>

Reached(row, step) == IF row.currentStep < step THEN step ELSE row.currentStep

GetProgress(e) == Save(e, initiation[e])

\* the step goes back to 1 when a later one was reached before the start
StartInitiation(e) ==
  /\ initiation[e].status = "pending"
  /\ Save(e, [initiation[e] EXCEPT !.manifestoSent = TRUE, !.currentStep = 1,
                                   !.status = "in_progress"])

\* what an answer to the quiz makes of the row; attempts counted up to a bound
QuizAnswered(row, score) ==
  LET tried  == [row EXCEPT !.quizScore = score,
                            !.quizAttempts = IF @ > MAX_QUIZ_ATTEMPTS THEN @ ELSE @ + 1]
      passed == IF score >= QUIZ_PASSING_SCORE
                THEN [tried EXCEPT !.quizCompleted = TRUE, !.currentStep = Reached(row, 2)]
                ELSE tried
  IN IF passed.quizAttempts >= MAX_QUIZ_ATTEMPTS /\ ~passed.quizCompleted
     THEN [passed EXCEPT !.status = "failed"]
     ELSE passed

\* an answer after the quiz was passed changes nothing
SubmitQuiz(e, score) ==
  Save(e, IF initiation[e].quizCompleted THEN initiation[e]
          ELSE QuizAnswered(initiation[e], score))

AssignSponsor(e) ==
  Save(e, [initiation[e] EXCEPT !.sponsor = TRUE, !.currentStep = Reached(initiation[e], 3)])

CompleteStep(e) ==
  LET row == initiation[e]
  IN \/ Save(e, [row EXCEPT !.teamPresentationDone = TRUE, !.currentStep = Reached(row, 4)])
     \/ Save(e, [row EXCEPT !.oathSigned = TRUE, !.currentStep = Reached(row, 5)])
     \/ Save(e, [row EXCEPT !.identityElementReceived = TRUE, !.currentStep = 6,
                            !.status = "completed"])

-----------------------------------------------------------------------------
(* RequiredDocumentsService and DocumentReminderService *)

\* made when it is missing, and whatever its status
UploadDocument(e, d) ==
  /\ MayRun("documents")
  /\ document' = [document EXCEPT ![e][d].status = "uploaded", ![e][d].filled = TRUE]
  /\ UNCHANGED <<initiation, call>>

ValidateDocument(e, d) ==
  /\ MayRun("documents")
  /\ document[e][d].status # "none"
  /\ document' = [document EXCEPT ![e][d].status = "validated"]
  /\ UNCHANGED <<initiation, call>>

RejectDocument(e, d) ==
  /\ MayRun("documents")
  /\ document[e][d].status # "none"
  /\ document' = [document EXCEPT ![e][d].status = "rejected", ![e][d].filled = FALSE]
  /\ UNCHANGED <<initiation, call>>

\* LessThan(yesterday) || IsNull() is LessThan(yesterday) in JavaScript: a document
\* nobody was ever reminded of is not found
NeedsReminder(row) == row.status \in {"pending", "rejected"} /\ row.reminded = "before"

\* every morning; an employee without an account is passed over
SendDailyReminders ==
  /\ MayRun("documents")
  /\ document' = [e \in Recruits |-> [d \in Documents |->
       LET row == document[e][d]
       IN IF NeedsReminder(row) /\ e \in Account THEN [row EXCEPT !.reminded = "today"]
          ELSE IF row.reminded = "today" THEN [row EXCEPT !.reminded = "before"]
          ELSE row]]
  /\ UNCHANGED <<initiation, call>>

-----------------------------------------------------------------------------
EmployeeInitiationController ==
  \E e \in Recruits:
    \/ GetProgress(e) \/ StartInitiation(e) \/ AssignSponsor(e) \/ CompleteStep(e)
    \/ \E score \in Scores: SubmitQuiz(e, score)

RequiredDocumentsController ==
  \E e \in Recruits, d \in Documents:
    UploadDocument(e, d) \/ ValidateDocument(e, d) \/ RejectDocument(e, d)

FileNext == EmployeeInitiationController \/ RequiredDocumentsController \/ SendDailyReminders

-----------------------------------------------------------------------------
(* Properties *)

\* In whatever order answers, steps and late attempts come, a quiz counted as passed keeps
\* the score it was passed with, and an initiation failed on the quiz had its three attempts
\* (employee-initiation.service.ts:76-98).
QuizVerdictStands ==
  \A e \in Recruits:
    LET row == initiation[e]
    IN /\ row.quizCompleted => row.quizScore >= QUIZ_PASSING_SCORE
       /\ row.status = "failed" => row.quizAttempts >= MAX_QUIZ_ATTEMPTS
=============================================================================
