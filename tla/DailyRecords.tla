----------------------------- MODULE DailyRecords ---------------------------
(***************************************************************************)
(* What an employee writes every day: the journal, prepared from the tasks *)
(* ticked at the departure and then submitted                              *)
(* (core/hr/services/daily-journal.service.ts), and the answers to the     *)
(* five questions (guardian-question.service.ts).                          *)
(*                                                                         *)
(* The calls of an employee about a day are made one after the other here: *)
(* two at once would insert two rows, the tables have no unique index.     *)
(*                                                                         *)
(* Left out: moods and marks, the feedback of a manager, lists and         *)
(* statistics.  A text is told apart by what it holds: the block generated *)
(* from tasks, the words of the employee, or both.                         *)
(***************************************************************************)
EXTENDS Callers, Integers

CONSTANTS Writers,      \* employees
          Window,       \* days back a record may still be written for
          LastRecordDay       \* bound on the days

ASSUME RecordAssumption == LastRecordDay \in Nat

VARIABLES date,         \* today
          journal,      \* daily_journals: journal[e][d]
          answers       \* guardian_questions: answered[e][d], how many yes; -1 for no row

recordVars == <<date, journal, answers>>

RecordDays == 0..LastRecordDay

JournalRow == [exists: BOOLEAN, generated: BOOLEAN, written: BOOLEAN, isSubmitted: BOOLEAN,
               reviewed: BOOLEAN]

NoJournal == [exists |-> FALSE, generated |-> FALSE, written |-> FALSE, isSubmitted |-> FALSE,
              reviewed |-> FALSE]

RecordTypeOK ==
  /\ date \in RecordDays
  /\ journal \in [Writers -> [RecordDays -> JournalRow]]
  /\ answers \in [Writers -> [RecordDays -> -1..5]]

RecordInit ==
  /\ date = 0
  /\ journal = [e \in Writers |-> [d \in RecordDays |-> NoJournal]]
  /\ answers = [e \in Writers |-> [d \in RecordDays |-> -1]]

DatePasses ==
  /\ MayRun("records") /\ date < LastRecordDay
  /\ date' = date + 1
  /\ UNCHANGED <<journal, answers, call>>

-----------------------------------------------------------------------------
(* DailyJournalService *)

SaveJournal(e, d, row) ==
  /\ MayRun("records")
  /\ journal' = [journal EXCEPT ![e][d] = row]
  /\ UNCHANGED <<date, answers, call>>

\* (mutant) a journal submitted is prepared again
PrefillSubmitted(e) ==
  SaveJournal(e, date, [exists |-> TRUE, generated |-> TRUE, written |-> FALSE,
                        isSubmitted |-> FALSE, reviewed |-> FALSE])

\* the block generated takes the place of the one that was there, after what was written;
\* nothing is saved for a journal that was submitted
PrefillFromCompletedTasks(e) ==
  /\ ~journal[e][date].isSubmitted
  /\ SaveJournal(e, date, [journal[e][date] EXCEPT !.exists = TRUE, !.generated = TRUE])

MayWrite(d) == d <= date /\ d >= date - Window

\* the text sent takes the place of the one that was there; without a text it stays
SubmitJournal(e, d, writes) ==
  /\ MayWrite(d)
  /\ SaveJournal(e, d, [exists |-> TRUE, isSubmitted |-> TRUE,
                        generated |-> journal[e][d].generated /\ ~writes,
                        written |-> journal[e][d].written \/ writes,
                        reviewed |-> journal[e][d].reviewed])

\* of any journal; a review outlives what was written after it
ReviewJournal(e, d) ==
  /\ journal[e][d].exists
  /\ SaveJournal(e, d, [journal[e][d] EXCEPT !.reviewed = TRUE])

-----------------------------------------------------------------------------
(* GuardianQuestionService *)

SubmitAnswers(e, d, yesCount) ==
  /\ MayRun("records") /\ MayWrite(d)
  /\ answers' = [answers EXCEPT ![e][d] = yesCount]
  /\ UNCHANGED <<date, journal, call>>

-----------------------------------------------------------------------------
DailyJournalController ==
  \E e \in Writers, d \in RecordDays:
    ReviewJournal(e, d) \/ \E writes \in BOOLEAN: SubmitJournal(e, d, writes)

GuardianQuestionController ==
  \E e \in Writers, d \in RecordDays, yesCount \in {0, 5}: SubmitAnswers(e, d, yesCount)

RecordNext ==
  \/ DatePasses
  \/ \E e \in Writers: PrefillFromCompletedTasks(e)
  \/ DailyJournalController \/ GuardianQuestionController

-----------------------------------------------------------------------------
(* Properties *)

\* What an employee wrote in a journal stays there through the departures that prepare it,
\* and a journal submitted stays submitted (daily-journal.service.ts:58-66, "le texte saisi
\* à la main n'est JAMAIS écrasé").
WrittenStays ==
  [][\A e \in Writers: \A d \in RecordDays:
       /\ journal[e][d].written => journal'[e][d].written
       /\ journal[e][d].isSubmitted => journal'[e][d].isSubmitted]_recordVars
=============================================================================
