------------------------------ MODULE Reminders -----------------------------
(***************************************************************************)
(* The reminders the server sends by itself.                               *)
(*                                                                         *)
(* Focus "deadlines": the daily job of projects/deadline-reminder.service  *)
(* on every instance of the server, which may crash and come back.  Its    *)
(* query of projects asks for a status no project ever has, 'in_progress', *)
(* so only tasks are reminded.  Who is told about a task is left out.      *)
(*                                                                         *)
(* Focus "punches": the three ticks of                                     *)
(* hr/services/attendance-reminder.service for one employee with an        *)
(* account.  Left out: the push messages that go with a notification.      *)
(***************************************************************************)
EXTENDS Callers, FiniteSets

CONSTANTS Servers,      \* instances of the server
          DueTasks,     \* tasks with a deadline
          LastReminder, \* bound on the days
          OnDuty,       \* the days the employee works
          Slots         \* 0..Slots: the moments of a day the ticks may run at; work starts
                        \* at 0, and the last one is past its end

ASSUME ReminderAssumption == LastReminder \in Nat /\ Slots \in Nat

VARIABLES due,          \* due[t]: the deadline, in days
          running,      \* tasks whose status is 'in_progress'
          edited,       \* edited[t]: the last day t was edited (history)
          job,          \* job[s]: where the job of the day stands on server s
          lock,         \* holder of the advisory lock, or "free"
          told,         \* the notifications of type 'deadline_reminder'
          day,          \* the day it is; the job is due when it begins
          stored,       \* how the work days of the employee are written
          slot,         \* the moment of the day
          onLeave,      \* days of approved leave
          punched,      \* punched[d]: the attendance of day d
          nudges        \* notifications of the ticks; alike ones are numbered

deadlineVars == <<due, running, edited, job, lock, told>>
punchVars == <<stored, slot, onLeave, punched, nudges>>
reminderVars == <<deadlineVars, day, punchVars>>

ReminderDays == 0..LastReminder
DueDates == 0..(LastReminder + 3)
Ahead == {1, 3}                  \* the windows, in days before the deadline

Reminder == [task: DueTasks, days: Ahead]
Notice == [task: DueTasks, days: Ahead, day: ReminderDays]
JobState ==
  [at: {"due", "projects", "query", "ended", "failed", "missed", "down"}]
  \cup [at: {"send"}, left: SUBSET Reminder]

Kinds == {"late", "checkout", "yesterday"}
Punch == {"none", "in", "out"}
Nudge == [kind: Kinds, about: ReminderDays, nth: 1..2]
NudgeCall == {Idle} \cup [at: {"nudge"}, kind: Kinds, about: ReminderDays]

ReminderTypeOK ==
  /\ due \in [DueTasks -> DueDates]
  /\ running \subseteq DueTasks
  /\ edited \in [DueTasks -> ReminderDays]
  /\ job \in [Servers -> JobState]
  /\ lock \in Servers \cup {"free"}
  /\ told \subseteq Notice
  /\ day \in ReminderDays
  /\ stored \in {"full", "short", "unset"}
  /\ slot \in 0..Slots
  /\ onLeave \subseteq ReminderDays
  /\ punched \in [ReminderDays -> Punch]
  /\ nudges \subseteq Nudge
  /\ focus = "punches" => call \in [Clients -> NudgeCall]

ReminderInit ==
  /\ due \in [DueTasks -> IF focus = "deadlines" THEN DueDates ELSE {0}]
  /\ running = DueTasks
  /\ edited = [t \in DueTasks |-> 0]
  /\ job = [s \in Servers |-> [at |-> "due"]]
  /\ lock = "free"
  /\ told = {}
  /\ day = 0
  /\ stored \in IF focus = "punches" THEN {"full", "short", "unset"} ELSE {"unset"}
  /\ slot = 0
  /\ onLeave \in SUBSET IF focus = "punches" THEN ReminderDays ELSE {}
  /\ punched = [d \in ReminderDays |-> "none"]
  /\ nudges = {}

-----------------------------------------------------------------------------
(* DeadlineReminderService.handleDailyDeadlineReminders *)

JobGoes(s, state) == job' = [job EXCEPT ![s] = state]

\* the instance that does not get the lock leaves the day to the other
TakeLock(s) ==
  /\ MayRun("deadlines")
  /\ job[s].at = "due"
  /\ IF lock = "free"
     THEN JobGoes(s, [at |-> "projects"]) /\ lock' = s
     ELSE JobGoes(s, [at |-> "missed"]) /\ UNCHANGED lock
  /\ UNCHANGED <<due, running, edited, told, day, punchVars>>

\* (mutant) the windows are counted from the day before
WindowsOffByOne(t) == {w \in Ahead: due[t] = day + w - 1}

\* the windows of one day each that hold the deadline of a task
Windows(t) == {w \in Ahead: due[t] = day + w}

\* sendProjectDeadlineReminders asks for a status no project has: it reminds nobody
QueryProjects(s) ==
  /\ job[s].at = "projects"
  /\ JobGoes(s, [at |-> "query"])
  /\ UNCHANGED <<due, running, edited, lock, told, day, punchVars>>

\* sendTaskDeadlineReminders looks at the tasks once
QueryTasks(s) ==
  /\ job[s].at = "query"
  /\ JobGoes(s, [at |-> "send",
                 left |-> {r \in Reminder: r.task \in running /\ r.days \in Windows(r.task)}])
  /\ UNCHANGED <<due, running, edited, lock, told, day, punchVars>>

\* the reminders of a batch are sent side by side, whatever became of the tasks
SendTaskReminder(s, r) ==
  /\ job[s].at = "send"
  /\ r \in job[s].left
  /\ told' = told \cup {[task |-> r.task, days |-> r.days, day |-> day]}
  /\ JobGoes(s, [job[s] EXCEPT !.left = @ \ {r}])
  /\ UNCHANGED <<due, running, edited, lock, day, punchVars>>

\* the lock goes with the end of the job, or with the first reminder that fails
EndJob(s) ==
  /\ job[s].at = "send"
  /\ \/ job[s].left = {} /\ JobGoes(s, [at |-> "ended"])
     \/ job[s].left # {} /\ JobGoes(s, [at |-> "failed"])
  /\ lock' = "free"
  /\ UNCHANGED <<due, running, edited, told, day, punchVars>>

\* the session of the database ends with the instance, and with it its lock
Crash(s) ==
  /\ focus = "deadlines"
  /\ job[s].at # "down"
  /\ JobGoes(s, [at |-> "down"])
  /\ lock' = IF lock = s THEN "free" ELSE lock
  /\ UNCHANGED <<due, running, edited, told, day, punchVars>>

\* nothing looks for a job of the day that was not run
Restart(s) ==
  /\ focus = "deadlines"
  /\ job[s].at = "down"
  /\ JobGoes(s, [at |-> "missed"])
  /\ UNCHANGED <<due, running, edited, lock, told, day, punchVars>>

\* any edit of a task
EditTask(t, date) ==
  /\ MayRun("deadlines")
  /\ \/ due' = [due EXCEPT ![t] = date] /\ UNCHANGED running
     \/ running' \in {running \cup {t}, running \ {t}} /\ UNCHANGED due
  /\ edited' = [edited EXCEPT ![t] = day]
  /\ UNCHANGED <<job, lock, told, day, punchVars>>

\* every instance that is up starts the job, which is over long before the next one is due
NextMorning ==
  /\ MayRun("deadlines")
  /\ day < LastReminder
  /\ \A s \in Servers: job[s].at \notin {"due", "projects", "query", "send"}
  /\ day' = day + 1
  /\ job' = [s \in Servers |-> IF job[s].at = "down" THEN job[s] ELSE [at |-> "due"]]
  /\ UNCHANGED <<due, running, edited, lock, told, punchVars>>

-----------------------------------------------------------------------------
(* AttendanceReminderService *)

\* the tick of the morning compares the days by their full names, the one of the next
\* morning by their three letters; no days at all are every day
WorksByFullName(d) == stored = "unset" \/ (stored = "full" /\ d \in OnDuty)
WorksByShortName(d) == stored = "unset" \/ (stored = "short" /\ d \in OnDuty)

\* the notification of the day is looked for by user, kind and day
AlreadyNotified(kind, about) == \E n \in nudges: n.kind = kind /\ n.about = about

\* what makes a tick nudge the employee about a day
LateCheckIn ==
  WorksByFullName(day) /\ slot > 0 /\ day \notin onLeave /\ punched[day] = "none"
MissingCheckOut == slot = Slots /\ punched[day] = "in"
IncompleteYesterday ==
  /\ WorksByShortName(day - 1)
  /\ day - 1 \notin onLeave
  /\ punched[day - 1] # "out"

LookThrough(c, kind, about, found) ==
  /\ MayStart(c, "punches")
  /\ found
  /\ ~ AlreadyNotified(kind, about)
  /\ Goto(c, [at |-> "nudge", kind |-> kind, about |-> about])
  /\ UNCHANGED reminderVars

TickLateCheckIns(c) == LookThrough(c, "late", day, LateCheckIn)
TickCheckoutReminders(c) == LookThrough(c, "checkout", day, MissingCheckOut)
TickIncompleteYesterday(c) ==
  day > 0 /\ LookThrough(c, "yesterday", day - 1, IncompleteYesterday)

\* InAppNotificationService.create, the last await of a tick for an employee
InsertNudge(c) ==
  /\ call[c].at = "nudge"
  /\ LET alike == {n \in nudges: n.kind = call[c].kind /\ n.about = call[c].about}
     IN  /\ Cardinality(alike) < 2      \* bound: a second one is enough
         /\ nudges' = nudges \cup {[kind |-> call[c].kind, about |-> call[c].about,
                                    nth |-> Cardinality(alike) + 1]}
  /\ Return(c)
  /\ UNCHANGED <<deadlineVars, day, stored, slot, onLeave, punched>>

\* the employee punches in, or out
PunchIn ==
  /\ MayRun("punches")
  /\ punched[day] = "none"
  /\ punched' = [punched EXCEPT ![day] = "in"]
  /\ UNCHANGED <<deadlineVars, day, stored, slot, onLeave, nudges, call>>

PunchOut ==
  /\ MayRun("punches")
  /\ punched[day] = "in"
  /\ punched' = [punched EXCEPT ![day] = "out"]
  /\ UNCHANGED <<deadlineVars, day, stored, slot, onLeave, nudges, call>>

TimePasses ==
  /\ MayRun("punches")
  /\ \/ slot < Slots /\ slot' = slot + 1 /\ UNCHANGED day
     \/ slot = Slots /\ day < LastReminder /\ slot' = 0 /\ day' = day + 1
  /\ UNCHANGED <<deadlineVars, stored, onLeave, punched, nudges, call>>

DeadlineNext ==
  \/ \E s \in Servers:
       \/ TakeLock(s) \/ QueryProjects(s) \/ QueryTasks(s) \/ EndJob(s) \/ Crash(s) \/ Restart(s)
       \/ \E r \in Reminder: SendTaskReminder(s, r)
  \/ \E t \in DueTasks, date \in DueDates: EditTask(t, date)
  \/ NextMorning

PunchNext ==
  \/ \E c \in Clients:
       \/ TickLateCheckIns(c) \/ TickCheckoutReminders(c) \/ TickIncompleteYesterday(c)
       \/ InsertNudge(c)
  \/ PunchIn \/ PunchOut \/ TimePasses

ReminderNext == (DeadlineNext /\ UNCHANGED call) \/ PunchNext

-----------------------------------------------------------------------------
(* Properties *)

EndedToday == \E s \in Servers: job[s].at = "ended"
Untouched(t, since) == edited[t] < since

\* When the job of a day ran to its end on some server, everyone was told of every task
\* in progress that is due the next day or in three days, unless the task was edited that
\* day: neither the instance that found the lock taken nor one that crashed on the way
\* takes a reminder with it (deadline-reminder.service.ts:26).
DueIsTold ==
  EndedToday =>
    \A t \in running, w \in Ahead:
      due[t] = day + w /\ Untouched(t, day) =>
        [task |-> t, days |-> w, day |-> day] \in told

\* The employee gets one reminder of a kind about a day, however often the ticks run,
\* while one tick runs at a time (attendance-reminder.service.ts:32, "skip si déjà
\* notifié aujourd'hui").
RemindedOncePerDay == \A n \in nudges: n.nth = 1
=============================================================================
