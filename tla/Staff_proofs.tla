---------------------------- MODULE Staff_proofs ----------------------------
(***************************************************************************)
(* Proofs about the components of core/hr and the reminders, as MCStaff    *)
(* composes them: a behaviour exercises one of them, and the others keep   *)
(* the state they start in.                                                *)
(***************************************************************************)
EXTENDS MCStaff, LeaveBalance_proofs, SequenceTheorems

-----------------------------------------------------------------------------
(* Reminders *)

RemindersOK ==
  /\ job \in [Servers -> JobState]
  /\ due \in [DueTasks -> Int]
  /\ running \subseteq DueTasks
  /\ edited \in [DueTasks -> Nat]
  /\ day \in Nat

\* task t is to be told of at window w
Expected(t, w) == t \in running /\ due[t] = day + w /\ Untouched(t, day)

Told(t, w) == [task |-> t, days |-> w, day |-> day] \in told

\* What a job has still to send, or has sent, is all there is to tell.
NoneForgotten ==
  \A s \in Servers, t \in DueTasks, w \in Ahead:
    Expected(t, w) =>
      /\ job[s].at = "send" => [task |-> t, days |-> w] \in job[s].left \/ Told(t, w)
      /\ job[s].at = "ended" => Told(t, w)

\* Where the job is not looked at it never starts.
JobsWait == focus # "deadlines" => \A s \in Servers: job[s].at = "due"

ReminderInv == RemindersOK /\ NoneForgotten

LEMMA RemindersInitially ==
  ReminderInit => ReminderInv
  <1> SUFFICES ASSUME ReminderInit
               PROVE  ReminderInv
    OBVIOUS
  <1>1. RemindersOK
    BY DEF ReminderInit, RemindersOK, JobState, DueDates
  <1>2. \A s \in Servers: job[s].at # "send" /\ job[s].at # "ended"
    BY DEF ReminderInit
  <1> QED
    BY <1>1, <1>2 DEF ReminderInv, NoneForgotten
\* A job that goes on to anything but sending, or the end, forgets nothing.
LEMMA JobMovesOn ==
  ASSUME ReminderInv, NEW s \in Servers, NEW state \in JobState, JobGoes(s, state),
         state.at # "send", state.at # "ended", UNCHANGED <<due, running, edited, told, day>>
  PROVE  ReminderInv'
  <1>1. /\ job' \in [Servers -> JobState]
        /\ job'[s] = state
        /\ \A other \in Servers \ {s}: job'[other] = job[other]
    BY DEF ReminderInv, RemindersOK, JobGoes
  <1>2. NoneForgotten'
    <2> SUFFICES ASSUME NEW other \in Servers, NEW t \in DueTasks, NEW w \in Ahead,
                        Expected(t, w)'
                 PROVE  /\ job'[other].at = "send" =>
                             [task |-> t, days |-> w] \in job'[other].left \/ Told(t, w)'
                        /\ job'[other].at = "ended" => Told(t, w)'
      BY Zenon DEF NoneForgotten
    <2>1. Expected(t, w) /\ Told(t, w)' = Told(t, w)
      BY DEF Expected, Told, Untouched
    <2>2. CASE other = s
      BY <1>1, <2>2
    <2>3. CASE other # s
      BY <1>1, <2>1, <2>3 DEF ReminderInv, NoneForgotten
    <2> QED
      BY <2>2, <2>3
  <1> QED
    BY <1>1, <1>2 DEF ReminderInv, RemindersOK

\* The query finds all that is to be told.
LEMMA QueryForgetsNone ==
  ASSUME ReminderInv, NEW s \in Servers, QueryTasks(s)
  PROVE  ReminderInv'
  <1> DEFINE found == {r \in Reminder: r.task \in running /\ r.days \in Windows(r.task)}
             state == [at |-> "send", left |-> found]
  <1>1. /\ JobGoes(s, state) /\ UNCHANGED <<due, running, edited, told, day>>
    BY DEF QueryTasks
  <1>2. state \in JobState /\ state.at = "send" /\ state.left = found
    BY DEF JobState
  <1> HIDE DEF state
  <1>3. /\ job' \in [Servers -> JobState]
        /\ job'[s] = state
        /\ \A other \in Servers \ {s}: job'[other] = job[other]
    BY <1>1, <1>2 DEF ReminderInv, RemindersOK, JobGoes
  <1>4. ASSUME NEW other \in Servers, NEW t \in DueTasks, NEW w \in Ahead, Expected(t, w)'
        PROVE  /\ job'[other].at = "send" =>
                    [task |-> t, days |-> w] \in job'[other].left \/ Told(t, w)'
               /\ job'[other].at = "ended" => Told(t, w)'
    <2>1. Expected(t, w) /\ Told(t, w)' = Told(t, w)
      BY <1>1, <1>4 DEF Expected, Told, Untouched
    <2>2. CASE other = s
      <3>1. [task |-> t, days |-> w] \in found
        BY <2>1 DEF Expected, Windows, Reminder
      <3> QED
        BY <1>2, <1>3, <2>2, <3>1
    <2>3. CASE other # s
      BY <1>3, <2>1, <2>3 DEF ReminderInv, NoneForgotten
    <2> QED
      BY <2>2, <2>3
  <1>5. NoneForgotten'
    BY <1>4, Zenon DEF NoneForgotten
  <1> QED
    BY <1>1, <1>3, <1>5 DEF ReminderInv, RemindersOK

\* What leaves the list of a job has been told.
LEMMA SendingForgetsNone ==
  ASSUME ReminderInv, NEW s \in Servers, NEW r \in Reminder, SendTaskReminder(s, r)
  PROVE  ReminderInv'
  <1> DEFINE state == [job[s] EXCEPT !.left = @ \ {r}]
  <1>1. /\ job[s].at = "send" /\ JobGoes(s, state) /\ UNCHANGED <<due, running, edited, day>>
        /\ told' = told \cup {[task |-> r.task, days |-> r.days, day |-> day]}
    BY DEF SendTaskReminder
  <1>2. /\ state \in JobState /\ state.at = "send" /\ state.left = job[s].left \ {r}
    <2>1. job[s] \in [at: {"send"}, left: SUBSET Reminder]
      BY <1>1 DEF ReminderInv, RemindersOK, JobState
    <2>2. state \in [at: {"send"}, left: SUBSET Reminder] /\ state.left = job[s].left \ {r}
      BY <2>1
    <2> QED
      BY <2>2 DEF JobState
  <1> HIDE DEF state
  <1>3. /\ job' \in [Servers -> JobState]
        /\ job'[s] = state
        /\ \A other \in Servers \ {s}: job'[other] = job[other]
    BY <1>1, <1>2 DEF ReminderInv, RemindersOK, JobGoes
  <1>4. ASSUME NEW other \in Servers, NEW t \in DueTasks, NEW w \in Ahead, Expected(t, w)'
        PROVE  /\ job'[other].at = "send" =>
                    [task |-> t, days |-> w] \in job'[other].left \/ Told(t, w)'
               /\ job'[other].at = "ended" => Told(t, w)'
    <2>1. Expected(t, w) /\ (Told(t, w) => Told(t, w)')
      BY <1>1, <1>4 DEF Expected, Told, Untouched
    <2>2. CASE other = s
      <3>1. [task |-> t, days |-> w] \in job[s].left \/ Told(t, w)
        BY <1>1, <2>1 DEF ReminderInv, NoneForgotten
      <3>2. [task |-> t, days |-> w] = r => Told(t, w)'
        BY <1>1 DEF Told
      <3> QED
        BY <1>2, <1>3, <2>1, <2>2, <3>1, <3>2
    <2>3. CASE other # s
      BY <1>3, <2>1, <2>3 DEF ReminderInv, NoneForgotten
    <2> QED
      BY <2>2, <2>3
  <1>5. NoneForgotten'
    BY <1>4, Zenon DEF NoneForgotten
  <1> QED
    BY <1>1, <1>3, <1>5 DEF ReminderInv, RemindersOK

\* A job ends with nothing left to send.
LEMMA EndForgetsNone ==
  ASSUME ReminderInv, NEW s \in Servers, EndJob(s)
  PROVE  ReminderInv'
  <1>1. UNCHANGED <<due, running, edited, told, day>> /\ job[s].at = "send"
    BY DEF EndJob
  <1>2. CASE JobGoes(s, [at |-> "failed"])
    BY <1>1, <1>2, JobMovesOn DEF JobState
  <1>3. CASE job[s].left = {} /\ JobGoes(s, [at |-> "ended"])
    <2>1. /\ job' \in [Servers -> JobState]
          /\ job'[s].at = "ended"
          /\ \A other \in Servers \ {s}: job'[other] = job[other]
      BY <1>3 DEF ReminderInv, RemindersOK, JobGoes, JobState
    <2>2. ASSUME NEW other \in Servers, NEW t \in DueTasks, NEW w \in Ahead, Expected(t, w)'
          PROVE  /\ job'[other].at = "send" =>
                      [task |-> t, days |-> w] \in job'[other].left \/ Told(t, w)'
                 /\ job'[other].at = "ended" => Told(t, w)'
      <3>1. Expected(t, w) /\ Told(t, w)' = Told(t, w)
        BY <1>1, <2>2 DEF Expected, Told, Untouched
      <3>2. CASE other = s
        BY <1>1, <1>3, <2>1, <3>1, <3>2 DEF ReminderInv, NoneForgotten
      <3>3. CASE other # s
        BY <2>1, <3>1, <3>3 DEF ReminderInv, NoneForgotten
      <3> QED
        BY <3>2, <3>3
    <2>3. NoneForgotten'
      BY <2>2, Zenon DEF NoneForgotten
    <2> QED
      BY <1>1, <2>1, <2>3 DEF ReminderInv, RemindersOK
  <1> QED
    BY <1>2, <1>3 DEF EndJob

LEMMA JobsKeepWaiting ==
  ASSUME RemindersOK, JobsWait, ReminderNext, UNCHANGED focus
  PROVE  JobsWait'
  <1> SUFFICES ASSUME focus # "deadlines"
               PROVE  UNCHANGED job
    BY DEF JobsWait
  <1>1. \A s \in Servers: job[s].at = "due"
    BY DEF JobsWait
  <1>2. CASE PunchNext
    BY <1>2 DEF PunchNext, TickLateCheckIns, TickCheckoutReminders, TickIncompleteYesterday,
                LookThrough, InsertNudge, PunchIn, PunchOut, TimePasses, reminderVars, deadlineVars
  <1>3. CASE DeadlineNext
    BY <1>1, <1>3 DEF DeadlineNext, TakeLock, QueryProjects, QueryTasks, EndJob, Crash, Restart,
                      SendTaskReminder, EditTask, NextMorning, MayRun
  <1> QED
    BY <1>2, <1>3 DEF ReminderNext

LEMMA ReminderStepKeeps ==
  ASSUME ReminderInv, JobsWait, ReminderNext
  PROVE  ReminderInv'
  <1>1. ASSUME NEW s \in Servers, TakeLock(s) \/ QueryProjects(s) \/ Crash(s) \/ Restart(s)
        PROVE  ReminderInv'
    <2>1. \E state \in {[at |-> "projects"], [at |-> "missed"], [at |-> "query"],
                        [at |-> "down"]}: JobGoes(s, state)
      BY <1>1 DEF TakeLock, QueryProjects, Crash, Restart
    <2>2. UNCHANGED <<due, running, edited, told, day>>
      BY <1>1 DEF TakeLock, QueryProjects, Crash, Restart
    <2>3. ASSUME NEW state \in {[at |-> "projects"], [at |-> "missed"], [at |-> "query"],
                                [at |-> "down"]}
          PROVE  state \in JobState /\ state.at # "send" /\ state.at # "ended"
      BY DEF JobState
    <2> QED
      BY <2>1, <2>2, <2>3, JobMovesOn
  <1>2. ASSUME NEW t \in DueTasks, NEW deadline \in DueDates, EditTask(t, deadline)
        PROVE  ReminderInv'
    <2>1. /\ UNCHANGED <<job, told, day>>
          /\ edited' = [edited EXCEPT ![t] = day]
          /\ \/ due' = [due EXCEPT ![t] = deadline] /\ UNCHANGED running
             \/ running' \in {running \cup {t}, running \ {t}} /\ UNCHANGED due
      BY <1>2 DEF EditTask
    <2>2. RemindersOK'
      BY <2>1 DEF ReminderInv, RemindersOK, DueDates
    <2>3. \A u \in DueTasks, w \in Ahead: Expected(u, w)' => Expected(u, w)
      BY <2>1 DEF ReminderInv, RemindersOK, Expected, Untouched
    <2>4. \A u \in DueTasks, w \in Ahead: Told(u, w)' = Told(u, w)
      BY <2>1 DEF Told
    <2>5. NoneForgotten'
      BY <2>1, <2>3, <2>4 DEF ReminderInv, NoneForgotten
    <2> QED
      BY <2>2, <2>5 DEF ReminderInv
  <1>3. CASE NextMorning
    <2>1. /\ day' = day + 1 /\ UNCHANGED <<due, running, edited>>
          /\ job' = [s \in Servers |-> IF job[s].at = "down" THEN job[s] ELSE [at |-> "due"]]
      BY <1>3 DEF NextMorning
    <2>2. RemindersOK'
      BY <2>1 DEF ReminderInv, RemindersOK, JobState
    <2>3. \A s \in Servers: job'[s].at # "send" /\ job'[s].at # "ended"
      BY <2>1
    <2> QED
      BY <2>2, <2>3 DEF ReminderInv, NoneForgotten
  <1>4. CASE PunchNext
    <2>1. UNCHANGED <<due, running, edited, job, told>>
      BY <1>4 DEF PunchNext, TickLateCheckIns, TickCheckoutReminders, TickIncompleteYesterday,
                  LookThrough, InsertNudge, PunchIn, PunchOut, TimePasses, reminderVars,
                  deadlineVars
    <2>2. CASE UNCHANGED day
      BY <2>1, <2>2 DEF ReminderInv, RemindersOK, NoneForgotten, Expected, Untouched, Told
    <2>3. CASE TimePasses
      <3>1. day' = day \/ day' = day + 1
        BY <2>3 DEF TimePasses
      <3>2. \A s \in Servers: job'[s].at # "send" /\ job'[s].at # "ended"
        BY <2>1, <2>3 DEF TimePasses, MayRun, JobsWait
      <3>3. RemindersOK'
        BY <2>1, <3>1 DEF ReminderInv, RemindersOK
      <3> QED
        BY <3>2, <3>3 DEF ReminderInv, NoneForgotten
    <2> QED
      BY <1>4, <2>2, <2>3 DEF PunchNext, TickLateCheckIns, TickCheckoutReminders,
         TickIncompleteYesterday, LookThrough, InsertNudge, PunchIn, PunchOut, reminderVars
  <1> QED
    BY <1>1, <1>2, <1>3, <1>4, QueryForgetsNone, SendingForgetsNone, EndForgetsNone
    DEF ReminderNext, DeadlineNext
\* When the job of a day ended on some server, everyone was told of what was due, whatever
\* the number of servers and tasks, in whatever order they take the lock, send, fail, crash
\* and come back, and whatever is edited meanwhile.
THEOREM NoReminderIsForgotten ==
  StaffSpec => []DueIsTold
  <1>1. StaffInit => ReminderInv /\ JobsWait
    BY RemindersInitially DEF StaffInit, JobsWait, ReminderInit
  <1>2. ReminderInv /\ JobsWait /\ [StaffNext]_<<staffVars, call, focus>> => (ReminderInv /\ JobsWait)'
    <2> SUFFICES ASSUME ReminderInv, JobsWait, [StaffNext]_<<staffVars, call, focus>>
                 PROVE  (ReminderInv /\ JobsWait)'
      OBVIOUS
    <2>1. CASE ReminderNext /\ UNCHANGED focus
      BY <2>1, ReminderStepKeeps, JobsKeepWaiting DEF ReminderInv
    <2>2. CASE UNCHANGED reminderVars /\ UNCHANGED focus
      BY <2>2 DEF reminderVars, deadlineVars, ReminderInv, RemindersOK, NoneForgotten, JobsWait,
                  Expected, Untouched, Told
    <2> QED
      BY <2>1, <2>2 DEF StaffNext, staffVars
  <1>3. ReminderInv => DueIsTold
    BY DEF ReminderInv, RemindersOK, NoneForgotten, DueIsTold, EndedToday, Expected, Told
  <1> QED
    BY <1>1, <1>2, <1>3, PTL DEF StaffSpec
-----------------------------------------------------------------------------
(* Sanctions and departures *)

\* faultDay is the day of the fault; the date moves on to the day of the approval
RowsOK ==
  /\ clock \in [day: 1..Days, hour: 1..Hours]
  /\ attendance \in Seq(AttendanceRow)
  /\ sanction \in Seq(Sanction)
  /\ \A k \in DOMAIN sanction: sanction[k].faultDay <= sanction[k].date /\ sanction[k].date <= Today

\* a row about to be saved: only a manual entry writes over a departure, and it has no
\* consequences of its own
SaveHolds(new) ==
  /\ new.read \in AttendanceRow /\ new.new \in AttendanceRow
  /\ new.k # 0 => new.k \in DOMAIN attendance /\ attendance[new.k] = new.read
  /\ IF new.endpoint = "manualEntry" THEN new.check = FALSE
     ELSE new.read.departure = Unset \/ new.new.departure = new.read.departure

\* a decision about to be saved is still one about the sanction that was read
DecisionHolds(new) ==
  /\ new.k \in DOMAIN sanction /\ sanction[new.k] = new.read
  /\ new.new \in Sanction
  /\ new.new.type = new.read.type /\ new.new.faultDay = new.read.faultDay
  /\ new.read.date <= new.new.date /\ new.new.date <= Today

\* sanctions of a lower degree that a sanction of this rule rests on
RestsOnEnough(n) ==
  /\ n = 3 => Cardinality(FaultDays("formal_warning")) >= WarningsPerYear
  /\ n = 4 => Cardinality(FaultDays("suspension")) >= SuspensionsPerYear

\* a rule that is to be applied has enough to rest on, and no fault of today was punished by it
RuleHolds(new) ==
  /\ new.rule \in 1..4
  /\ new.at \in {"exists", "apply"} => RestsOnEnough(new.rule)
  /\ new.at = "apply" =>
       \A k \in DOMAIN sanction: sanction[k].type = SanctionRules[new.rule] => sanction[k].faultDay # Today

CallHolds(new) ==
  /\ new.at = "save" => SaveHolds(new)
  /\ new.at = "decide" => DecisionHolds(new)
  /\ new.at \in {"count", "exists", "apply"} => RuleHolds(new)

DisciplineInv ==
  /\ RowsOK
  /\ OneSanctionPerDay
  /\ focus = "discipline" => OneCall /\ \A c \in Clients: CallHolds(call[c])

LEMMA RulesAre ==
  /\ SanctionRules[1] = "warning_letter" /\ SanctionRules[2] = "formal_warning"
  /\ SanctionRules[3] = "suspension" /\ SanctionRules[4] = "termination"
  /\ Len(SanctionRules) = 4 /\ DOMAIN SanctionRules = 1..4
  /\ SanctionTypes = {"warning_letter", "formal_warning", "suspension", "termination"}
  <1>1. /\ SanctionRules[1] = "warning_letter" /\ SanctionRules[2] = "formal_warning"
        /\ SanctionRules[3] = "suspension" /\ SanctionRules[4] = "termination"
        /\ Len(SanctionRules) = 4 /\ DOMAIN SanctionRules = 1..4
    BY DEF SanctionRules
  <1>2. \A i \in 1..4: i = 1 \/ i = 2 \/ i = 3 \/ i = 4
    OBVIOUS
  <1> QED
    BY <1>1, <1>2 DEF SanctionTypes

LEMMA IdleHolds ==
  CallHolds(Idle) /\ CallHolds([at |-> "count", rule |-> 1])
  BY DEF CallHolds, RuleHolds, Idle

LEMMA DisciplineInitially ==
  DisciplineInit /\ call = [c \in Clients |-> Idle] => DisciplineInv
  <1> SUFFICES ASSUME DisciplineInit, call = [c \in Clients |-> Idle]
               PROVE  DisciplineInv
    OBVIOUS
  <1>1. RowsOK /\ OneSanctionPerDay
    BY DisciplineAssumption DEF DisciplineInit, RowsOK, OneSanctionPerDay
  <1>2. OneCall /\ \A c \in Clients: CallHolds(call[c])
    BY IdleHolds DEF OneCall
  <1> QED
    BY <1>1, <1>2 DEF DisciplineInv

\* A call that reads on, and keeps what it read as it is.
LEMMA CallContinues ==
  ASSUME DisciplineInv, focus = "discipline", UNCHANGED focus, NEW c \in Clients, NEW next,
         Continue(c, next), Quiet \/ call[c] # Idle, CallHolds(next)
  PROVE  DisciplineInv'
  <1>1. /\ OneCall' /\ call'[c] = next
        /\ \A d \in Clients \ {c}: call'[d] = Idle
    BY AloneOrNone DEF Continue, DisciplineInv
  <1>2. UNCHANGED <<clock, attendance, sanction>>
    BY DEF Continue, disciplineVars
  <1>3. ASSUME NEW d \in Clients
        PROVE  CallHolds(call'[d])
    BY <1>1, IdleHolds
  <1>4. ASSUME NEW d \in Clients
        PROVE  CallHolds(call[d])'
    <2>0. CallHolds(call'[d])
      BY <1>3
    <2>1. call'[d].at = "save" => SaveHolds(call[d])'
      <3>1. call'[d].at = "save" => SaveHolds(call'[d])
        BY <2>0 DEF CallHolds
      <3> QED
        BY <1>2, <3>1 DEF SaveHolds
    <2>2. call'[d].at = "decide" => DecisionHolds(call[d])'
      <3>1. call'[d].at = "decide" => DecisionHolds(call'[d])
        BY <2>0 DEF CallHolds
      <3> QED
        BY <1>2, <3>1 DEF DecisionHolds, Today
    <2>3. call'[d].at \in {"count", "exists", "apply"} => RuleHolds(call[d])'
      <3>1. call'[d].at \in {"count", "exists", "apply"} => RuleHolds(call'[d])
        BY <2>0 DEF CallHolds
      <3>2. /\ FaultDays("formal_warning")' = FaultDays("formal_warning")
            /\ FaultDays("suspension")' = FaultDays("suspension")
        BY <1>2 DEF FaultDays
      <3> QED
        BY <1>2, <3>1, <3>2 DEF RuleHolds, RestsOnEnough, Today
    <2> QED
      BY <2>1, <2>2, <2>3 DEF CallHolds
  <1> QED
    BY <1>1, <1>2, <1>4 DEF DisciplineInv, RowsOK, OneSanctionPerDay, Today

\* A call that is done with a row, alone, and at most begins the check of the sanctions.
LEMMA CallIsDone ==
  ASSUME OneCall, NEW c \in Clients, call[c] # Idle,
         NEW next \in {Idle, [at |-> "count", rule |-> 1]}, Goto(c, next)
  PROVE  OneCall' /\ \A d \in Clients: CallHolds(call[d])'
  <1>1. /\ OneCall' /\ call'[c] = next
        /\ \A d \in Clients \ {c}: call'[d] = Idle
    BY AloneOrNone
  <1>2. ASSUME NEW d \in Clients
        PROVE  call'[d] = Idle \/ call'[d] = [at |-> "count", rule |-> 1]
    BY <1>1
  <1>3. ASSUME NEW d \in Clients
        PROVE  CallHolds(call[d])'
    BY <1>2 DEF CallHolds, RuleHolds, Idle
  <1> QED
    BY <1>1, <1>3
\* repository.save writes the entity when the row is as it was read.
LEMMA SavedIsNew ==
  ASSUME NEW row, NEW new,
         \/ row \in AttendanceRow /\ new \in AttendanceRow
         \/ row \in Sanction /\ new \in Sanction
  PROVE  Saved(row, row, new) = {new}
  <1>1. DOMAIN row = DOMAIN new /\ new = [f \in DOMAIN new |-> new[f]]
    <2>1. CASE row \in AttendanceRow /\ new \in AttendanceRow
      BY <2>1 DEF AttendanceRow
    <2>2. CASE row \in Sanction /\ new \in Sanction
      BY <2>2 DEF Sanction
    <2> QED
      BY <2>1, <2>2
  <1>2. [f \in DOMAIN row |-> IF new[f] # row[f] THEN new[f] ELSE row[f]] = new
    BY <1>1
  <1> QED
    BY <1>2 DEF Saved

LEMMA SaveBegins ==
  ASSUME "discipline" \notin Overlapping, DisciplineInv, focus = "discipline", UNCHANGED focus,
         NEW c \in Clients, NEW endpoint, NEW k, NEW read \in AttendanceRow,
         NEW new \in AttendanceRow, NEW check,
         MayCall(c, endpoint), WillSave(c, endpoint, k, read, new, check),
         k # 0 => k \in DOMAIN attendance /\ attendance[k] = read,
         IF endpoint = "manualEntry" THEN check = FALSE
         ELSE read.departure = Unset \/ new.departure = read.departure
  PROVE  DisciplineInv'
  <1> DEFINE next == [at |-> "save", endpoint |-> endpoint, k |-> k, read |-> read, new |-> new,
                      check |-> check]
  <1>1. Continue(c, next) /\ Quiet
    BY DEF WillSave, MayCall, MayStart, MayRun
  <1>2. /\ next.at = "save" /\ next.endpoint = endpoint /\ next.k = k /\ next.read = read
        /\ next.new = new /\ next.check = check
    OBVIOUS
  <1> HIDE DEF next
  <1>3. SaveHolds(next)
    BY <1>2 DEF SaveHolds
  <1>4. CallHolds(next)
    BY <1>2, <1>3 DEF CallHolds
  <1> QED
    BY <1>1, <1>4, CallContinues

LEMMA RowsRead ==
  ASSUME RowsOK
  PROVE  /\ \A on \in 1..Days: \A k \in Found(on):
              /\ k # 0 => k \in DOMAIN attendance /\ attendance[k] = ReadRow(k, on)
              /\ ReadRow(k, on) \in AttendanceRow
         /\ \A k \in DOMAIN attendance: k # 0 /\ attendance[k] \in AttendanceRow
         /\ clock.day \in 1..Days /\ clock.hour \in 1..Hours
  <1>1. \A k \in DOMAIN attendance: k # 0 /\ attendance[k] \in AttendanceRow
    BY DEF RowsOK
  <1>2. \A on \in 1..Days: NewRow(on, "present") \in AttendanceRow
    BY DisciplineAssumption DEF NewRow, AttendanceRow, Unset
  <1>3. \A on \in 1..Days: \A k \in Found(on): k # 0 => k \in DOMAIN attendance
    BY DEF Found
  <1>4. clock.day \in 1..Days /\ clock.hour \in 1..Hours
    BY DEF RowsOK
  <1> QED
    BY <1>1, <1>2, <1>3, <1>4 DEF ReadRow

\* What a call of the attendance service reads, it will save.
LEMMA AttendanceReads ==
  ASSUME "discipline" \notin Overlapping, DisciplineInv, focus = "discipline", UNCHANGED focus,
         NEW c \in Clients, AttendanceStep(c), ~SaveRow(c)
  PROVE  DisciplineInv'
  <1>0. RowsOK /\ 1..Hours \subseteq 0..Hours
    BY DisciplineAssumption DEF DisciplineInv
  <1>1. ASSUME NEW k \in Found(Today), BeginCheckIn(c, k)
        PROVE  DisciplineInv'
    <2> DEFINE read == ReadRow(k, Today)
               new == [read EXCEPT !.arrival = clock.hour, !.status = ArrivalStatus(read)]
    <2>1. /\ read \in AttendanceRow /\ clock.hour \in 1..Hours
          /\ k # 0 => k \in DOMAIN attendance /\ attendance[k] = read
      BY <1>0, RowsRead DEF Today
    <2>2. ArrivalStatus(read) \in {"late", "present"}
      BY DEF ArrivalStatus
    <2>3. MayCall(c, "checkIn") /\ \E check: WillSave(c, "checkIn", k, read, new, check)
      BY <1>1 DEF BeginCheckIn
    <2> HIDE DEF read
    <2>4. new \in AttendanceRow /\ new.departure = read.departure
      <3> DEFINE status == ArrivalStatus(read)
      <3>1. /\ status \in {"present", "absent", "late", "early_leave"}
            /\ clock.hour \in 0..Hours
        BY <2>1, <2>2, <1>0
      <3>2. new = [read EXCEPT !.arrival = clock.hour, !.status = status]
        OBVIOUS
      <3> HIDE DEF status, new
      <3> QED
        BY ONLY <2>1, <3>1, <3>2 DEF AttendanceRow
    <2> HIDE DEF new
    <2> QED
      BY <2>1, <2>3, <2>4, SaveBegins
  <1>2. ASSUME NEW k \in DOMAIN attendance, NEW hour \in 1..Hours,
               \/ BeginCheckOut(c, k) /\ hour = clock.hour
               \/ BeginCompleteCheckout(c, k, hour)
        PROVE  DisciplineInv'
    <2> DEFINE read == attendance[k]
    <2>1. read \in AttendanceRow /\ k # 0
      BY <1>0, RowsRead
    <2>2. PICK estimated \in {read.estimated, TRUE}, endpoint \in {"checkOut", "completeCheckout"}:
            /\ MayCall(c, endpoint) /\ read.departure = Unset
            /\ WillSave(c, endpoint, k, read,
                        [read EXCEPT !.departure = hour, !.estimated = estimated,
                                     !.status = DepartureStatus(read, hour)], FALSE)
      <3>1. CASE BeginCheckOut(c, k) /\ hour = clock.hour
        <4>1. [read EXCEPT !.departure = hour, !.status = DepartureStatus(read, hour)]
                = [read EXCEPT !.departure = hour, !.estimated = read.estimated,
                               !.status = DepartureStatus(read, hour)]
          BY <2>1 DEF AttendanceRow
        <4> QED
          BY <3>1, <4>1 DEF BeginCheckOut
      <3>2. CASE BeginCompleteCheckout(c, k, hour)
        BY <3>2 DEF BeginCompleteCheckout
      <3> QED
        BY <1>2, <3>1, <3>2
    <2>3. DepartureStatus(read, hour) \in {"present", "absent", "late", "early_leave"}
      BY <2>1 DEF DepartureStatus, AttendanceRow
    <2> DEFINE new == [read EXCEPT !.departure = hour, !.estimated = estimated,
                                   !.status = DepartureStatus(read, hour)]
    <2>4. new \in AttendanceRow
      <3> DEFINE status == DepartureStatus(read, hour)
      <3>1. /\ status \in {"present", "absent", "late", "early_leave"}
            /\ hour \in 0..Hours /\ estimated \in BOOLEAN
        BY <2>1, <2>2, <2>3, <1>0 DEF AttendanceRow
      <3>2. new = [read EXCEPT !.departure = hour, !.estimated = estimated, !.status = status]
        OBVIOUS
      <3> HIDE DEF status, new, read
      <3> QED
        BY ONLY <2>1, <3>1, <3>2 DEF AttendanceRow
    <2>5. endpoint # "manualEntry"
      BY <2>2
    <2> HIDE DEF new
    <2> QED
      BY <2>1, <2>2, <2>4, <2>5, SaveBegins DEF new
  <1>3. ASSUME NEW k \in DOMAIN attendance, BeginJustify(c, k)
        PROVE  DisciplineInv'
    <2> DEFINE new == [attendance[k] EXCEPT !.justified = TRUE]
    <2>1. attendance[k] \in AttendanceRow /\ k # 0
      BY <1>0, RowsRead
    <2>2. new \in AttendanceRow /\ new.departure = attendance[k].departure
      BY <2>1 DEF AttendanceRow
    <2>3. MayCall(c, "justify") /\ WillSave(c, "justify", k, attendance[k], new, FALSE)
      BY <1>3 DEF BeginJustify
    <2> HIDE DEF new
    <2> QED
      BY <2>1, <2>2, <2>3, SaveBegins
  <1>4. ASSUME NEW on \in EntryDays, NEW arrival \in 1..Hours, NEW departure \in 0..Hours,
               NEW k \in Found(on), BeginManualEntry(c, k, on, arrival, departure)
        PROVE  DisciplineInv'
    <2> DEFINE read == ReadRow(k, on)
               left == IF departure = Unset THEN read.departure ELSE departure
               status == IF arrival > Start THEN "late" ELSE "present"
               new == [read EXCEPT !.arrival = arrival,
                                   !.departure = IF departure = Unset THEN @ ELSE departure,
                                   !.status = IF arrival > Start THEN "late" ELSE "present"]
    <2>1. /\ read \in AttendanceRow
          /\ k # 0 => k \in DOMAIN attendance /\ attendance[k] = read
      <3>1. on \in 1..Days
        BY ONLY DisciplineAssumption, on \in EntryDays
      <3> QED
        BY <1>0, <3>1, RowsRead
    <2>2. MayCall(c, "manualEntry") /\ WillSave(c, "manualEntry", k, read, new, FALSE)
      BY <1>4 DEF BeginManualEntry
    <2> HIDE DEF read
    <2>3. new \in AttendanceRow
      <3>1. /\ left \in 0..Hours /\ arrival \in 0..Hours
            /\ status \in {"present", "absent", "late", "early_leave"}
        BY <1>0, <2>1 DEF AttendanceRow
      <3>2. new = [read EXCEPT !.arrival = arrival, !.departure = left, !.status = status]
        BY <2>1 DEF AttendanceRow
      <3> HIDE DEF left, status, new
      <3> QED
        BY ONLY <2>1, <3>1, <3>2 DEF AttendanceRow
    <2> HIDE DEF new
    <2> QED
      BY <2>1, <2>2, <2>3, SaveBegins
  <1>5. \A k: BeginCheckOut(c, k) => clock.hour \in 1..Hours
    BY <1>0, RowsRead
  <1> QED
    BY <1>1, <1>2, <1>3, <1>4, <1>5 DEF AttendanceStep
\* One more row, or one written over: only the attendance changes.
LEMMA AttendanceWritten ==
  ASSUME DisciplineInv, focus = "discipline", UNCHANGED <<focus, clock, sanction>>,
         attendance' \in Seq(AttendanceRow), OneCall', \A c \in Clients: CallHolds(call[c])'
  PROVE  DisciplineInv'
  BY DEF DisciplineInv, RowsOK, OneSanctionPerDay, Today

LEMMA RowSaved ==
  ASSUME DisciplineInv, focus = "discipline", UNCHANGED focus, NEW c \in Clients, SaveRow(c)
  PROVE  /\ DisciplineInv'
         /\ \A k \in DOMAIN attendance:
              attendance'[k] = attendance[k] \/ (attendance'[k] = call[c].new /\ call[c].k = k)
  <1> DEFINE at == call[c]
             next == IF at.check THEN [at |-> "count", rule |-> 1] ELSE Idle
  <1>1. at.at = "save" /\ Goto(c, next) /\ UNCHANGED <<clock, sanction>>
    BY DEF SaveRow
  <1>2. SaveHolds(at)
    BY <1>1 DEF DisciplineInv, CallHolds
  <1>3. call[c] # Idle /\ next \in {Idle, [at |-> "count", rule |-> 1]}
    BY <1>1 DEF Idle
  <1>4. OneCall' /\ \A d \in Clients: CallHolds(call[d])'
    BY <1>1, <1>3, CallIsDone DEF DisciplineInv
  <1>5. at.new \in AttendanceRow /\ attendance \in Seq(AttendanceRow)
    BY <1>2 DEF SaveHolds, DisciplineInv, RowsOK
  <1>6. CASE at.k = 0
    <2>1. attendance' = Append(attendance, at.new)
      BY <1>6 DEF SaveRow
    <2> HIDE DEF at
    <2>2. /\ attendance' \in Seq(AttendanceRow)
          /\ \A k \in DOMAIN attendance: attendance'[k] = attendance[k]
      BY <1>5, <2>1
    <2> QED
      BY <1>1, <1>4, <2>2, AttendanceWritten
  <1>7. CASE at.k # 0
    <2>1. /\ at.k \in DOMAIN attendance /\ attendance[at.k] = at.read
          /\ at.read \in AttendanceRow
      BY <1>2, <1>7 DEF SaveHolds
    <2>2. PICK row \in Saved(attendance[at.k], at.read, at.new):
            attendance' = [attendance EXCEPT ![at.k] = row]
      BY <1>7 DEF SaveRow
    <2>3. row = at.new
      BY <1>5, <2>1, SavedIsNew
    <2> HIDE DEF at
    <2>4. /\ attendance' \in Seq(AttendanceRow)
          /\ \A k \in DOMAIN attendance: attendance'[k] = attendance[k]
                                         \/ (attendance'[k] = at.new /\ at.k = k)
      BY <1>5, <2>1, <2>2, <2>3
    <2> QED
      BY <1>1, <1>4, <2>4, AttendanceWritten DEF at
  <1> QED
    BY <1>6, <1>7

\* markAsAbsent adds a row and waits for nothing.
LEMMA AbsenceMarked ==
  ASSUME "discipline" \notin Overlapping, DisciplineInv, UNCHANGED focus,
         NEW on \in EntryDays, MarkAbsent(on)
  PROVE  DisciplineInv' /\ \A k \in DOMAIN attendance: attendance'[k] = attendance[k]
  <1>1. /\ focus = "discipline" /\ Quiet /\ UNCHANGED <<clock, sanction, call>>
        /\ attendance' = Append(attendance, NewRow(on, "absent"))
    BY DEF MarkAbsent, MayRun
  <1>2. NewRow(on, "absent") \in AttendanceRow
    <2>1. on \in 1..Days
      BY ONLY DisciplineAssumption, on \in EntryDays
    <2>2. 0 \in 0..Hours
      BY DisciplineAssumption
    <2> QED
      BY ONLY <2>1, <2>2 DEF NewRow, AttendanceRow, Unset
  <1>3. attendance \in Seq(AttendanceRow) /\ OneCall
    BY <1>1 DEF DisciplineInv, RowsOK
  <1>4. /\ attendance' \in Seq(AttendanceRow)
        /\ \A k \in DOMAIN attendance: attendance'[k] = attendance[k]
    BY <1>1, <1>2, <1>3
  <1>5. OneCall' /\ \A c \in Clients: CallHolds(call[c])'
    BY <1>1, <1>3 DEF OneCall, Quiet, CallHolds, Idle
  <1> QED
    BY <1>1, <1>4, <1>5, AttendanceWritten

\* A new hour changes nothing; on a new day every fault is one of an earlier day.
LEMMA HourPasses ==
  ASSUME DisciplineInv, UNCHANGED focus, Tick
  PROVE  DisciplineInv'
  <1>1. focus = "discipline" /\ UNCHANGED <<attendance, sanction, call>>
    BY DEF Tick
  <1>2. /\ clock' \in [day: 1..Days, hour: 1..Hours]
        /\ clock'.day = clock.day \/ clock'.day = clock.day + 1
    <2>1. clock \in [day: 1..Days, hour: 1..Hours] /\ Days \in Nat /\ Hours \in Nat
      BY DisciplineAssumption DEF DisciplineInv, RowsOK
    <2>2. CASE clock.hour < Hours
      BY <2>1, <2>2 DEF Tick
    <2>3. CASE ~(clock.hour < Hours)
      <3>1. clock.hour = Hours /\ clock.day # Days
        BY <2>1, <2>3 DEF Tick
      <3>2. clock' = [day |-> clock.day + 1, hour |-> 1]
        BY <2>3 DEF Tick
      <3> QED
        BY <2>1, <3>1, <3>2
    <2> QED
      BY <2>2, <2>3
  <1>3. \A k \in DOMAIN sanction: /\ sanction[k] \in Sanction
                                  /\ sanction[k].faultDay <= sanction[k].date
                                  /\ sanction[k].date <= clock.day
    BY DEF DisciplineInv, RowsOK, Today
  <1>4. clock.day \in Nat /\ clock'.day \in Nat /\ clock.day <= clock'.day
    BY <1>2 DEF DisciplineInv, RowsOK
  <1>5. \A k \in DOMAIN sanction: sanction[k].faultDay \in Nat /\ sanction[k].date \in Nat
    BY <1>3 DEF Sanction
  <1>6. RowsOK'
    BY <1>1, <1>2, <1>3, <1>4, <1>5 DEF DisciplineInv, RowsOK, Today
  <1>7. ASSUME NEW c \in Clients
        PROVE  CallHolds(call[c])'
    <2>0. CallHolds(call[c])
      BY <1>1 DEF DisciplineInv
    <2>1. call[c].at = "save" => SaveHolds(call[c])'
      BY <1>1, <2>0 DEF CallHolds, SaveHolds
    <2>2. call[c].at = "decide" => DecisionHolds(call[c])'
      <3> SUFFICES ASSUME call[c].at = "decide"
                   PROVE  DecisionHolds(call[c])'
        OBVIOUS
      <3>1. DecisionHolds(call[c])
        BY <2>0 DEF CallHolds
      <3>2. call[c].new.date \in Nat
        BY <3>1 DEF DecisionHolds, Sanction
      <3> QED
        BY <1>1, <1>4, <3>1, <3>2 DEF DecisionHolds, Today
    <2>3. call[c].at \in {"count", "exists", "apply"} => RuleHolds(call[c])'
      <3> SUFFICES ASSUME call[c].at \in {"count", "exists", "apply"}
                   PROVE  RuleHolds(call[c])'
        OBVIOUS
      <3>1. RuleHolds(call[c])
        BY <2>0 DEF CallHolds
      <3>2. RestsOnEnough(call[c].rule) => RestsOnEnough(call[c].rule)'
        BY <1>1 DEF RestsOnEnough, FaultDays
      <3>3. (\A k \in DOMAIN sanction: sanction[k].type = SanctionRules[call[c].rule]
                                       => sanction[k].faultDay # clock.day)
              => (\A k \in DOMAIN sanction: sanction[k].type = SanctionRules[call[c].rule]
                                            => sanction[k].faultDay # clock'.day)
        BY <1>2, <1>3, <1>4, <1>5
      <3> QED
        BY <1>1, <3>1, <3>2, <3>3 DEF RuleHolds, Today
    <2> QED
      BY <1>1, <2>1, <2>2, <2>3 DEF CallHolds
  <1> QED
    BY <1>1, <1>6, <1>7 DEF DisciplineInv, OneSanctionPerDay, OneCall
-----------------------------------------------------------------------------
(* What a rule counts *)

\* Sanctions of one type that stand are for as many days: the counted ones are no more than
\* their fault days.
LEMMA CountedDays ==
  ASSUME RowsOK, OneSanctionPerDay, NEW type, NEW days
  PROVE  /\ Cardinality(FaultDays(type)) \in Nat /\ SanctionsIn(type, days) \in Nat
         /\ SanctionsIn(type, days) <= Cardinality(FaultDays(type))
  <1> DEFINE Standing == {i \in DOMAIN sanction: sanction[i].type = type
                                                 /\ sanction[i].status # "cancelled"}
             Standers == {k \in DOMAIN sanction: /\ sanction[k].type = type
                                                /\ sanction[k].status # "cancelled"
                                                /\ sanction[k].date \in days}
             DayOf == [k \in Standers |-> sanction[k].faultDay]
  <1>1. sanction \in Seq(Sanction) /\ DOMAIN sanction = 1..Len(sanction) /\ Len(sanction) \in Nat
    BY DEF RowsOK
  <1>2. IsFiniteSet(1..Days)
    BY DisciplineAssumption, FS_Interval
  <1>3. FaultDays(type) \subseteq 1..Days
    <2>1. \A k \in DOMAIN sanction: sanction[k] \in Sanction
      BY <1>1
    <2>2. \A k \in DOMAIN sanction: sanction[k].faultDay \in 1..Days
      BY <2>1 DEF Sanction
    <2> QED
      BY <2>2 DEF FaultDays
  <1>4. IsFiniteSet(FaultDays(type)) /\ Cardinality(FaultDays(type)) \in Nat
    BY <1>2, <1>3, FS_Subset, FS_CardinalityType
  <1>5. IsFiniteSet(1..Len(sanction))
    BY <1>1, FS_Interval
  <1>6. IsFiniteSet(Standers) /\ Cardinality(Standers) \in Nat
    BY <1>1, <1>5, FS_Subset, FS_CardinalityType
  <1>7. /\ DayOf \in [Standers -> FaultDays(type)]
        /\ \A k, l \in Standers: DayOf[k] = DayOf[l] => k = l
    <2>1. DayOf \in [Standers -> FaultDays(type)]
      BY DEF FaultDays
    <2>2. \A k, l \in Standers: DayOf[k] = DayOf[l] => k = l
      BY DEF OneSanctionPerDay
    <2> QED
      BY <2>1, <2>2
  <1>8. Cardinality(Standers) <= Cardinality(FaultDays(type))
    <2> HIDE DEF DayOf, Standers
    <2> QED
      BY <1>4, <1>7, OneToOne
  <1> QED
    BY <1>4, <1>6, <1>8 DEF SanctionsIn

LEMMA RuleRests ==
  ASSUME RowsOK, OneSanctionPerDay, NEW n \in 1..4, ShouldApply(n)
  PROVE  RestsOnEnough(n)
  <1>1. ASSUME n = 3
        PROVE  Cardinality(FaultDays("formal_warning")) >= WarningsPerYear
    <2>1. SanctionsIn("formal_warning", Period(3)) >= WarningsPerYear
      BY <1>1, RulesAre DEF ShouldApply
    <2> QED
      BY <2>1, CountedDays, DisciplineAssumption
  <1>2. ASSUME n = 4
        PROVE  Cardinality(FaultDays("suspension")) >= SuspensionsPerYear
    <2>1. SanctionsIn("suspension", Period(4)) >= SuspensionsPerYear
      BY <1>2, RulesAre DEF ShouldApply
    <2> QED
      BY <2>1, CountedDays, DisciplineAssumption
  <1> QED
    BY <1>1, <1>2 DEF RestsOnEnough

\* A sanction for a fault of today is dated today, so the search for one by its date finds it.
LEMMA NotIssued ==
  ASSUME RowsOK, NEW n \in 1..4, ~Issued(n)
  PROVE  \A k \in DOMAIN sanction: sanction[k].type = SanctionRules[n] => sanction[k].faultDay # Today
  <1> SUFFICES ASSUME NEW k \in DOMAIN sanction, sanction[k].type = SanctionRules[n],
                      sanction[k].faultDay = Today
               PROVE  FALSE
    OBVIOUS
  <1>1. /\ sanction[k].faultDay <= sanction[k].date /\ sanction[k].date <= Today
        /\ sanction[k].date \in Nat /\ Today \in Nat
    <2>1. sanction[k] \in Sanction /\ clock \in [day: 1..Days, hour: 1..Hours]
      BY DEF RowsOK
    <2>2. sanction[k].date \in Nat /\ Today \in Nat
      BY <2>1 DEF Sanction, Today
    <2> QED
      BY <2>2 DEF RowsOK
  <1>2. sanction[k].date = Today
    BY <1>1
  <1> QED
    BY <1>2 DEF Issued

-----------------------------------------------------------------------------
(* The steps of a check and of a decision *)

LEMMA NextRuleHolds ==
  ASSUME NEW n \in 1..4
  PROVE  CallHolds(NextRule(n))
  <1>1. CASE n = 4
    BY <1>1, RulesAre, IdleHolds DEF NextRule
  <1>2. CASE n # 4
    <2>1. NextRule(n) = [at |-> "count", rule |-> n + 1] /\ n + 1 \in 1..4
      BY <1>2, RulesAre DEF NextRule
    <2> QED
      BY <2>1 DEF CallHolds, RuleHolds
  <1> QED
    BY <1>1, <1>2

LEMMA RuleCounted ==
  ASSUME DisciplineInv, focus = "discipline", UNCHANGED focus, NEW c \in Clients, CountForRule(c)
  PROVE  DisciplineInv'
  <1>1. call[c].at = "count" /\ RuleHolds(call[c]) /\ call[c] # Idle
    BY DEF CountForRule, DisciplineInv, CallHolds, Idle
  <1>2. call[c].rule \in 1..4
    BY <1>1 DEF RuleHolds
  <1>3. CASE ShouldApply(call[c].rule)
    <2>1. Continue(c, [call[c] EXCEPT !.at = "exists"])
      BY <1>3 DEF CountForRule
    <2>2. RestsOnEnough(call[c].rule)
      BY <1>2, <1>3, RuleRests DEF DisciplineInv
    <2>3. /\ [call[c] EXCEPT !.at = "exists"].at = "exists"
          /\ [call[c] EXCEPT !.at = "exists"].rule = call[c].rule
      OBVIOUS
    <2>4. CallHolds([call[c] EXCEPT !.at = "exists"])
      BY <1>2, <2>2, <2>3 DEF CallHolds, RuleHolds
    <2> QED
      BY <1>1, <2>1, <2>4, CallContinues
  <1>4. CASE ~ShouldApply(call[c].rule)
    <2>1. Continue(c, NextRule(call[c].rule))
      BY <1>4 DEF CountForRule
    <2> QED
      BY <1>1, <1>2, <2>1, NextRuleHolds, CallContinues
  <1> QED
    BY <1>3, <1>4

LEMMA IssuedLookedFor ==
  ASSUME DisciplineInv, focus = "discipline", UNCHANGED focus, NEW c \in Clients, LookForIssued(c)
  PROVE  DisciplineInv'
  <1>1. call[c].at = "exists" /\ RuleHolds(call[c]) /\ call[c] # Idle
    BY DEF LookForIssued, DisciplineInv, CallHolds, Idle
  <1>2. call[c].rule \in 1..4 /\ RestsOnEnough(call[c].rule)
    BY <1>1 DEF RuleHolds
  <1> DEFINE next == [call[c] EXCEPT !.at = "apply"]
  <1>3. CASE Continue(c, NextRule(call[c].rule)) \/ Continue(c, Idle)
    BY <1>1, <1>2, <1>3, IdleHolds, NextRuleHolds, CallContinues
  <1>4. CASE ~Issued(call[c].rule) /\ Continue(c, next)
    <2>1. next.at = "apply" /\ next.rule = call[c].rule
      OBVIOUS
    <2>2. \A k \in DOMAIN sanction: sanction[k].type = SanctionRules[call[c].rule]
                                    => sanction[k].faultDay # Today
      BY <1>2, <1>4, NotIssued DEF DisciplineInv
    <2> HIDE DEF next
    <2>3. CallHolds(next)
      BY <1>2, <2>1, <2>2 DEF CallHolds, RuleHolds
    <2> QED
      BY <1>1, <1>4, <2>3, CallContinues
  <1> QED
    BY <1>3, <1>4 DEF LookForIssued
\* One more sanction, or one written over by a decision: its fault day and type are fresh, or
\* those it had.
LEMMA SanctionApplied ==
  ASSUME DisciplineInv, focus = "discipline", UNCHANGED focus, NEW c \in Clients, ApplySanction(c)
  PROVE  /\ DisciplineInv'
         /\ RestsOnEnough(call[c].rule) /\ call[c].rule \in 1..4
         /\ Len(sanction') = Len(sanction) + 1
         /\ sanction'[Len(sanction')].type = SanctionRules[call[c].rule]
  <1> DEFINE n == call[c].rule
             issued == [type |-> SanctionRules[n], faultDay |-> Today,
                        date |-> Today, status |-> "active", approved |-> FALSE]
  <1>1. call[c].at = "apply" /\ RuleHolds(call[c]) /\ call[c] # Idle
    BY DEF ApplySanction, DisciplineInv, CallHolds, Idle
  <1>2. /\ n \in 1..4 /\ RestsOnEnough(n)
        /\ \A k \in DOMAIN sanction: sanction[k].type = SanctionRules[n]
                                     => sanction[k].faultDay # Today
    BY <1>1 DEF RuleHolds
  <1>3. sanction' = Append(sanction, issued) /\ Goto(c, Idle) /\ UNCHANGED <<clock, attendance>>
    BY DEF ApplySanction, Return
  <1> HIDE DEF n
  <1>4. /\ sanction \in Seq(Sanction) /\ attendance \in Seq(AttendanceRow)
        /\ clock \in [day: 1..Days, hour: 1..Hours]
        /\ \A k \in DOMAIN sanction: /\ sanction[k].faultDay <= sanction[k].date
                                     /\ sanction[k].date <= Today
    BY DEF DisciplineInv, RowsOK
  <1>5. SanctionRules[n] \in SanctionTypes
    BY <1>2, RulesAre DEF SanctionTypes
  <1>6. Today \in 1..Days /\ Today' = Today
    BY <1>3, <1>4 DEF Today
  <1>7. issued \in Sanction
    BY ONLY <1>5, <1>6 DEF Sanction
  <1>8. /\ issued.type = SanctionRules[n] /\ issued.faultDay = Today /\ issued.date = Today
    OBVIOUS
  <1> HIDE DEF issued
  <1>9. /\ sanction' \in Seq(Sanction) /\ Len(sanction') = Len(sanction) + 1
        /\ Len(sanction) \in Nat
        /\ DOMAIN sanction = 1..Len(sanction) /\ DOMAIN sanction' = 1..(Len(sanction) + 1)
        /\ \A k \in DOMAIN sanction: sanction'[k] = sanction[k]
        /\ sanction'[Len(sanction) + 1] = issued
    BY <1>3, <1>4, <1>7
  <1>10. \A k \in DOMAIN sanction': k \in DOMAIN sanction \/ k = Len(sanction) + 1
    BY <1>9
  <1>11. RowsOK'
    <2>1. ASSUME NEW k \in DOMAIN sanction'
          PROVE  sanction'[k].faultDay <= sanction'[k].date /\ sanction'[k].date <= Today'
      BY <1>4, <1>6, <1>8, <1>9, <1>10
    <2> QED
      BY <1>3, <1>4, <1>9, <2>1 DEF RowsOK
  <1>12. OneSanctionPerDay'
    <2>1. ASSUME NEW i \in DOMAIN sanction', NEW j \in DOMAIN sanction', i # j,
                 sanction'[i].type = sanction'[j].type
          PROVE  sanction'[i].faultDay # sanction'[j].faultDay
      <3>1. CASE i \in DOMAIN sanction /\ j \in DOMAIN sanction
        BY <1>9, <2>1, <3>1 DEF DisciplineInv, OneSanctionPerDay
      <3>2. CASE i = Len(sanction) + 1 /\ j \in DOMAIN sanction
        BY <1>2, <1>8, <1>9, <2>1, <3>2
      <3>3. CASE j = Len(sanction) + 1 /\ i \in DOMAIN sanction
        BY <1>2, <1>8, <1>9, <2>1, <3>3
      <3> QED
        BY <1>10, <2>1, <3>1, <3>2, <3>3
    <2> QED
      BY <2>1 DEF OneSanctionPerDay
  <1>13. OneCall' /\ \A d \in Clients: CallHolds(call[d])'
    BY <1>1, <1>3, CallIsDone DEF DisciplineInv
  <1>14. DisciplineInv'
    BY <1>11, <1>12, <1>13 DEF DisciplineInv
  <1> QED
    BY <1>2, <1>8, <1>9, <1>14 DEF n

LEMMA DecisionBegins ==
  ASSUME "discipline" \notin Overlapping, DisciplineInv, focus = "discipline", UNCHANGED focus,
         NEW c \in Clients, NEW k \in DOMAIN sanction,
         BeginApprove(c, k) \/ BeginCancelSanction(c, k)
  PROVE  DisciplineInv'
  <1>1. /\ sanction[k] \in Sanction /\ Today \in 1..Days
        /\ sanction[k].date <= Today /\ sanction[k].date \in 1..Days
    <2>1. sanction[k] \in Sanction /\ clock \in [day: 1..Days, hour: 1..Hours]
      BY DEF DisciplineInv, RowsOK
    <2>2. sanction[k].date \in 1..Days /\ Today \in 1..Days
      BY <2>1 DEF Sanction, Today
    <2> QED
      BY <2>1, <2>2 DEF DisciplineInv, RowsOK
  <1>2. Quiet /\ call[c] = Idle
    BY DEF BeginApprove, BeginCancelSanction, MayCall, MayStart, MayRun
  <1>3. PICK endpoint, new:
          /\ Continue(c, [at |-> "decide", endpoint |-> endpoint, k |-> k,
                          read |-> sanction[k], new |-> new])
          /\ \/ new = [sanction[k] EXCEPT !.approved = TRUE, !.date = Today, !.status = "served"]
             \/ new = [sanction[k] EXCEPT !.status = "cancelled"]
    BY DEF BeginApprove, BeginCancelSanction
  <1>4. /\ new \in Sanction /\ new.type = sanction[k].type /\ new.faultDay = sanction[k].faultDay
        /\ sanction[k].date <= new.date /\ new.date <= Today
    <2>1. CASE new = [sanction[k] EXCEPT !.approved = TRUE, !.date = Today, !.status = "served"]
      <3>1. /\ new.type = sanction[k].type /\ new.faultDay = sanction[k].faultDay
            /\ new.date = Today /\ new \in Sanction
        BY ONLY <1>1, <2>1 DEF Sanction
      <3> QED
        BY ONLY <1>1, <3>1, DisciplineAssumption
    <2>2. CASE new = [sanction[k] EXCEPT !.status = "cancelled"]
      <3>1. /\ new.type = sanction[k].type /\ new.faultDay = sanction[k].faultDay
            /\ new.date = sanction[k].date /\ new \in Sanction
        BY ONLY <1>1, <2>2 DEF Sanction
      <3> QED
        BY ONLY <1>1, <3>1, DisciplineAssumption
    <2> QED
      BY <1>3, <2>1, <2>2
  <1> DEFINE next == [at |-> "decide", endpoint |-> endpoint, k |-> k, read |-> sanction[k],
                      new |-> new]
  <1>5. next.at = "decide" /\ next.k = k /\ next.read = sanction[k] /\ next.new = new
    OBVIOUS
  <1>6. Continue(c, next)
    BY <1>3
  <1> HIDE DEF next
  <1>7. CallHolds(next)
    BY <1>4, <1>5 DEF CallHolds, DecisionHolds
  <1> QED
    BY <1>2, <1>6, <1>7, CallContinues

LEMMA DecisionSaved ==
  ASSUME DisciplineInv, focus = "discipline", UNCHANGED focus, NEW c \in Clients, SaveSanction(c)
  PROVE  DisciplineInv' /\ Len(sanction') = Len(sanction)
  <1> DEFINE at == call[c]
  <1>1. at.at = "decide" /\ Goto(c, Idle) /\ UNCHANGED <<clock, attendance>> /\ call[c] # Idle
    BY DEF SaveSanction, Return, Idle
  <1>2. /\ at.k \in DOMAIN sanction /\ sanction[at.k] = at.read /\ at.new \in Sanction
        /\ at.new.type = at.read.type /\ at.new.faultDay = at.read.faultDay
        /\ at.read.date <= at.new.date /\ at.new.date <= Today
    BY <1>1 DEF DisciplineInv, CallHolds, DecisionHolds
  <1>3. OneCall' /\ \A d \in Clients: CallHolds(call[d])'
    BY <1>1, CallIsDone DEF DisciplineInv
  <1>4. PICK row \in Saved(sanction[at.k], at.read, at.new): sanction' = [sanction EXCEPT ![at.k] = row]
    BY DEF SaveSanction
  <1> HIDE DEF at
  <1>5. /\ sanction \in Seq(Sanction) /\ attendance \in Seq(AttendanceRow)
        /\ clock \in [day: 1..Days, hour: 1..Hours]
        /\ \A k \in DOMAIN sanction: /\ sanction[k].faultDay <= sanction[k].date
                                     /\ sanction[k].date <= Today
    BY DEF DisciplineInv, RowsOK
  <1>6. at.read \in Sanction
    BY <1>2, <1>5
  <1>7. row = at.new
    BY <1>2, <1>4, <1>6, SavedIsNew
  <1>8. /\ sanction' \in Seq(Sanction) /\ DOMAIN sanction' = DOMAIN sanction
        /\ Len(sanction') = Len(sanction)
        /\ \A k \in DOMAIN sanction \ {at.k}: sanction'[k] = sanction[k]
        /\ sanction'[at.k] = at.new
    BY <1>2, <1>4, <1>5, <1>7
  <1>9. \A k \in DOMAIN sanction: /\ sanction'[k].type = sanction[k].type
                                  /\ sanction'[k].faultDay = sanction[k].faultDay
    BY <1>2, <1>8
  <1>10. /\ at.read.faultDay \in Nat /\ at.read.date \in Nat /\ at.new.date \in Nat
         /\ at.read.faultDay <= at.read.date
    BY <1>2, <1>5, <1>6 DEF Sanction
  <1>11. RowsOK'
    <2>1. ASSUME NEW k \in DOMAIN sanction
          PROVE  sanction'[k].faultDay <= sanction'[k].date /\ sanction'[k].date <= Today
      <3>1. CASE k = at.k
        <4>1. clock.day \in Nat
          BY <1>5
        <4> QED
          BY ONLY <1>2, <1>8, <1>10, <3>1, <4>1 DEF Today
      <3>2. CASE k # at.k
        BY <1>5, <1>8, <3>2
      <3> QED
        BY <3>1, <3>2
    <2>2. Today' = Today
      BY <1>1 DEF Today
    <2> QED
      BY <1>1, <1>5, <1>8, <2>1, <2>2 DEF RowsOK
  <1>12. OneSanctionPerDay'
    BY <1>8, <1>9 DEF DisciplineInv, OneSanctionPerDay
  <1> QED
    BY <1>3, <1>8, <1>11, <1>12 DEF DisciplineInv
-----------------------------------------------------------------------------
(* Every step *)

\* What no sanction is issued by, and no attendance written by.
LEMMA BeginsUnchanged ==
  ASSUME NEW c \in Clients
  PROVE  /\ AttendanceStep(c) /\ ~SaveRow(c) => UNCHANGED disciplineVars
         /\ SanctionStep(c) => UNCHANGED attendance
         /\ SanctionStep(c) /\ ~ApplySanction(c) /\ ~SaveSanction(c) => UNCHANGED disciplineVars
  <1>1. AttendanceStep(c) /\ ~SaveRow(c) => UNCHANGED disciplineVars
    <2>1. ASSUME NEW k, BeginCheckIn(c, k)
          PROVE  UNCHANGED disciplineVars
      BY <2>1 DEF BeginCheckIn, WillSave, Continue
    <2>2. ASSUME NEW k, BeginCheckOut(c, k)
          PROVE  UNCHANGED disciplineVars
      BY <2>2 DEF BeginCheckOut, WillSave, Continue
    <2>3. ASSUME NEW k, NEW hour, BeginCompleteCheckout(c, k, hour)
          PROVE  UNCHANGED disciplineVars
      BY <2>3 DEF BeginCompleteCheckout, WillSave, Continue
    <2>4. ASSUME NEW k, BeginJustify(c, k)
          PROVE  UNCHANGED disciplineVars
      BY <2>4 DEF BeginJustify, WillSave, Continue
    <2>5. ASSUME NEW k, NEW on, NEW arrival, NEW departure, BeginManualEntry(c, k, on, arrival, departure)
          PROVE  UNCHANGED disciplineVars
      BY <2>5 DEF BeginManualEntry, WillSave, Continue
    <2> QED
      BY <2>1, <2>2, <2>3, <2>4, <2>5 DEF AttendanceStep
  <1>2. SanctionStep(c) => UNCHANGED disciplineVars \/ ApplySanction(c) \/ SaveSanction(c)
    <2>1. ASSUME BeginCheck(c)
          PROVE  UNCHANGED disciplineVars
      BY <2>1 DEF BeginCheck, Continue
    <2>2. ASSUME CountForRule(c)
          PROVE  UNCHANGED disciplineVars
      BY <2>2 DEF CountForRule, Continue
    <2>3. ASSUME LookForIssued(c)
          PROVE  UNCHANGED disciplineVars
      BY <2>3 DEF LookForIssued, Continue
    <2>4. ASSUME NEW k, BeginApprove(c, k)
          PROVE  UNCHANGED disciplineVars
      BY <2>4 DEF BeginApprove, Continue
    <2>5. ASSUME NEW k, BeginCancelSanction(c, k)
          PROVE  UNCHANGED disciplineVars
      BY <2>5 DEF BeginCancelSanction, Continue
    <2> QED
      BY <2>1, <2>2, <2>3, <2>4, <2>5 DEF SanctionStep
  <1>3. ApplySanction(c) \/ SaveSanction(c) => UNCHANGED attendance
    BY DEF ApplySanction, SaveSanction
  <1>4. UNCHANGED disciplineVars => UNCHANGED attendance
    BY DEF disciplineVars
  <1> QED
    BY <1>1, <1>2, <1>3, <1>4

LEMMA SanctionStepKeeps ==
  ASSUME "discipline" \notin Overlapping, DisciplineInv, focus = "discipline", UNCHANGED focus,
         NEW c \in Clients, SanctionStep(c)
  PROVE  DisciplineInv'
  <1>1. CASE BeginCheck(c)
    <2>1. Quiet /\ Continue(c, [at |-> "count", rule |-> 1])
      BY <1>1 DEF BeginCheck, MayCall, MayStart, MayRun
    <2> QED
      BY <2>1, IdleHolds, CallContinues
  <1>2. CASE \E k \in DOMAIN sanction: BeginApprove(c, k) \/ BeginCancelSanction(c, k)
    BY <1>2, DecisionBegins
  <1> QED
    BY <1>1, <1>2, RuleCounted, IssuedLookedFor, SanctionApplied, DecisionSaved DEF SanctionStep

LEMMA DisciplineStepKeeps ==
  ASSUME "discipline" \notin Overlapping, DisciplineInv, focus = "discipline", UNCHANGED focus,
         DisciplineNext
  PROVE  DisciplineInv'
  <1>1. ASSUME NEW c \in Clients, AttendanceStep(c)
        PROVE  DisciplineInv'
    BY <1>1, AttendanceReads, RowSaved
  <1> QED
    BY <1>1, SanctionStepKeeps, HourPasses, AbsenceMarked DEF DisciplineNext

LEMMA OtherStepKeeps ==
  ASSUME DisciplineInv, UNCHANGED disciplineVars, UNCHANGED focus,
         focus # "discipline" \/ UNCHANGED call
  PROVE  DisciplineInv'
  <1>1. UNCHANGED <<clock, attendance, sanction>>
    BY DEF disciplineVars
  <1>2. RowsOK' /\ OneSanctionPerDay'
    BY <1>1 DEF DisciplineInv, RowsOK, OneSanctionPerDay, Today
  <1>3. CASE focus # "discipline"
    BY <1>2, <1>3 DEF DisciplineInv
  <1>4. CASE focus = "discipline" /\ UNCHANGED call
    <2>1. ASSUME NEW c \in Clients
          PROVE  CallHolds(call[c])'
      <3>1. CallHolds(call[c])
        BY <1>4 DEF DisciplineInv
      <3>2. SaveHolds(call[c])' = SaveHolds(call[c])
        BY <1>1, <1>4 DEF SaveHolds
      <3>3. DecisionHolds(call[c])' = DecisionHolds(call[c])
        BY <1>1, <1>4 DEF DecisionHolds, Today
      <3>4. RuleHolds(call[c])' = RuleHolds(call[c])
        BY <1>1, <1>4 DEF RuleHolds, RestsOnEnough, FaultDays, Today
      <3> QED
        BY <1>4, <3>1, <3>2, <3>3, <3>4 DEF CallHolds
    <2>2. OneCall'
      BY <1>4 DEF DisciplineInv, OneCall
    <2> QED
      BY <1>2, <1>4, <2>1, <2>2 DEF DisciplineInv
  <1> QED
    BY <1>3, <1>4

LEMMA DisciplineInvariant ==
  ASSUME "discipline" \notin Overlapping
  PROVE  StaffSpec => []DisciplineInv
  <1>1. StaffInit => DisciplineInv
    BY DisciplineInitially DEF StaffInit
  <1>2. DisciplineInv /\ [StaffNext]_<<staffVars, call, focus>> => DisciplineInv'
    <2> SUFFICES ASSUME DisciplineInv, [StaffNext]_<<staffVars, call, focus>>
                 PROVE  DisciplineInv'
      OBVIOUS
    <2>1. CASE focus = "discipline" /\ DisciplineNext /\ UNCHANGED focus
      BY <2>1, DisciplineStepKeeps
    <2>2. CASE UNCHANGED disciplineVars /\ UNCHANGED focus
               /\ (focus # "discipline" \/ UNCHANGED call)
      BY <2>2, OtherStepKeeps
    <2> QED
      BY <2>1, <2>2 DEF StaffNext, staffVars
  <1> QED
    BY <1>1, <1>2, PTL DEF StaffSpec

\* No employee is punished twice for one day: with calls made one after the other a type of
\* sanction is issued at most once for a fault day, whatever HR approves or cancels in the
\* meantime (automatic-sanction.service.ts looks for one by its date, which an approval moves).
THEOREM PunishedOnce ==
  ASSUME "discipline" \notin Overlapping
  PROVE  StaffSpec => []OneSanctionPerDay
  <1>1. DisciplineInv => OneSanctionPerDay
    BY DEF DisciplineInv
  <1> QED
    BY <1>1, DisciplineInvariant, PTL
\* Sanctions grow by degrees: a suspension is issued on enough formal warnings, a termination
\* on enough suspensions, that stand and are for faults of as many different days, although
\* they were counted some awaits, and maybe some days, before.
THEOREM PunishedByDegrees ==
  ASSUME "discipline" \notin Overlapping
  PROVE  StaffSpec => EscalationIsGradual
  <1> DEFINE Escalates ==
        Len(sanction') > Len(sanction) =>
          LET issued == sanction'[Len(sanction')].type
          IN  /\ issued = "suspension" =>
                   Cardinality(FaultDays("formal_warning")) >= WarningsPerYear
              /\ issued = "termination" =>
                   Cardinality(FaultDays("suspension")) >= SuspensionsPerYear
  <1>1. ASSUME DisciplineInv, [StaffNext]_<<staffVars, call, focus>>
        PROVE  [Escalates]_<<disciplineVars, call>>
    <2>1. ASSUME NEW c \in Clients, focus = "discipline", UNCHANGED focus, ApplySanction(c)
          PROVE  Escalates
      <3>1. /\ RestsOnEnough(call[c].rule) /\ call[c].rule \in 1..4
            /\ sanction'[Len(sanction')].type = SanctionRules[call[c].rule]
        BY <1>1, <2>1, SanctionApplied
      <3>2. /\ SanctionRules[call[c].rule] = "suspension" => call[c].rule = 3
            /\ SanctionRules[call[c].rule] = "termination" => call[c].rule = 4
        <4>1. call[c].rule = 1 \/ call[c].rule = 2 \/ call[c].rule = 3 \/ call[c].rule = 4
          BY <3>1
        <4> QED
          BY <4>1, RulesAre
      <3> QED
        BY <3>1, <3>2 DEF RestsOnEnough
    <2>2. ASSUME Len(sanction') = Len(sanction)
          PROVE  Escalates
      <3>1. Len(sanction) \in Nat
        BY <1>1 DEF DisciplineInv, RowsOK
      <3>2. ~(Len(sanction') > Len(sanction))
        BY <2>2, <3>1
      <3> QED
        BY <3>2
    <2>3. UNCHANGED disciplineVars => Len(sanction') = Len(sanction)
      BY DEF disciplineVars
    <2>4. ASSUME focus = "discipline", UNCHANGED focus, DisciplineNext
          PROVE  Escalates
      <3>1. Tick \/ (\E on \in EntryDays: MarkAbsent(on)) => Len(sanction') = Len(sanction)
        BY DEF Tick, MarkAbsent
      <3>2. ASSUME NEW c \in Clients, AttendanceStep(c)
            PROVE  Len(sanction') = Len(sanction)
        <4>1. SaveRow(c) => UNCHANGED sanction
          BY DEF SaveRow
        <4> QED
          BY <2>3, <3>2, <4>1, BeginsUnchanged
      <3>3. ASSUME NEW c \in Clients, SanctionStep(c)
            PROVE  Escalates
        BY <1>1, <2>1, <2>2, <2>3, <2>4, <3>3, BeginsUnchanged, DecisionSaved
      <3> HIDE DEF Escalates
      <3> QED
        BY <2>2, <2>4, <3>1, <3>2, <3>3 DEF DisciplineNext
    <2>5. UNCHANGED disciplineVars \/ (focus = "discipline" /\ UNCHANGED focus /\ DisciplineNext)
      BY <1>1 DEF StaffNext, staffVars
    <2> HIDE DEF Escalates
    <2> QED
      BY <2>2, <2>3, <2>4, <2>5
  <1>2. StaffSpec => []DisciplineInv
    BY DisciplineInvariant
  <1>3. DisciplineInv /\ [StaffNext]_<<staffVars, call, focus>> => [Escalates]_<<disciplineVars, call>>
    BY <1>1
  <1> QED
    BY <1>2, <1>3, PTL DEF StaffSpec, EscalationIsGradual

\* A departure is not written over: with calls made one after the other, once a row has one
\* only a manual entry changes it, whatever rows the search by employee and day finds.
THEOREM DeparturesStay ==
  ASSUME "discipline" \notin Overlapping
  PROVE  StaffSpec => DepartureKept
  <1> DEFINE Kept ==
        \A k \in DOMAIN attendance:
          (attendance[k].departure # Unset
             /\ attendance'[k].departure # attendance[k].departure)
            => \E c \in Clients: call[c].at = "save" /\ call[c].endpoint = "manualEntry"
                                 /\ call'[c] = Idle
  <1>1. ASSUME DisciplineInv, [StaffNext]_<<staffVars, call, focus>>
        PROVE  [Kept]_<<disciplineVars, call>>
    <2>1. ASSUME NEW c \in Clients, focus = "discipline", UNCHANGED focus, SaveRow(c)
          PROVE  Kept
      <3> SUFFICES ASSUME NEW k \in DOMAIN attendance, attendance[k].departure # Unset,
                          attendance'[k].departure # attendance[k].departure
                   PROVE  call[c].at = "save" /\ call[c].endpoint = "manualEntry"
                          /\ call'[c] = Idle
        OBVIOUS
      <3>1. call[c].at = "save" /\ SaveHolds(call[c])
        BY <1>1, <2>1 DEF SaveRow, DisciplineInv, CallHolds
      <3>2. attendance'[k] = call[c].new /\ call[c].k = k
        BY <1>1, <2>1, RowSaved
      <3>3. k # 0
        BY <1>1, RowsRead DEF DisciplineInv
      <3>4. attendance[k] = call[c].read
        BY <3>1, <3>2, <3>3 DEF SaveHolds
      <3>5. call[c].endpoint = "manualEntry" /\ call[c].check = FALSE
        BY <3>1, <3>2, <3>4 DEF SaveHolds
      <3>6. Goto(c, Idle)
        BY <2>1, <3>5 DEF SaveRow
      <3>7. call'[c] = Idle
        BY <1>1, <2>1, <3>6 DEF Goto, DisciplineInv, OneCall
      <3> QED
        BY <3>1, <3>5, <3>7
    <2>2. ASSUME \A k \in DOMAIN attendance: attendance'[k] = attendance[k]
          PROVE  Kept
      BY <2>2
    <2>3. UNCHANGED attendance => \A k \in DOMAIN attendance: attendance'[k] = attendance[k]
      OBVIOUS
    <2>4. UNCHANGED disciplineVars => UNCHANGED attendance
      BY DEF disciplineVars
    <2> HIDE DEF Kept
    <2>5. ASSUME focus = "discipline", UNCHANGED focus, DisciplineNext
          PROVE  Kept
      <3>1. ASSUME NEW on \in EntryDays, MarkAbsent(on)
            PROVE  Kept
        BY <1>1, <2>2, <2>5, <3>1, AbsenceMarked
      <3>2. Tick => UNCHANGED attendance
        BY DEF Tick
      <3>3. ASSUME NEW c \in Clients, AttendanceStep(c)
            PROVE  Kept
        BY <2>1, <2>2, <2>3, <2>4, <2>5, <3>3, BeginsUnchanged
      <3>4. ASSUME NEW c \in Clients, SanctionStep(c)
            PROVE  UNCHANGED attendance
        BY <3>4, BeginsUnchanged
      <3> QED
        BY <2>2, <2>3, <2>5, <3>1, <3>2, <3>3, <3>4 DEF DisciplineNext
    <2>6. UNCHANGED disciplineVars \/ (focus = "discipline" /\ UNCHANGED focus /\ DisciplineNext)
      BY <1>1 DEF StaffNext, staffVars
    <2> QED
      BY <2>2, <2>3, <2>4, <2>5, <2>6
  <1>2. StaffSpec => []DisciplineInv
    BY DisciplineInvariant
  <1>3. DisciplineInv /\ [StaffNext]_<<staffVars, call, focus>> => [Kept]_<<disciplineVars, call>>
    BY <1>1
  <1> QED
    BY <1>2, <1>3, PTL DEF StaffSpec, DepartureKept
-----------------------------------------------------------------------------
(* Regulations and HR documents *)

RegulationsOK ==
  /\ rule \in [Rules -> {"none", "draft", "active", "archived"}]
  /\ copy \in [Readers -> [Rules -> CopyRow]]
  /\ paper \in [Papers -> PaperRow]
  /\ sheets \in [Readers -> [Papers -> Nat]]

OneActive == \A r, q \in Rules: rule[r] = "active" /\ rule[q] = "active" => r = q

\* the regulation in force is handed to everybody, or about to be
HandedOut ==
  \A r \in Rules: rule[r] = "active" =>
    \/ \A e \in Readers: copy[e][r].status # "none"
    \/ \E c \in Clients: call[c].at = "assign" /\ call[c].rule = r

\* a paper is handed out once, when it leaves its draft for good
SheetsOnce ==
  \A e \in Readers: \A d \in Papers:
    /\ sheets[e][d] <= 1
    /\ paper[d].status \in {"none", "draft"} => sheets[e][d] = 0

\* a regulation is put in force when none is
PublicationHolds(new) ==
  /\ new.at \in {"archive", "activate", "assign"} => new.rule \in Rules
  /\ new.at = "activate" => \A r \in Rules: rule[r] # "active"
  /\ new.at = "sign" => new.reader \in Readers /\ new.rule \in Rules /\ new.viewed \in BOOLEAN

RegulationInv ==
  /\ RegulationsOK
  /\ OneActive
  /\ SheetsOnce
  /\ HandedOut
  /\ focus \in {"regulations", "papers"} => OneCall /\ \A c \in Clients: PublicationHolds(call[c])

LEMMA RegulationInitially ==
  RegulationInit /\ call = [c \in Clients |-> Idle] => RegulationInv
  <1> SUFFICES ASSUME RegulationInit, call = [c \in Clients |-> Idle]
               PROVE  RegulationInv
    OBVIOUS
  <1>1. RegulationsOK
    BY DEF RegulationInit, RegulationsOK, CopyRow, PaperRow
  <1>2. OneActive /\ HandedOut /\ SheetsOnce
    BY DEF RegulationInit, OneActive, HandedOut, SheetsOnce
  <1>3. OneCall /\ \A c \in Clients: PublicationHolds(call[c])
    BY DEF OneCall, PublicationHolds, Idle
  <1> QED
    BY <1>1, <1>2, <1>3 DEF RegulationInv

\* Whoever holds a regulation holds it on: no step takes its copies back.
LEMMA CopiesStay ==
  ASSUME RegulationInv, UNCHANGED focus, UNCHANGED <<rule, paper, sheets, call>>,
         copy' \in [Readers -> [Rules -> CopyRow]],
         \A e \in Readers, r \in Rules: copy[e][r].status # "none" => copy'[e][r].status # "none"
  PROVE  RegulationInv'
  <1>1. \A c \in Clients: PublicationHolds(call[c])' = PublicationHolds(call[c])
    BY DEF PublicationHolds
  <1>2. HandedOut'
    BY DEF RegulationInv, HandedOut
  <1> QED
    BY <1>1, <1>2 DEF RegulationInv, RegulationsOK, OneActive, SheetsOnce, OneCall

LEMMA CopyStepKeeps ==
  ASSUME RegulationInv, UNCHANGED focus, NEW e \in Readers, NEW r \in Rules,
         MarkAsViewed(e, r) \/ RefuseLateSignature(e, r) \/ RefuseRegulation(e, r)
  PROVE  RegulationInv'
  <1>1. UNCHANGED <<rule, paper, sheets, call>>
    BY DEF MarkAsViewed, RefuseLateSignature, RefuseRegulation, keptPapers
  <1>2. /\ copy[e][r] \in CopyRow /\ copy \in [Readers -> [Rules -> CopyRow]]
    BY DEF RegulationInv, RegulationsOK
  <1>3. PICK row \in CopyRow: copy' = [copy EXCEPT ![e][r] = row] /\ row.status # "none"
    <2>1. CASE MarkAsViewed(e, r)
      <3>1. copy[e][r].status # "none"
        BY <2>1 DEF MarkAsViewed
      <3> DEFINE row == IF copy[e][r].viewed THEN copy[e][r] ELSE [status |-> "viewed", viewed |-> TRUE]
      <3>2. row \in CopyRow /\ row.status # "none"
        BY <1>2, <3>1 DEF CopyRow
      <3>3. copy' = [copy EXCEPT ![e][r] = row]
        BY <2>1 DEF MarkAsViewed
      <3> QED
        BY <3>2, <3>3
    <2>2. ASSUME NEW status \in {"expired", "refused"}, copy' = [copy EXCEPT ![e][r].status = status]
          PROVE  \E row \in CopyRow: copy' = [copy EXCEPT ![e][r] = row] /\ row.status # "none"
      <3> DEFINE row == [copy[e][r] EXCEPT !.status = status]
      <3>1. row \in CopyRow /\ row.status # "none"
        BY <1>2 DEF CopyRow
      <3>2. copy' = [copy EXCEPT ![e][r] = row]
        BY <2>2
      <3> QED
        BY <3>1, <3>2
    <2> QED
      BY <2>1, <2>2 DEF RefuseLateSignature, RefuseRegulation
  <1>4. copy' \in [Readers -> [Rules -> CopyRow]]
    BY <1>2, <1>3
  <1>5. \A d \in Readers, q \in Rules: copy[d][q].status # "none" => copy'[d][q].status # "none"
    BY <1>2, <1>3
  <1> QED
    BY <1>1, <1>4, <1>5, CopiesStay
\* The steps of a publication and of a signature.
LEMMA PublicationStepKeeps ==
  ASSUME "regulations" \notin Overlapping, RegulationInv, UNCHANGED focus,
         focus \in {"regulations", "papers"}, NEW c \in Clients,
         \/ \E r \in Rules: BeginPublish(c, r)
         \/ ArchiveActive(c) \/ Activate(c) \/ AssignToAllEmployees(c)
  PROVE  RegulationInv'
  <1>0. /\ OneCall /\ PublicationHolds(call[c])
        /\ RegulationsOK /\ OneActive /\ SheetsOnce /\ HandedOut
    BY DEF RegulationInv
  <1>1. ASSUME NEW next, Goto(c, next), Quiet \/ call[c] # Idle, PublicationHolds(next)',
               RegulationsOK', OneActive', SheetsOnce', HandedOut'
        PROVE  RegulationInv'
    <2>1. /\ OneCall' /\ call'[c] = next
          /\ \A d \in Clients \ {c}: call'[d] = Idle
      BY <1>0, <1>1, AloneOrNone
    <2>2. ASSUME NEW d \in Clients
          PROVE  PublicationHolds(call[d])'
      BY <1>1, <2>1 DEF PublicationHolds, Idle
    <2> QED
      BY <1>1, <2>1, <2>2 DEF RegulationInv
  <1>2. ASSUME NEW r \in Rules, BeginPublish(c, r)
        PROVE  RegulationInv'
    <2>1. /\ Goto(c, [at |-> "archive", rule |-> r]) /\ Quiet /\ call[c] = Idle
          /\ UNCHANGED <<rule, copy, paper, sheets>>
      BY <1>2 DEF BeginPublish, MayStart, MayRun, regulationVars
    <2>2. PublicationHolds([at |-> "archive", rule |-> r])'
      BY DEF PublicationHolds
    <2>3. \A d \in Clients: call[d].at # "assign"
      BY <2>1 DEF Quiet, Idle
    <2>4. HandedOut'
      BY <1>0, <2>1, <2>3 DEF HandedOut
    <2>5. RegulationsOK' /\ OneActive' /\ SheetsOnce'
      BY <1>0, <2>1 DEF RegulationsOK, OneActive, SheetsOnce
    <2> QED
      BY <1>1, <2>1, <2>2, <2>4, <2>5
  <1>3. CASE ArchiveActive(c)
    <2>0. PICK next: next = [call[c] EXCEPT !.at = "activate"]
      OBVIOUS
    <2>1. /\ Goto(c, next) /\ call[c].at = "archive" /\ call[c] # Idle
          /\ UNCHANGED <<copy, paper, sheets>>
          /\ rule' = [r \in Rules |-> IF rule[r] = "active" THEN "archived" ELSE rule[r]]
      BY <1>3, <2>0 DEF ArchiveActive, keptPapers, Idle
    <2>2. next.at = "activate" /\ next.rule = call[c].rule
      BY <2>0
    <2>3. \A r \in Rules: rule'[r] # "active"
      BY <2>1
    <2>4. PublicationHolds(next)'
      BY <1>0, <2>1, <2>2, <2>3 DEF PublicationHolds
    <2>5. RegulationsOK'
      BY <1>0, <2>1 DEF RegulationsOK
    <2>6. OneActive' /\ SheetsOnce' /\ HandedOut'
      BY <1>0, <2>1, <2>3 DEF OneActive, SheetsOnce, HandedOut
    <2> QED
      BY <1>1, <2>1, <2>4, <2>5, <2>6
  <1>4. CASE Activate(c)
    <2>0. PICK next, on: next = [call[c] EXCEPT !.at = "assign"] /\ on = call[c].rule
      OBVIOUS
    <2>1. /\ Goto(c, next) /\ call[c].at = "activate" /\ call[c] # Idle
          /\ UNCHANGED <<copy, paper, sheets>>
          /\ rule' = [rule EXCEPT ![on] = "active"]
      BY <1>4, <2>0 DEF Activate, keptPapers, Idle
    <2>2. next.at = "assign" /\ next.rule = on
      BY <2>0
    <2>3. on \in Rules /\ \A r \in Rules: rule[r] # "active"
      BY <1>0, <2>0, <2>1 DEF PublicationHolds
    <2>4. PublicationHolds(next)'
      BY <2>2, <2>3 DEF PublicationHolds
    <2>5. RegulationsOK'
      BY <1>0, <2>1 DEF RegulationsOK
    <2>6. \A r \in Rules: rule'[r] = "active" => r = on
      BY <1>0, <2>1, <2>3 DEF RegulationsOK
    <2>7. call'[c] = next
      BY <1>0, <2>1 DEF Goto, OneCall
    <2>8. OneActive' /\ SheetsOnce'
      BY <1>0, <2>1, <2>6 DEF OneActive, SheetsOnce
    <2>9. HandedOut'
      BY <2>2, <2>6, <2>7 DEF HandedOut
    <2> QED
      BY <1>1, <2>1, <2>4, <2>5, <2>8, <2>9
  <1>5. CASE AssignToAllEmployees(c)
    <2>0. PICK on: on = call[c].rule
      OBVIOUS
    <2>1. /\ Goto(c, Idle) /\ call[c].at = "assign" /\ call[c] # Idle
          /\ UNCHANGED <<rule, paper, sheets>>
          /\ copy' = [e \in Readers |->
                        IF copy[e][on].status = "none"
                        THEN [copy[e] EXCEPT ![on].status = "pending"] ELSE copy[e]]
      BY <1>5, <2>0 DEF AssignToAllEmployees, Return, keptPapers, Idle
    <2>2. on \in Rules
      BY <1>0, <2>0, <2>1 DEF PublicationHolds
    <2>3. \A d \in Clients: call[d].at = "assign" => call[d].rule = on
      <3>1. \A d \in Clients: call[d] # Idle => d = c
        BY <1>0, <2>1 DEF OneCall
      <3>2. \A d \in Clients: call[d].at = "assign" => call[d] # Idle
        BY DEF Idle
      <3> QED
        BY <2>0, <3>1, <3>2
    <2>4. ASSUME NEW e \in Readers
          PROVE  /\ copy'[e] \in [Rules -> CopyRow]
                 /\ copy'[e][on].status # "none"
                 /\ \A r \in Rules \ {on}: copy'[e][r] = copy[e][r]
      <3>1. copy[e] \in [Rules -> CopyRow] /\ copy[e][on] \in CopyRow
        BY <1>0, <2>2 DEF RegulationsOK
      <3>2. [copy[e][on] EXCEPT !.status = "pending"] \in CopyRow
        BY <3>1 DEF CopyRow
      <3>3. [copy[e][on] EXCEPT !.status = "pending"].status = "pending"
        BY <3>1 DEF CopyRow
      <3>4. copy'[e] = IF copy[e][on].status = "none"
                       THEN [copy[e] EXCEPT ![on] = [copy[e][on] EXCEPT !.status = "pending"]]
                       ELSE copy[e]
        BY <2>1, <3>1
      <3> QED
        BY <2>2, <3>1, <3>2, <3>3, <3>4
    <2>5. RegulationsOK'
      BY <1>0, <2>1, <2>4 DEF RegulationsOK
    <2>6. HandedOut'
      <3>1. ASSUME NEW r \in Rules, rule[r] = "active"
            PROVE  \A e \in Readers: copy'[e][r].status # "none"
        BY <1>0, <2>3, <2>4, <3>1 DEF HandedOut
      <3> QED
        BY <2>1, <3>1 DEF HandedOut
    <2>7. OneActive' /\ SheetsOnce'
      BY <1>0, <2>1 DEF OneActive, SheetsOnce
    <2>8. PublicationHolds(Idle)'
      BY DEF PublicationHolds, Idle
    <2> QED
      BY <1>1, <2>1, <2>5, <2>6, <2>7, <2>8
  <1> QED
    BY <1>2, <1>3, <1>4, <1>5

LEMMA SignatureStepKeeps ==
  ASSUME "regulations" \notin Overlapping, RegulationInv, UNCHANGED focus,
         focus \in {"regulations", "papers"}, NEW c \in Clients,
         FinishSign(c) \/ \E e \in Readers, r \in Rules: BeginSign(c, e, r)
  PROVE  RegulationInv'
  <1>0. /\ OneCall /\ PublicationHolds(call[c])
        /\ RegulationsOK /\ OneActive /\ SheetsOnce /\ HandedOut
    BY DEF RegulationInv
  <1>1. /\ UNCHANGED <<rule, paper, sheets>>
        /\ call[c].at = "sign" \/ Quiet
        /\ call[c] # Idle \/ Quiet
    <2>1. CASE FinishSign(c)
      BY <2>1 DEF FinishSign, keptPapers, Idle
    <2>2. ASSUME NEW e \in Readers, NEW r \in Rules, BeginSign(c, e, r)
          PROVE  UNCHANGED <<rule, paper, sheets>> /\ Quiet
      BY <2>2 DEF BeginSign, MayStart, MayRun, keptPapers
    <2> QED
      BY <2>1, <2>2
  <1>2. PICK next: Goto(c, next) /\ PublicationHolds(next)'
    <2>1. CASE FinishSign(c)
      BY <2>1 DEF FinishSign, Return, PublicationHolds, Idle
    <2>2. ASSUME NEW e \in Readers, NEW r \in Rules, BeginSign(c, e, r)
          PROVE  \E next: Goto(c, next) /\ PublicationHolds(next)'
      <3>1. copy[e][r].viewed \in BOOLEAN
        BY <1>0 DEF RegulationsOK, CopyRow
      <3>2. PICK next: next = [at |-> "sign", reader |-> e, rule |-> r, viewed |-> copy[e][r].viewed]
        OBVIOUS
      <3>3. PublicationHolds(next)'
        BY <3>1, <3>2 DEF PublicationHolds
      <3> QED
        BY <2>2, <3>2, <3>3 DEF BeginSign
    <2> QED
      BY <2>1, <2>2
  <1>3. /\ copy' \in [Readers -> [Rules -> CopyRow]]
        /\ \A e \in Readers, r \in Rules: copy[e][r].status # "none" => copy'[e][r].status # "none"
    <2>1. CASE UNCHANGED copy
      BY <1>0, <2>1 DEF RegulationsOK
    <2>2. CASE FinishSign(c)
      <3> DEFINE row == [status |-> "signed", viewed |-> call[c].viewed]
      <3>1. /\ call[c].reader \in Readers /\ call[c].rule \in Rules
            /\ row \in CopyRow /\ row.status = "signed"
        BY <1>0, <2>2 DEF FinishSign, PublicationHolds, CopyRow
      <3>2. copy' = [copy EXCEPT ![call[c].reader][call[c].rule] = row]
        BY <2>2 DEF FinishSign
      <3>3. copy \in [Readers -> [Rules -> CopyRow]]
        BY <1>0 DEF RegulationsOK
      <3> HIDE DEF row
      <3> QED
        BY <3>1, <3>2, <3>3
    <2> QED
      BY <2>1, <2>2 DEF BeginSign
  <1>4. /\ OneCall' /\ call'[c] = next
        /\ \A d \in Clients \ {c}: call'[d] = Idle
    BY <1>0, <1>1, <1>2, AloneOrNone
  <1>5. ASSUME NEW d \in Clients
        PROVE  PublicationHolds(call[d])'
    BY <1>2, <1>4 DEF PublicationHolds, Idle
  <1>6. \A d \in Clients: call[d].at # "assign"
    <2>1. \A d \in Clients \ {c}: call[d] = Idle
      BY <1>0, <1>1 DEF OneCall, Quiet
    <2>2. call[c].at # "assign"
      BY <1>1 DEF Quiet, Idle
    <2> QED
      BY <2>1, <2>2 DEF Idle
  <1>7. HandedOut'
    BY <1>0, <1>1, <1>3, <1>6 DEF HandedOut
  <1> QED
    BY <1>0, <1>1, <1>3, <1>4, <1>5, <1>7 DEF RegulationInv, RegulationsOK, OneActive, SheetsOnce
\* Papers, and what regulations do in one await.
LEMMA PaperStepKeeps ==
  ASSUME RegulationInv, UNCHANGED focus, UNCHANGED <<rule, copy, call>>,
         paper' \in [Papers -> PaperRow], sheets' \in [Readers -> [Papers -> Nat]],
         \A d \in Papers:
           \/ \A e \in Readers: sheets'[e][d] = sheets[e][d]
           \/ paper[d].status = "draft" /\ \A e \in Readers: sheets'[e][d] <= sheets[e][d] + 1,
         \A d \in Papers:
           paper'[d].status \in {"none", "draft"} =>
             /\ paper[d].status \in {"none", "draft"}
             /\ \A e \in Readers: sheets'[e][d] = sheets[e][d]
  PROVE  RegulationInv'
  <1>1. SheetsOnce'
    <2> SUFFICES ASSUME NEW e \in Readers, NEW d \in Papers
                 PROVE  /\ sheets'[e][d] <= 1
                        /\ paper'[d].status \in {"none", "draft"} => sheets'[e][d] = 0
      BY DEF SheetsOnce
    <2>1. /\ sheets[e][d] \in Nat /\ sheets'[e][d] \in Nat
          /\ sheets[e][d] <= 1
          /\ paper[d].status \in {"none", "draft"} => sheets[e][d] = 0
      BY DEF RegulationInv, RegulationsOK, SheetsOnce
    <2>2. sheets'[e][d] = sheets[e][d] \/ (sheets[e][d] = 0 /\ sheets'[e][d] <= sheets[e][d] + 1)
      BY <2>1
    <2> QED
      BY <2>1, <2>2
  <1>2. \A c \in Clients: PublicationHolds(call[c])' = PublicationHolds(call[c])
    BY DEF PublicationHolds
  <1>3. RegulationsOK' /\ OneActive' /\ HandedOut'
    BY DEF RegulationInv, RegulationsOK, OneActive, HandedOut
  <1> QED
    BY <1>1, <1>2, <1>3 DEF RegulationInv, OneCall

LEMMA DocumentStepKeeps ==
  ASSUME RegulationInv, UNCHANGED focus, HrDocumentController
  PROVE  RegulationInv'
  <1>0. paper \in [Papers -> PaperRow] /\ sheets \in [Readers -> [Papers -> Nat]]
    BY DEF RegulationInv, RegulationsOK
  <1>1. UNCHANGED <<rule, copy, call>>
    BY DEF HrDocumentController, CreateDocument, PublishDocument, ArchiveDocument, DeleteDocument,
           ViewDocument, AcknowledgeDocument, SignDocument, RejectSheet, Mark, keptRules
  <1> DEFINE Kept(d, status) == UNCHANGED sheets /\ paper' = [paper EXCEPT ![d].status = status]
  <1>2. ASSUME NEW d \in Papers, NEW status \in {"draft", "archived"}, Kept(d, status),
               status = "draft" => paper[d].status = "none"
        PROVE  RegulationInv'
    <2>1. [paper[d] EXCEPT !.status = status] \in PaperRow
      BY <1>0 DEF PaperRow
    <2>2. [paper[d] EXCEPT !.status = status].status = status
      BY <1>0 DEF PaperRow
    <2>3. /\ paper' \in [Papers -> PaperRow]
          /\ paper'[d].status = status
          /\ \A q \in Papers \ {d}: paper'[q] = paper[q]
      BY <1>0, <1>2, <2>1, <2>2
    <2>4. sheets' = sheets
      BY <1>2
    <2>5. \A q \in Papers: paper'[q].status \in {"none", "draft"} => paper[q].status \in {"none", "draft"}
      BY <1>2, <2>3
    <2> QED
      BY <1>0, <1>1, <2>3, <2>4, <2>5, PaperStepKeeps
  <1>3. ASSUME NEW d \in Papers, PublishDocument(d)
        PROVE  RegulationInv'
    <2>1. [paper[d] EXCEPT !.status = "active"] \in PaperRow
      BY <1>0 DEF PaperRow
    <2>2. [paper[d] EXCEPT !.status = "active"].status = "active"
      BY <1>0 DEF PaperRow
    <2>3. paper' = [paper EXCEPT ![d].status = "active"] /\ paper[d].status = "draft"
      BY <1>3 DEF PublishDocument
    <2>4. /\ paper' \in [Papers -> PaperRow]
          /\ paper'[d].status = "active"
          /\ \A q \in Papers \ {d}: paper'[q] = paper[q]
      BY <1>0, <2>1, <2>2, <2>3
    <2>5. PICK given \in SUBSET Readers:
            sheets' = [e \in Readers |-> IF e \in given THEN [sheets[e] EXCEPT ![d] = @ + 1] ELSE sheets[e]]
      BY <1>3 DEF PublishDocument
    <2>6. ASSUME NEW e \in Readers
          PROVE  /\ sheets'[e] \in [Papers -> Nat]
                 /\ sheets'[e][d] <= sheets[e][d] + 1
                 /\ \A q \in Papers \ {d}: sheets'[e][q] = sheets[e][q]
      <3>1. sheets[e] \in [Papers -> Nat] /\ sheets[e][d] \in Nat
        BY <1>0
      <3>2. CASE e \in given
        <4>1. sheets'[e] = [sheets[e] EXCEPT ![d] = sheets[e][d] + 1]
          BY <2>5, <3>2
        <4> QED
          BY <3>1, <4>1
      <3>3. CASE e \notin given
        <4>1. sheets'[e] = sheets[e]
          BY <2>5, <3>3
        <4> QED
          BY <3>1, <4>1
      <3> QED
        BY <3>2, <3>3
    <2>7. sheets' \in [Readers -> [Papers -> Nat]]
      BY <2>5, <2>6
    <2> QED
      BY <1>0, <1>1, <2>3, <2>4, <2>6, <2>7, PaperStepKeeps
  <1>4. ASSUME NEW d \in Papers, DeleteDocument(d)
        PROVE  RegulationInv'
    <2>1. [paper[d] EXCEPT !.deleted = TRUE] \in PaperRow
      BY <1>0 DEF PaperRow
    <2>2. [paper[d] EXCEPT !.deleted = TRUE].status = paper[d].status
      BY <1>0 DEF PaperRow
    <2>3. paper' = [paper EXCEPT ![d].deleted = TRUE] /\ sheets' = sheets
      BY <1>4 DEF DeleteDocument
    <2>4. /\ paper' \in [Papers -> PaperRow]
          /\ \A q \in Papers: paper'[q].status = paper[q].status
      BY <1>0, <2>1, <2>2, <2>3
    <2> QED
      BY <1>0, <1>1, <2>3, <2>4, PaperStepKeeps
  <1>5. ASSUME UNCHANGED <<paper, sheets>>
        PROVE  RegulationInv'
    BY <1>0, <1>1, <1>5, PaperStepKeeps
  <1>6. PICK d \in Papers:
          \/ CreateDocument(d) \/ PublishDocument(d) \/ ArchiveDocument(d) \/ DeleteDocument(d)
          \/ \E e \in Readers: \/ ViewDocument(e, d) \/ AcknowledgeDocument(e, d)
                               \/ SignDocument(e, d) \/ RejectSheet(e, d)
    BY DEF HrDocumentController
  <1>7. CreateDocument(d) => Kept(d, "draft") /\ paper[d].status = "none"
    BY DEF CreateDocument
  <1>8. ArchiveDocument(d) => Kept(d, "archived")
    BY DEF ArchiveDocument
  <1>9. (\E e \in Readers: \/ ViewDocument(e, d) \/ AcknowledgeDocument(e, d)
                           \/ SignDocument(e, d) \/ RejectSheet(e, d)) => UNCHANGED <<paper, sheets>>
    BY DEF ViewDocument, AcknowledgeDocument, SignDocument, RejectSheet, Mark
  <1> HIDE DEF Kept
  <1> QED
    BY <1>2, <1>3, <1>4, <1>5, <1>6, <1>7, <1>8, <1>9

LEMMA RegulationStepKeeps ==
  ASSUME "regulations" \notin Overlapping, RegulationInv, UNCHANGED focus,
         focus \in {"regulations", "papers"}, RegulationNext
  PROVE  RegulationInv'
  <1>1. ASSUME NEW r \in Rules, CreateRegulation(r)
        PROVE  RegulationInv'
    <2>1. /\ Quiet /\ rule[r] = "none" /\ rule' = [rule EXCEPT ![r] = "draft"]
          /\ UNCHANGED <<copy, paper, sheets, call>>
      BY <1>1 DEF CreateRegulation, MayRun, keptPapers
    <2>2. /\ rule' \in [Rules -> {"none", "draft", "active", "archived"}]
          /\ \A q \in Rules: rule'[q] = "active" => rule[q] = "active"
      BY <2>1 DEF RegulationInv, RegulationsOK
    <2>3. RegulationsOK' /\ OneActive' /\ SheetsOnce' /\ HandedOut'
      BY <2>1, <2>2 DEF RegulationInv, RegulationsOK, OneActive, SheetsOnce, HandedOut
    <2>4. \A c \in Clients: PublicationHolds(call[c])'
      BY <2>1 DEF Quiet, PublicationHolds, Idle
    <2> QED
      BY <2>1, <2>3, <2>4 DEF RegulationInv, OneCall
  <1>2. ASSUME NEW r \in Rules, DeadlinePasses(r)
        PROVE  RegulationInv'
    <2>1. UNCHANGED <<rule, copy, paper, sheets, call>>
      BY <1>2 DEF DeadlinePasses, keptPapers
    <2> QED
      BY <2>1, CopiesStay DEF RegulationInv, RegulationsOK
  <1> QED
    BY <1>1, <1>2, CopyStepKeeps, PublicationStepKeeps, SignatureStepKeeps, DocumentStepKeeps
    DEF RegulationNext, RegulationController

LEMMA OneRegulationInForce ==
  ASSUME RegulationInv
  PROVE  OneInForce
  <1>1. Cardinality({r \in Rules: rule[r] = "active"}) <= 1
    <2>1. CASE \A r \in Rules: rule[r] # "active"
      <3>1. {r \in Rules: rule[r] = "active"} = {}
        BY <2>1
      <3> QED
        BY <3>1, FS_EmptySet
    <2>2. ASSUME NEW r \in Rules, rule[r] = "active"
          PROVE  Cardinality({q \in Rules: rule[q] = "active"}) <= 1
      <3>1. {q \in Rules: rule[q] = "active"} = {r}
        BY <2>2 DEF RegulationInv, OneActive
      <3>2. Cardinality({r}) = 1
        BY FS_Singleton
      <3> QED
        BY <3>1, <3>2
    <2> QED
      BY <2>1, <2>2
  <1>2. Quiet => \A r \in Rules: rule[r] = "active" => \A e \in Readers: copy[e][r].status # "none"
    BY DEF RegulationInv, HandedOut, Quiet, Idle
  <1>3. \A e \in Readers: \A d \in Papers: sheets[e][d] <= 1
    BY DEF RegulationInv, SheetsOnce
  <1> QED
    BY <1>1, <1>2, <1>3 DEF OneInForce
-----------------------------------------------------------------------------
(* Applications and positions *)

HiringOK == held \subseteq Holding /\ position \in [Positions -> {"none", "live", "deleted"}]

\* an application about to be inserted is the first; a position about to be deleted is held by
\* nobody, one about to be given is live, and the main one is set after all were cleared
HiringHolds(new) ==
  /\ new.at = "insert" => ~AlreadyApplied(new.form)
  /\ new.at = "delete" => new.position \in Positions /\ \A r \in held: r.position # new.position
  /\ new.at \in {"current", "end", "open", "clear", "primary"} =>
       new.set \in HoldCall /\ \A p \in new.set.wanted: position[p] = "live"
  /\ new.at = "primary" => \A r \in held: r.by = new.set.by => ~r.primary

HiringInv ==
  /\ HiringOK
  /\ OneApplicationEach
  /\ OneMainPosition
  /\ focus \in {"openings", "positions"} => OneCall /\ \A c \in Clients: HiringHolds(call[c])

LEMMA IdleHires ==
  HiringHolds(Idle) /\ HiringHolds(Idle)'
  BY DEF HiringHolds, Idle

LEMMA HiringInitially ==
  HiringInit /\ call = [c \in Clients |-> Idle] => HiringInv
  BY IdleHires DEF HiringInit, HiringInv, HiringOK, OneApplicationEach, OneMainPosition, OneCall

\* A call that goes on, alone, after what it did to the rows.
LEMMA HiringGoesOn ==
  ASSUME HiringInv, UNCHANGED focus, focus \in {"openings", "positions"}, NEW c \in Clients,
         NEW next, Goto(c, next), Quiet \/ call[c] # Idle, HiringHolds(next)',
         HiringOK', OneApplicationEach', OneMainPosition'
  PROVE  HiringInv'
  <1>1. /\ OneCall' /\ call'[c] = next
        /\ \A d \in Clients \ {c}: call'[d] = Idle
    BY AloneOrNone DEF HiringInv
  <1>2. ASSUME NEW d \in Clients
        PROVE  HiringHolds(call[d])'
    <2>1. call'[d] = next \/ call'[d] = Idle
      BY <1>1
    <2>2. CASE call'[d] = next
      BY <2>2 DEF HiringHolds
    <2>3. CASE call'[d] = Idle
      BY <2>3, IdleHires DEF HiringHolds
    <2> QED
      BY <2>1, <2>2, <2>3
  <1> QED
    BY <1>1, <1>2 DEF HiringInv

\* A step of one await, while no call is in flight.
LEMMA HiringAtOnce ==
  ASSUME HiringInv, UNCHANGED <<focus, call>>, Quiet,
         HiringOK', OneApplicationEach', OneMainPosition'
  PROVE  HiringInv'
  <1>1. \A c \in Clients: HiringHolds(call[c])'
    BY DEF Quiet, HiringHolds, Idle
  <1> QED
    BY <1>1 DEF HiringInv, OneCall

LEMMA OpeningStepKeeps ==
  ASSUME "openings" \notin Overlapping, HiringInv, UNCHANGED focus,
         JobOpeningController \/ CandidateController \/ NextHiringDay
  PROVE  HiringInv'
  <1>1. UNCHANGED <<applications, position, held, call>> /\ Quiet
    <2>1. CASE JobOpeningController
      <3>1. ASSUME NEW c, NEW o, NEW row, WriteOpening(c, o, row)
            PROVE  UNCHANGED <<applications, position, held, call>> /\ Quiet
        BY <3>1 DEF WriteOpening, MayStart, MayRun
      <3>2. ASSUME NEW c, NEW o, NEW closing, CreateOpening(c, o, closing)
            PROVE  UNCHANGED <<applications, position, held, call>> /\ Quiet
        BY <3>2 DEF CreateOpening, MayStart, MayRun
      <3>3. ASSUME NEW c, NEW o, NEW status, NEW closing, UpdateOpening(c, o, status, closing)
            PROVE  UNCHANGED <<applications, position, held, call>> /\ Quiet
        BY <3>1, <3>3 DEF UpdateOpening
      <3>4. ASSUME NEW c, NEW o,
                   \/ PublishOpening(c, o) \/ UnpublishOpening(c, o)
                   \/ CloseOpening(c, o) \/ DeleteOpening(c, o)
            PROVE  UNCHANGED <<applications, position, held, call>> /\ Quiet
        <4>1. PICK row: WriteOpening(c, o, row)
          BY <3>4 DEF PublishOpening, UnpublishOpening, CloseOpening, DeleteOpening
        <4> QED
          BY <3>1, <4>1
      <3> QED
        BY <2>1, <3>2, <3>3, <3>4 DEF JobOpeningController
    <2>2. CASE CandidateController
      BY <2>2 DEF CandidateController, CreateCandidate, DeleteCandidate, MayStart, MayRun
    <2>3. CASE NextHiringDay
      BY <2>3 DEF NextHiringDay, MayRun
    <2> QED
      BY <2>1, <2>2, <2>3
  <1>2. HiringOK' /\ OneApplicationEach' /\ OneMainPosition'
    BY <1>1 DEF HiringInv, HiringOK, OneApplicationEach, OneMainPosition
  <1> QED
    BY <1>1, <1>2, HiringAtOnce

LEMMA ApplicationStepKeeps ==
  ASSUME "openings" \notin Overlapping, HiringInv, UNCHANGED focus,
         focus \in {"openings", "positions"}, PublicCareersController
  PROVE  HiringInv'
  <1>0. PICK c \in Clients:
          \/ \E form \in ApplyCall: BeginApplication(c, form)
          \/ KnowCandidate(c) \/ LookForDuplicate(c) \/ InsertApplication(c)
    BY DEF PublicCareersController
  <1>1. HiringHolds(call[c]) /\ HiringOK /\ OneApplicationEach /\ OneMainPosition
    BY DEF HiringInv
  <1>2. UNCHANGED <<position, held>>
    BY <1>0 DEF BeginApplication, KnowCandidate, LookForDuplicate, InsertApplication, hiringVars
  <1>3. HiringOK' /\ OneMainPosition'
    BY <1>1, <1>2 DEF HiringOK, OneMainPosition
  <1>4. ASSUME UNCHANGED applications
        PROVE  OneApplicationEach'
    BY <1>1, <1>4 DEF OneApplicationEach
  <1>5. ASSUME NEW form, BeginApplication(c, form)
        PROVE  HiringInv'
    <2>1. /\ Goto(c, [at |-> "candidate", form |-> form]) /\ Quiet /\ UNCHANGED applications
      BY <1>5 DEF BeginApplication, MayStart, MayRun, hiringVars
    <2>2. HiringHolds([at |-> "candidate", form |-> form])'
      BY DEF HiringHolds
    <2> QED
      BY <1>3, <1>4, <2>1, <2>2, HiringGoesOn
  <1>6. CASE KnowCandidate(c)
    <2>1. PICK next: next = [at |-> "duplicate", form |-> call[c].form]
      OBVIOUS
    <2>2. Goto(c, next) /\ call[c] # Idle /\ UNCHANGED applications
      BY <1>6, <2>1 DEF KnowCandidate, Idle
    <2>3. HiringHolds(next)'
      BY <2>1 DEF HiringHolds
    <2> QED
      BY <1>3, <1>4, <2>2, <2>3, HiringGoesOn
  <1>7. CASE LookForDuplicate(c)
    <2>1. PICK next: next = [at |-> "insert", form |-> call[c].form]
      OBVIOUS
    <2>2. call[c] # Idle /\ UNCHANGED applications
      BY <1>7 DEF LookForDuplicate, hiringVars, Idle
    <2>3. CASE AlreadyApplied(call[c].form)
      <3>1. Goto(c, Idle)
        BY <1>7, <2>3 DEF LookForDuplicate, Return
      <3> QED
        BY <1>3, <1>4, <2>2, <3>1, IdleHires, HiringGoesOn
    <2>4. CASE ~AlreadyApplied(call[c].form)
      <3>1. Goto(c, next)
        BY <1>7, <2>1, <2>4 DEF LookForDuplicate
      <3>2. ~AlreadyApplied(next.form) /\ next.at = "insert"
        BY <2>1, <2>4
      <3>3. HiringHolds(next)'
        BY <2>2, <3>2 DEF HiringHolds, AlreadyApplied
      <3> QED
        BY <1>3, <1>4, <2>2, <3>1, <3>3, HiringGoesOn
    <2> QED
      BY <2>3, <2>4
  <1>8. CASE InsertApplication(c)
    <2>1. PICK a: a = [email |-> call[c].form.email, opening |-> call[c].form.opening, day |-> hiringDay]
      OBVIOUS
    <2>2. /\ Goto(c, Idle) /\ call[c] # Idle /\ call[c].at = "insert"
          /\ applications' = applications \cup {a}
      BY <1>8, <2>1 DEF InsertApplication, Return, Idle
    <2>3. ~AlreadyApplied(call[c].form)
      BY <1>1, <2>2 DEF HiringHolds
    <2>4. \A b \in applications: ~(b.email = a.email /\ b.opening = a.opening)
      BY <2>1, <2>3 DEF AlreadyApplied
    <2>5. OneApplicationEach'
      BY <1>1, <2>2, <2>4 DEF OneApplicationEach
    <2> QED
      BY <1>3, <2>2, <2>5, IdleHires, HiringGoesOn
  <1> QED
    BY <1>0, <1>5, <1>6, <1>7, <1>8
LEMMA DeletionStepKeeps ==
  ASSUME "positions" \notin Overlapping, HiringInv, UNCHANGED focus,
         focus \in {"openings", "positions"}, NEW c \in Clients,
         \/ \E p \in Positions: CreatePosition(c, p) \/ BeginDeletePosition(c, p)
         \/ DeletePosition(c)
  PROVE  HiringInv'
  <1>1. HiringHolds(call[c]) /\ HiringOK /\ OneApplicationEach /\ OneMainPosition
    BY DEF HiringInv
  <1>2. UNCHANGED <<applications, held>>
    BY DEF CreatePosition, BeginDeletePosition, DeletePosition, hiringVars
  <1>3. OneApplicationEach'
    BY <1>1, <1>2 DEF OneApplicationEach
  <1>4. ASSUME NEW p \in Positions, CreatePosition(c, p)
        PROVE  HiringInv'
    <2>1. /\ Quiet /\ UNCHANGED call /\ position[p] = "none"
          /\ position' = [position EXCEPT ![p] = "live"]
      BY <1>4 DEF CreatePosition, MayStart, MayRun
    <2>2. HiringOK' /\ OneMainPosition'
      BY <1>1, <1>2, <2>1 DEF HiringOK, OneMainPosition, Holding
    <2> QED
      BY <1>3, <2>1, <2>2, HiringAtOnce
  <1>5. ASSUME NEW p \in Positions, BeginDeletePosition(c, p)
        PROVE  HiringInv'
    <2>1. PICK next: next = [at |-> "delete", position |-> p]
      OBVIOUS
    <2>2. /\ Quiet /\ Goto(c, next) /\ UNCHANGED position /\ \A r \in held: r.position # p
      BY <1>5, <2>1 DEF BeginDeletePosition, MayStart, MayRun, hiringVars
    <2>3. HiringHolds(next)'
      BY <1>2, <2>1, <2>2 DEF HiringHolds
    <2>4. HiringOK' /\ OneMainPosition'
      BY <1>1, <1>2, <2>2 DEF HiringOK, OneMainPosition
    <2> QED
      BY <1>3, <2>2, <2>3, <2>4, HiringGoesOn
  <1>6. CASE DeletePosition(c)
    <2>1. PICK p: p = call[c].position
      OBVIOUS
    <2>2. /\ call[c].at = "delete" /\ call[c] # Idle /\ Goto(c, Idle)
          /\ position' = [position EXCEPT ![p] = "deleted"]
      BY <1>6, <2>1 DEF DeletePosition, Return, Idle
    <2>3. p \in Positions /\ \A r \in held: r.position # p
      BY <1>1, <2>1, <2>2 DEF HiringHolds
    <2>4. HiringOK' /\ OneMainPosition'
      BY <1>1, <1>2, <2>2, <2>3 DEF HiringOK, OneMainPosition, Holding
    <2> QED
      BY <1>3, <2>2, <2>4, IdleHires, HiringGoesOn
  <1> QED
    BY <1>4, <1>5, <1>6

\* What one step of setForEmployee leaves of the positions of all employees.
LEMMA HeldSafe ==
  ASSUME HiringInv, NEW h, UNCHANGED <<position, applications>>, held' \subseteq Holding,
         \A r \in held': r.by # h => r \in held,
         \A r \in held': r.by = h => position[r.position] = "live",
         \A r, s \in held': r.by = h /\ s.by = h /\ r.primary /\ s.primary => r = s
  PROVE  HiringOK' /\ OneApplicationEach' /\ OneMainPosition'
  BY DEF HiringInv, HiringOK, OneApplicationEach, OneMainPosition

LEMMA PositionsStepKeeps ==
  ASSUME "positions" \notin Overlapping, HiringInv, UNCHANGED focus,
         focus \in {"openings", "positions"}, NEW c \in Clients,
         \/ \E h \in Holders, wanted \in SUBSET Positions, first \in Positions \cup {"none"}:
              BeginSetPositions(c, h, wanted, first)
         \/ ReadPositions(c) \/ EndPositions(c) \/ OpenPositions(c) \/ ClearPrimary(c)
         \/ SetPrimary(c) \/ SetPositionsFails(c)
  PROVE  HiringInv'
  <1>1. HiringHolds(call[c]) /\ HiringOK /\ OneApplicationEach /\ OneMainPosition
    BY DEF HiringInv
  <1>2. ASSUME UNCHANGED hiringVars
        PROVE  UNCHANGED held /\ HiringOK' /\ OneApplicationEach' /\ OneMainPosition'
    BY <1>1, <1>2 DEF hiringVars, HiringOK, OneApplicationEach, OneMainPosition
  <1>3. ASSUME NEW h \in Holders, NEW wanted \in SUBSET Positions,
               NEW first \in Positions \cup {"none"}, BeginSetPositions(c, h, wanted, first)
        PROVE  HiringInv'
    <2>1. PICK next: next = [at |-> "current", set |-> [by |-> h, wanted |-> wanted,
                                                        first |-> first, current |-> {}]]
      OBVIOUS
    <2>2. /\ Quiet /\ Goto(c, next) /\ UNCHANGED hiringVars /\ \A p \in wanted: position[p] = "live"
      BY <1>3, <2>1 DEF BeginSetPositions, MayStart, MayRun
    <2>3. next.at = "current" /\ next.set \in HoldCall /\ next.set.wanted = wanted
      BY <2>1 DEF HoldCall
    <2>4. HiringHolds(next)'
      BY <2>2, <2>3 DEF HiringHolds, hiringVars
    <2> QED
      BY <1>2, <2>2, <2>4, HiringGoesOn
  <1>4. CASE SetPositionsFails(c)
    <2>1. Goto(c, Idle) /\ call[c] # Idle /\ UNCHANGED hiringVars
      BY <1>4 DEF SetPositionsFails, Return, Idle
    <2> QED
      BY <1>2, <2>1, IdleHires, HiringGoesOn
  <1>5. CASE ReadPositions(c)
    <2>1. PICK next: next = [at |-> "end", set |-> [call[c].set EXCEPT
                                                      !.current = HeldBy(call[c].set.by)]]
      OBVIOUS
    <2>2. /\ Goto(c, next) /\ call[c] # Idle /\ call[c].at = "current" /\ UNCHANGED hiringVars
      BY <1>5, <2>1 DEF ReadPositions, Idle
    <2>3. /\ next.at = "end" /\ next.set \in HoldCall
          /\ next.set.wanted = call[c].set.wanted
      <3>1. HeldBy(call[c].set.by) \in SUBSET Positions
        BY <1>1 DEF HiringOK, HeldBy, Current, Holding
      <3>2. call[c].set \in HoldCall
        BY <1>1, <2>2 DEF HiringHolds
      <3>3. PICK read: read = HeldBy(call[c].set.by)
        OBVIOUS
      <3>4. /\ [call[c].set EXCEPT !.current = read] \in HoldCall
            /\ [call[c].set EXCEPT !.current = read].wanted = call[c].set.wanted
        BY <3>1, <3>2, <3>3 DEF HoldCall
      <3> QED
        BY <2>1, <3>3, <3>4
    <2>4. HiringHolds(next)'
      BY <1>1, <2>2, <2>3 DEF HiringHolds, hiringVars
    <2> QED
      BY <1>2, <2>2, <2>4, HiringGoesOn
  <1>6. ASSUME NEW at \in {"end", "open", "clear"}, NEW to \in {"open", "clear", "primary"},
               SetStep(c, at, to), UNCHANGED <<position, applications>>, held' \subseteq Holding,
               \A r \in held': r.by # call[c].set.by => r \in held,
               \A r \in held': r.by = call[c].set.by => position[r.position] = "live",
               \A r, s \in held': r.by = call[c].set.by /\ s.by = call[c].set.by
                                  /\ r.primary /\ s.primary => r = s,
               to = "primary" => \A r \in held': r.by = call[c].set.by => ~r.primary
        PROVE  HiringInv'
    <2>1. PICK next: next = [at |-> to, set |-> call[c].set]
      OBVIOUS
    <2>2. Goto(c, next) /\ call[c].at = at /\ call[c] # Idle
      BY <1>6, <2>1 DEF SetStep, Idle
    <2>3. next.at = to /\ next.set = call[c].set
      BY <2>1
    <2>4. call[c].set \in HoldCall /\ \A p \in call[c].set.wanted: position[p] = "live"
      BY <1>1, <2>2 DEF HiringHolds
    <2>5. HiringHolds(next)'
      BY <1>6, <2>3, <2>4 DEF HiringHolds
    <2>6. HiringOK' /\ OneApplicationEach' /\ OneMainPosition'
      BY <1>6, HeldSafe
    <2> QED
      BY <2>2, <2>5, <2>6, HiringGoesOn
  <1>7. CASE EndPositions(c)
    <2>1. SetStep(c, "end", "open") /\ UNCHANGED <<position, applications>> /\ held' \subseteq held
      BY <1>7 DEF EndPositions
    <2> QED
      BY <1>1, <1>6, <2>1 DEF HiringOK, OneMainPosition
  <1>8. CASE OpenPositions(c)
    <2>1. PICK set: set = call[c].set
      OBVIOUS
    <2>2. /\ SetStep(c, "open", "clear") /\ UNCHANGED <<position, applications>>
          /\ held' = held \cup [by: {set.by}, position: set.wanted \ set.current, primary: {FALSE}]
      BY <1>8, <2>1 DEF OpenPositions
    <2>3. /\ set.by \in Holders
          /\ \A p \in set.wanted: p \in Positions /\ position[p] = "live"
      BY <1>1, <2>1, <2>2 DEF HiringHolds, SetStep, HoldCall
    <2>4. \A r \in held': \/ r \in held
                          \/ /\ r \in Holding /\ r.by = set.by /\ ~r.primary
                             /\ position[r.position] = "live"
      BY <2>2, <2>3 DEF Holding
    <2>5. held' \subseteq Holding
      BY <1>1, <2>4 DEF HiringOK
    <2>6. /\ \A r \in held': r.by # set.by => r \in held
          /\ \A r \in held': r.by = set.by => position[r.position] = "live"
          /\ \A r, s \in held': r.by = set.by /\ s.by = set.by /\ r.primary /\ s.primary => r = s
      BY <1>1, <2>4 DEF OneMainPosition
    <2> QED
      BY <1>6, <2>1, <2>2, <2>5, <2>6
  <1>9. CASE ClearPrimary(c)
    <2>1. PICK h: h = call[c].set.by
      OBVIOUS
    <2>2. /\ SetStep(c, "clear", "primary") /\ UNCHANGED <<position, applications>>
          /\ held' = Cleared(held, h)
      BY <1>9, <2>1 DEF ClearPrimary
    <2>3. ASSUME NEW r \in held
          PROVE  /\ [r EXCEPT !.primary = FALSE] \in Holding
                 /\ [r EXCEPT !.primary = FALSE].by = r.by
                 /\ [r EXCEPT !.primary = FALSE].position = r.position
                 /\ ~[r EXCEPT !.primary = FALSE].primary
                 /\ r \in Holding /\ position[r.position] = "live"
      BY <1>1 DEF HiringOK, OneMainPosition, Holding
    <2>4. ASSUME NEW s \in held'
          PROVE  /\ s \in Holding /\ position[s.position] = "live"
                 /\ s.by # h => s \in held
                 /\ s.by = h => ~s.primary
      <3>1. PICK r \in held: s = IF r.by = h THEN [r EXCEPT !.primary = FALSE] ELSE r
        BY <2>2 DEF Cleared
      <3> QED
        BY <2>3, <3>1
    <2> QED
      BY <1>6, <2>1, <2>2, <2>4
  <1>10. CASE SetPrimary(c)
    <2>1. PICK set: set = call[c].set
      OBVIOUS
    <2>2. /\ call[c].at = "primary" /\ call[c] # Idle /\ Goto(c, Idle)
          /\ UNCHANGED <<position, applications>>
      BY <1>10 DEF SetPrimary, Return, Idle
    <2>3. PICK main:
            held' = {IF r.by = set.by /\ r.position = main THEN [r EXCEPT !.primary = TRUE]
                     ELSE r: r \in held}
      BY <1>10, <2>1 DEF SetPrimary
    <2>4. \A r \in held: r.by = set.by => ~r.primary
      BY <1>1, <2>1, <2>2 DEF HiringHolds
    <2>5. ASSUME NEW s \in held'
          PROVE  /\ s \in Holding /\ position[s.position] = "live"
                 /\ s.by # set.by => s \in held
                 /\ s.by = set.by /\ s.primary => s.position = main
      <3>1. PICK r \in held: s = IF r.by = set.by /\ r.position = main
                                 THEN [r EXCEPT !.primary = TRUE] ELSE r
        BY <2>3
      <3>2. /\ r \in Holding /\ position[r.position] = "live"
            /\ [r EXCEPT !.primary = TRUE] \in Holding
            /\ [r EXCEPT !.primary = TRUE].by = r.by
            /\ [r EXCEPT !.primary = TRUE].position = r.position
        BY <1>1 DEF HiringOK, OneMainPosition, Holding
      <3> QED
        BY <2>4, <3>1, <3>2
    <2>6. ASSUME NEW r \in held', NEW s \in held', r.by = set.by, s.by = set.by, r.primary, s.primary
          PROVE  r = s
      <3>1. /\ r \in Holding /\ s \in Holding /\ r.position = main /\ s.position = main
        BY <2>5, <2>6
      <3> QED
        BY <2>6, <3>1 DEF Holding
    <2>7. HiringOK' /\ OneApplicationEach' /\ OneMainPosition'
      BY <2>2, <2>5, <2>6, HeldSafe
    <2> QED
      BY <2>2, <2>7, IdleHires, HiringGoesOn
  <1> QED
    BY <1>3, <1>4, <1>5, <1>7, <1>8, <1>9, <1>10
LEMMA HiringStepKeeps ==
  ASSUME "openings" \notin Overlapping, "positions" \notin Overlapping, HiringInv,
         UNCHANGED focus, focus \in {"openings", "positions"}, HiringNext
  PROVE  HiringInv'
  <1>1. ASSUME JobPositionController
        PROVE  HiringInv'
    <2>1. PICK c \in Clients:
            \/ \E p \in Positions: CreatePosition(c, p) \/ BeginDeletePosition(c, p)
            \/ DeletePosition(c)
            \/ \E h \in Holders, wanted \in SUBSET Positions, first \in Positions \cup {"none"}:
                 BeginSetPositions(c, h, wanted, first)
            \/ ReadPositions(c) \/ EndPositions(c) \/ OpenPositions(c) \/ ClearPrimary(c)
            \/ SetPrimary(c) \/ SetPositionsFails(c)
      BY <1>1 DEF JobPositionController
    <2> QED
      BY <2>1, DeletionStepKeeps, PositionsStepKeeps
  <1> QED
    BY <1>1, OpeningStepKeeps, ApplicationStepKeeps DEF HiringNext

-----------------------------------------------------------------------------
(* Reminders about attendance *)

\* a reminder about to be inserted is the first of its kind about its day
NudgeInv ==
  /\ RemindedOncePerDay
  /\ focus \in {"deadlines", "punches"} =>
       /\ OneCall
       /\ \A c \in Clients: call[c].at = "nudge" => ~AlreadyNotified(call[c].kind, call[c].about)

LEMMA NudgeStepKeeps ==
  ASSUME "punches" \notin Overlapping, NudgeInv, UNCHANGED focus,
         focus \in {"deadlines", "punches"}, ReminderNext
  PROVE  NudgeInv'
  <1>1. ASSUME UNCHANGED <<nudges, call>>
        PROVE  NudgeInv'
    BY <1>1 DEF NudgeInv, RemindedOncePerDay, AlreadyNotified, OneCall
  <1>2. ASSUME NEW c \in Clients, NEW kind, NEW about, NEW found, LookThrough(c, kind, about, found)
        PROVE  NudgeInv'
    <2>1. PICK next: next = [at |-> "nudge", kind |-> kind, about |-> about]
      OBVIOUS
    <2>2. Quiet /\ Goto(c, next) /\ ~AlreadyNotified(kind, about) /\ UNCHANGED nudges
      BY <1>2, <2>1 DEF LookThrough, MayStart, MayRun, reminderVars, punchVars
    <2>3. /\ OneCall' /\ call'[c] = next
          /\ \A d \in Clients \ {c}: call'[d] = Idle
      BY <2>2, AloneOrNone DEF NudgeInv
    <2>4. next.kind = kind /\ next.about = about
      BY <2>1
    <2>5. \A d \in Clients: call'[d].at = "nudge" => d = c
      BY <2>3 DEF Idle
    <2>6. ~AlreadyNotified(call[c].kind, call[c].about)'
      BY <2>2, <2>3, <2>4 DEF AlreadyNotified
    <2>7. \A d \in Clients: call'[d].at = "nudge" => ~AlreadyNotified(call[d].kind, call[d].about)'
      BY <2>5, <2>6
    <2> QED
      BY <2>2, <2>3, <2>7 DEF NudgeInv, RemindedOncePerDay
  <1>3. ASSUME NEW c \in Clients, InsertNudge(c)
        PROVE  NudgeInv'
    <2>1. PICK alike: alike = {n \in nudges: n.kind = call[c].kind /\ n.about = call[c].about}
      OBVIOUS
    <2>2. call[c].at = "nudge" /\ call[c] # Idle /\ Goto(c, Idle)
      BY <1>3 DEF InsertNudge, Return, Idle
    <2>3. alike = {}
      BY <2>1, <2>2 DEF NudgeInv, AlreadyNotified
    <2>4. Cardinality(alike) + 1 = 1
      BY <2>3, FS_EmptySet
    <2>5. nudges' = nudges \cup {[kind |-> call[c].kind, about |-> call[c].about,
                                  nth |-> Cardinality(alike) + 1]}
      BY <1>3, <2>1 DEF InsertNudge
    <2>6. RemindedOncePerDay'
      BY <2>4, <2>5 DEF NudgeInv, RemindedOncePerDay
    <2>7. /\ OneCall' /\ call'[c] = Idle
          /\ \A d \in Clients \ {c}: call'[d] = Idle
      BY <2>2, AloneOrNone DEF NudgeInv
    <2>8. \A d \in Clients: call'[d].at # "nudge"
      BY <2>7 DEF Idle
    <2> QED
      BY <2>6, <2>7, <2>8 DEF NudgeInv
  <1>4. DeadlineNext => UNCHANGED nudges
    BY DEF DeadlineNext, TakeLock, QueryProjects, QueryTasks, EndJob, Crash, Restart,
           SendTaskReminder, EditTask, NextMorning, punchVars
  <1>5. PunchIn \/ PunchOut \/ TimePasses => UNCHANGED <<nudges, call>>
    BY DEF PunchIn, PunchOut, TimePasses
  <1>6. ASSUME NEW c \in Clients,
               TickLateCheckIns(c) \/ TickCheckoutReminders(c) \/ TickIncompleteYesterday(c)
        PROVE  NudgeInv'
    <2>1. PICK kind, about, found: LookThrough(c, kind, about, found)
      BY <1>6 DEF TickLateCheckIns, TickCheckoutReminders, TickIncompleteYesterday
    <2> QED
      BY <1>2, <2>1
  <1> QED
    BY <1>1, <1>3, <1>4, <1>5, <1>6 DEF ReminderNext, PunchNext

-----------------------------------------------------------------------------
(* All of them *)

\* Where regulations are not looked at none is put in force.
NoneElsewhere == focus \notin {"regulations", "papers"} => \A r \in Rules: rule[r] # "active"

OnesInv == RegulationInv /\ NoneElsewhere /\ HiringInv /\ NudgeInv

\* What the steps of other components leave as it was.
LEMMA RegulationsStand ==
  ASSUME RegulationInv, NoneElsewhere, UNCHANGED <<regulationVars, focus>>,
         focus \notin {"regulations", "papers"} \/ UNCHANGED call
  PROVE  RegulationInv' /\ NoneElsewhere'
  <1>1. UNCHANGED <<rule, copy, paper, sheets>>
    BY DEF regulationVars
  <1>2. RegulationsOK' /\ OneActive' /\ SheetsOnce' /\ NoneElsewhere'
    BY <1>1 DEF RegulationInv, RegulationsOK, OneActive, SheetsOnce, NoneElsewhere
  <1>3. CASE focus \notin {"regulations", "papers"}
    <2>1. HandedOut'
      BY <1>1, <1>3 DEF NoneElsewhere, HandedOut
    <2> QED
      BY <1>2, <1>3, <2>1 DEF RegulationInv
  <1>4. CASE UNCHANGED call
    <2>1. HandedOut'
      BY <1>1, <1>4 DEF RegulationInv, HandedOut
    <2>2. \A c \in Clients: PublicationHolds(call[c])' = PublicationHolds(call[c])
      BY <1>1, <1>4 DEF PublicationHolds
    <2> QED
      BY <1>2, <1>4, <2>1, <2>2 DEF RegulationInv, OneCall
  <1> QED
    BY <1>2, <1>3, <1>4

LEMMA HiringStands ==
  ASSUME HiringInv, UNCHANGED <<hiringVars, focus>>,
         focus \notin {"openings", "positions"} \/ UNCHANGED call
  PROVE  HiringInv'
  <1>1. UNCHANGED <<applications, position, held>>
    BY DEF hiringVars
  <1>2. HiringOK' /\ OneApplicationEach' /\ OneMainPosition'
    BY <1>1 DEF HiringInv, HiringOK, OneApplicationEach, OneMainPosition
  <1>3. CASE focus \notin {"openings", "positions"}
    BY <1>2, <1>3 DEF HiringInv
  <1>4. CASE UNCHANGED call
    <2>1. \A c \in Clients: HiringHolds(call[c])' = HiringHolds(call[c])
      BY <1>1, <1>4 DEF HiringHolds, AlreadyApplied
    <2> QED
      BY <1>2, <1>4, <2>1 DEF HiringInv, OneCall
  <1> QED
    BY <1>3, <1>4

LEMMA NudgesStand ==
  ASSUME NudgeInv, UNCHANGED <<reminderVars, focus>>,
         focus \notin {"deadlines", "punches"} \/ UNCHANGED call
  PROVE  NudgeInv'
  <1>1. UNCHANGED nudges
    BY DEF reminderVars, punchVars
  <1> QED
    BY <1>1 DEF NudgeInv, RemindedOncePerDay, AlreadyNotified, OneCall

\* Whatever was archived, deleted, cleared or broken off before, calls made one after the
\* other leave no two where the code wants one: of the regulations in force, of the
\* applications of a person for an opening, of the main positions of an employee, of the
\* reminders of a kind about a day.
THEOREM NeverTwoOfOne ==
  ASSUME "regulations" \notin Overlapping, "openings" \notin Overlapping,
         "positions" \notin Overlapping, "punches" \notin Overlapping
  PROVE  StaffSpec => []NoTwoOfOne
  <1>1. StaffInit => OnesInv
    <2> SUFFICES ASSUME StaffInit
                 PROVE  OnesInv
      OBVIOUS
    <2>1. RegulationInv /\ HiringInv
      BY RegulationInitially, HiringInitially DEF StaffInit
    <2>2. NoneElsewhere
      BY DEF StaffInit, RegulationInit, NoneElsewhere
    <2>3. NudgeInv
      BY DEF StaffInit, ReminderInit, NudgeInv, RemindedOncePerDay, OneCall, Idle
    <2> QED
      BY <2>1, <2>2, <2>3 DEF OnesInv
  <1>2. OnesInv /\ [StaffNext]_<<staffVars, call, focus>> => OnesInv'
    <2> SUFFICES ASSUME OnesInv, [StaffNext]_<<staffVars, call, focus>>
                 PROVE  OnesInv'
      OBVIOUS
    <2>1. RegulationInv /\ NoneElsewhere /\ HiringInv /\ NudgeInv /\ UNCHANGED focus
      BY DEF OnesInv, StaffNext, staffVars
    <2>2. RegulationInv' /\ NoneElsewhere'
      <3>1. \/ focus \in {"regulations", "papers"} /\ RegulationNext
            \/ /\ UNCHANGED regulationVars
               /\ focus \notin {"regulations", "papers"} \/ UNCHANGED call
        BY DEF StaffNext, staffVars
      <3>2. CASE focus \in {"regulations", "papers"} /\ RegulationNext
        BY <2>1, <3>2, RegulationStepKeeps DEF NoneElsewhere
      <3> QED
        BY <2>1, <3>1, <3>2, RegulationsStand
    <2>3. HiringInv'
      <3>1. \/ focus \in {"openings", "positions"} /\ HiringNext
            \/ /\ UNCHANGED hiringVars
               /\ focus \notin {"openings", "positions"} \/ UNCHANGED call
        BY DEF StaffNext, staffVars
      <3> QED
        BY <2>1, <3>1, HiringStepKeeps, HiringStands
    <2>4. NudgeInv'
      <3>1. \/ focus \in {"deadlines", "punches"} /\ ReminderNext
            \/ /\ UNCHANGED reminderVars
               /\ focus \notin {"deadlines", "punches"} \/ UNCHANGED call
        BY DEF StaffNext, staffVars
      <3> QED
        BY <2>1, <3>1, NudgeStepKeeps, NudgesStand
    <2> QED
      BY <2>2, <2>3, <2>4 DEF OnesInv
  <1>3. OnesInv => NoTwoOfOne
    BY OneRegulationInForce DEF OnesInv, HiringInv, NudgeInv, NoTwoOfOne
  <1> QED
    BY <1>1, <1>2, <1>3, PTL DEF StaffSpec

-----------------------------------------------------------------------------
(* Journals *)

\* What an employee wrote in a journal stays there through the departures that prepare it,
\* and a journal submitted stays submitted, in whatever order the calls come.
THEOREM JournalsAreKept ==
  StaffSpec => WrittenStays
  <1> DEFINE JournalsOK == journal \in [Writers -> [RecordDays -> JournalRow]]
             Stays == \A e \in Writers: \A d \in RecordDays:
                        /\ journal[e][d].written => journal'[e][d].written
                        /\ journal[e][d].isSubmitted => journal'[e][d].isSubmitted
  <1>1. StaffInit => JournalsOK
    BY DEF StaffInit, RecordInit, JournalRow, NoJournal
  <1>2. ASSUME JournalsOK, NEW e \in Writers, NEW d \in RecordDays, NEW row \in JournalRow,
               SaveJournal(e, d, row),
               journal[e][d].written => row.written,
               journal[e][d].isSubmitted => row.isSubmitted
        PROVE  JournalsOK' /\ Stays
    BY <1>2 DEF SaveJournal
  <1>3. ASSUME JournalsOK, [StaffNext]_<<staffVars, call, focus>>
        PROVE  JournalsOK' /\ (UNCHANGED recordVars \/ Stays)
    <2>1. ASSUME RecordNext
          PROVE  JournalsOK' /\ Stays
      <3>1. ASSUME UNCHANGED journal
            PROVE  JournalsOK' /\ Stays
        BY <1>3, <3>1
      <3>2. \A e \in Writers, d \in RecordDays: journal[e][d] \in JournalRow
        BY <1>3
      <3>3. ASSUME NEW e \in Writers, PrefillFromCompletedTasks(e)
            PROVE  JournalsOK' /\ Stays
        <4>1. CASE date \in RecordDays
          <5>1. PICK row: row = [journal[e][date] EXCEPT !.exists = TRUE, !.generated = TRUE]
            OBVIOUS
          <5>2. /\ row \in JournalRow /\ row.written = journal[e][date].written
                /\ row.isSubmitted = journal[e][date].isSubmitted
            BY <3>2, <4>1, <5>1 DEF JournalRow
          <5>3. SaveJournal(e, date, row)
            BY <3>3, <5>1 DEF PrefillFromCompletedTasks
          <5> QED
            BY <1>2, <1>3, <4>1, <5>2, <5>3
        <4>2. CASE date \notin RecordDays
          BY <1>3, <3>3, <4>2 DEF PrefillFromCompletedTasks, SaveJournal
        <4> QED
          BY <4>1, <4>2
      <3>4. ASSUME NEW e \in Writers, NEW d \in RecordDays, ReviewJournal(e, d)
            PROVE  JournalsOK' /\ Stays
        <4>1. PICK row: row = [journal[e][d] EXCEPT !.reviewed = TRUE]
          OBVIOUS
        <4>2. /\ row \in JournalRow /\ row.written = journal[e][d].written
              /\ row.isSubmitted = journal[e][d].isSubmitted
          BY <3>2, <4>1 DEF JournalRow
        <4>3. SaveJournal(e, d, row)
          BY <3>4, <4>1 DEF ReviewJournal
        <4> QED
          BY <1>2, <1>3, <4>2, <4>3
      <3>5. ASSUME NEW e \in Writers, NEW d \in RecordDays, NEW writes \in BOOLEAN,
                   SubmitJournal(e, d, writes)
            PROVE  JournalsOK' /\ Stays
        <4>1. PICK row: row = [exists |-> TRUE, isSubmitted |-> TRUE,
                               generated |-> journal[e][d].generated /\ ~writes,
                               written |-> journal[e][d].written \/ writes,
                               reviewed |-> journal[e][d].reviewed]
          OBVIOUS
        <4>2. /\ row \in JournalRow
              /\ journal[e][d].written => row.written
              /\ journal[e][d].isSubmitted => row.isSubmitted
          BY <3>2, <4>1 DEF JournalRow
        <4>3. SaveJournal(e, d, row)
          BY <3>5, <4>1 DEF SubmitJournal
        <4> QED
          BY <1>2, <1>3, <4>2, <4>3
      <3>6. DatePasses => UNCHANGED journal
        BY DEF DatePasses
      <3>7. ASSUME NEW e \in Writers, NEW d \in RecordDays, NEW yesCount, SubmitAnswers(e, d, yesCount)
            PROVE  UNCHANGED journal
        BY <3>7 DEF SubmitAnswers
      <3> HIDE DEF Stays, JournalsOK
      <3> QED
        BY <2>1, <3>1, <3>3, <3>4, <3>5, <3>6, <3>7
        DEF RecordNext, DailyJournalController, GuardianQuestionController
    <2>2. RecordNext \/ UNCHANGED recordVars
      BY <1>3 DEF StaffNext, staffVars
    <2>3. UNCHANGED recordVars => JournalsOK'
      BY <1>3 DEF recordVars
    <2> QED
      BY <2>1, <2>2, <2>3
  <1>4. JournalsOK /\ [StaffNext]_<<staffVars, call, focus>> => JournalsOK' /\ [Stays]_recordVars
    BY <1>3
  <1> QED
    BY <1>1, <1>4, PTL DEF StaffSpec, WrittenStays
-----------------------------------------------------------------------------
(* Results that are kept *)

EventsOK == event \in [Events -> EventRow]

\* One row of the initiations is saved.
LEMMA VerdictSaved ==
  ASSUME initiation \in [Recruits -> InitiationRow], QuizVerdictStands,
         NEW e \in Recruits, NEW row \in InitiationRow, Save(e, row),
         row.quizCompleted => row.quizScore >= QUIZ_PASSING_SCORE,
         row.status = "failed" => row.quizAttempts >= MAX_QUIZ_ATTEMPTS
  PROVE  (initiation \in [Recruits -> InitiationRow] /\ QuizVerdictStands)'
  <1>1. PICK new: new = [row EXCEPT !.exists = TRUE]
    OBVIOUS
  <1>2. /\ new \in InitiationRow /\ new.quizCompleted = row.quizCompleted
        /\ new.quizScore = row.quizScore /\ new.status = row.status
        /\ new.quizAttempts = row.quizAttempts
    BY <1>1 DEF InitiationRow
  <1>3. initiation' = [initiation EXCEPT ![e] = new]
    BY <1>1 DEF Save
  <1>4. /\ initiation' \in [Recruits -> InitiationRow]
        /\ initiation'[e] = new
        /\ \A d \in Recruits \ {e}: initiation'[d] = initiation[d]
    BY <1>2, <1>3
  <1> QED
    BY <1>2, <1>4 DEF QuizVerdictStands

LEMMA AnswerJudged ==
  ASSUME NEW row \in InitiationRow, NEW score \in Scores, ~row.quizCompleted,
         row.status = "failed" => row.quizAttempts >= MAX_QUIZ_ATTEMPTS
  PROVE  /\ QuizAnswered(row, score) \in InitiationRow
         /\ QuizAnswered(row, score).quizCompleted =>
              QuizAnswered(row, score).quizScore >= QUIZ_PASSING_SCORE
         /\ QuizAnswered(row, score).status = "failed" =>
              QuizAnswered(row, score).quizAttempts >= MAX_QUIZ_ATTEMPTS
  <1>1. PICK attempts: attempts = IF row.quizAttempts > MAX_QUIZ_ATTEMPTS THEN row.quizAttempts
                                  ELSE row.quizAttempts + 1
    OBVIOUS
  <1>2. /\ attempts \in 0..MAX_QUIZ_ATTEMPTS + 1 /\ attempts \in Nat
        /\ row.quizAttempts \in Nat /\ row.quizAttempts <= attempts
    BY <1>1 DEF InitiationRow, MAX_QUIZ_ATTEMPTS
  <1>3. PICK tried: tried = [row EXCEPT !.quizScore = score, !.quizAttempts = attempts]
    OBVIOUS
  <1>4. /\ tried \in InitiationRow /\ tried.quizScore = score /\ tried.quizAttempts = attempts
        /\ tried.status = row.status /\ ~tried.quizCompleted
    BY <1>2, <1>3 DEF InitiationRow
  <1>5. PICK step: step = Reached(row, 2)
    OBVIOUS
  <1>6. step \in 0..6
    BY <1>5 DEF Reached, InitiationRow
  <1>7. PICK passed: passed = IF score >= QUIZ_PASSING_SCORE
                              THEN [tried EXCEPT !.quizCompleted = TRUE, !.currentStep = step]
                              ELSE tried
    OBVIOUS
  <1>8. /\ passed \in InitiationRow /\ passed.quizScore = score /\ passed.quizAttempts = attempts
        /\ passed.status = row.status
        /\ passed.quizCompleted => score >= QUIZ_PASSING_SCORE
    BY <1>4, <1>6, <1>7 DEF InitiationRow
  <1>9. PICK failed: failed = [passed EXCEPT !.status = "failed"]
    OBVIOUS
  <1>10. /\ failed \in InitiationRow /\ failed.quizScore = score /\ failed.quizAttempts = attempts
         /\ failed.quizCompleted = passed.quizCompleted
    BY <1>8, <1>9 DEF InitiationRow
  <1>11. QuizAnswered(row, score) = IF attempts >= MAX_QUIZ_ATTEMPTS /\ ~passed.quizCompleted
                                    THEN failed ELSE passed
    BY <1>1, <1>3, <1>5, <1>7, <1>8, <1>9 DEF QuizAnswered
  <1> QED
    BY <1>2, <1>8, <1>10, <1>11 DEF MAX_QUIZ_ATTEMPTS

LEMMA InitiationStepKeeps ==
  ASSUME initiation \in [Recruits -> InitiationRow], QuizVerdictStands, FileNext
  PROVE  (initiation \in [Recruits -> InitiationRow] /\ QuizVerdictStands)'
  <1>1. ASSUME UNCHANGED initiation
        PROVE  (initiation \in [Recruits -> InitiationRow] /\ QuizVerdictStands)'
    BY <1>1 DEF QuizVerdictStands
  <1>2. RequiredDocumentsController \/ SendDailyReminders => UNCHANGED initiation
    BY DEF RequiredDocumentsController, SendDailyReminders, UploadDocument, ValidateDocument,
           RejectDocument
  <1>4. \A e \in Recruits:
          /\ initiation[e] \in InitiationRow
          /\ initiation[e].quizCompleted => initiation[e].quizScore >= QUIZ_PASSING_SCORE
          /\ initiation[e].status = "failed" => initiation[e].quizAttempts >= MAX_QUIZ_ATTEMPTS
    BY DEF QuizVerdictStands
  <1>5. ASSUME NEW e \in Recruits, GetProgress(e)
        PROVE  (initiation \in [Recruits -> InitiationRow] /\ QuizVerdictStands)'
    BY <1>4, <1>5, VerdictSaved DEF GetProgress
  <1>6. ASSUME NEW e \in Recruits, NEW score \in Scores, SubmitQuiz(e, score)
        PROVE  (initiation \in [Recruits -> InitiationRow] /\ QuizVerdictStands)'
    <2>1. CASE initiation[e].quizCompleted
      BY <1>4, <1>6, <2>1, VerdictSaved DEF SubmitQuiz
    <2>2. CASE ~initiation[e].quizCompleted
      BY <1>4, <1>6, <2>2, AnswerJudged, VerdictSaved DEF SubmitQuiz
    <2> QED
      BY <2>1, <2>2
  <1>7. ASSUME NEW e \in Recruits, NEW row \in InitiationRow, Save(e, row),
               row.quizCompleted = initiation[e].quizCompleted,
               row.quizScore = initiation[e].quizScore,
               row.quizAttempts = initiation[e].quizAttempts,
               row.status # "failed" \/ row.status = initiation[e].status
        PROVE  (initiation \in [Recruits -> InitiationRow] /\ QuizVerdictStands)'
    BY <1>4, <1>7, VerdictSaved
  <1>8. \A e \in Recruits: \A step \in 0..6: Reached(initiation[e], step) \in 0..6
    BY <1>4 DEF Reached, InitiationRow
  <1>9. ASSUME NEW e \in Recruits, StartInitiation(e)
        PROVE  (initiation \in [Recruits -> InitiationRow] /\ QuizVerdictStands)'
    <2>1. PICK row: row = [initiation[e] EXCEPT !.manifestoSent = TRUE, !.currentStep = 1,
                                                !.status = "in_progress"]
      OBVIOUS
    <2>2. /\ row \in InitiationRow
          /\ row.quizCompleted = initiation[e].quizCompleted
          /\ row.quizScore = initiation[e].quizScore
          /\ row.quizAttempts = initiation[e].quizAttempts /\ row.status # "failed"
      <3>1. initiation[e] \in InitiationRow
        BY <1>4
      <3>2. PICK one: one = 1
        OBVIOUS
      <3>3. one \in 0..6
        BY <3>2
      <3>4. PICK part: part = [initiation[e] EXCEPT !.manifestoSent = TRUE, !.currentStep = one]
        OBVIOUS
      <3>5. /\ part \in InitiationRow
            /\ part.quizCompleted = initiation[e].quizCompleted
            /\ part.quizScore = initiation[e].quizScore
            /\ part.quizAttempts = initiation[e].quizAttempts
        BY ONLY <3>1, <3>3, <3>4 DEF InitiationRow
      <3>6. row = [part EXCEPT !.status = "in_progress"]
        BY ONLY <2>1, <3>2, <3>4
      <3> QED
        BY ONLY <3>5, <3>6 DEF InitiationRow
    <2> QED
      BY <1>7, <1>9, <2>1, <2>2 DEF StartInitiation
  <1>10. ASSUME NEW e \in Recruits, AssignSponsor(e)
         PROVE  (initiation \in [Recruits -> InitiationRow] /\ QuizVerdictStands)'
    <2>1. PICK step: step = Reached(initiation[e], 3)
      OBVIOUS
    <2>2. PICK row: row = [initiation[e] EXCEPT !.sponsor = TRUE, !.currentStep = step]
      OBVIOUS
    <2>3. /\ row \in InitiationRow
          /\ row.quizCompleted = initiation[e].quizCompleted
          /\ row.quizScore = initiation[e].quizScore
          /\ row.quizAttempts = initiation[e].quizAttempts /\ row.status = initiation[e].status
      <3>1. initiation[e] \in InitiationRow /\ step \in 0..6
        BY <1>4, <1>8, <2>1
      <3> QED
        BY ONLY <3>1, <2>2 DEF InitiationRow
    <2> QED
      BY <1>7, <1>10, <2>1, <2>2, <2>3 DEF AssignSponsor
  <1>11. ASSUME NEW e \in Recruits, CompleteStep(e)
         PROVE  (initiation \in [Recruits -> InitiationRow] /\ QuizVerdictStands)'
    <2>1. PICK four, five: four = Reached(initiation[e], 4) /\ five = Reached(initiation[e], 5)
      OBVIOUS
    <2>2. PICK row: /\ Save(e, row)
                    /\ \/ row = [initiation[e] EXCEPT !.teamPresentationDone = TRUE,
                                                      !.currentStep = four]
                       \/ row = [initiation[e] EXCEPT !.oathSigned = TRUE, !.currentStep = five]
                       \/ row = [initiation[e] EXCEPT !.identityElementReceived = TRUE,
                                                      !.currentStep = 6, !.status = "completed"]
      BY <1>11, <2>1 DEF CompleteStep
    <2>3. four \in 0..6 /\ five \in 0..6
      BY <1>8, <2>1
    <2>4. /\ row \in InitiationRow
          /\ row.quizCompleted = initiation[e].quizCompleted
          /\ row.quizScore = initiation[e].quizScore
          /\ row.quizAttempts = initiation[e].quizAttempts
          /\ row.status # "failed" \/ row.status = initiation[e].status
      <3>1. initiation[e] \in InitiationRow
        BY <1>4
      <3>2. CASE row = [initiation[e] EXCEPT !.teamPresentationDone = TRUE, !.currentStep = four]
        BY ONLY <3>1, <2>3, <3>2 DEF InitiationRow
      <3>3. CASE row = [initiation[e] EXCEPT !.oathSigned = TRUE, !.currentStep = five]
        BY ONLY <3>1, <2>3, <3>3 DEF InitiationRow
      <3>4. CASE row = [initiation[e] EXCEPT !.identityElementReceived = TRUE,
                                             !.currentStep = 6, !.status = "completed"]
        <4>1. PICK six: six = 6
          OBVIOUS
        <4>2. six \in 0..6
          BY <4>1
        <4>3. PICK part: part = [initiation[e] EXCEPT !.identityElementReceived = TRUE,
                                                      !.currentStep = six]
          OBVIOUS
        <4>4. /\ part \in InitiationRow
              /\ part.quizCompleted = initiation[e].quizCompleted
              /\ part.quizScore = initiation[e].quizScore
              /\ part.quizAttempts = initiation[e].quizAttempts
          BY ONLY <3>1, <4>2, <4>3 DEF InitiationRow
        <4>5. row = [part EXCEPT !.status = "completed"]
          BY ONLY <3>4, <4>1, <4>3
        <4> QED
          BY ONLY <4>4, <4>5 DEF InitiationRow
      <3> QED
        BY ONLY <2>2, <3>2, <3>3, <3>4
    <2> QED
      BY <1>7, <2>2, <2>4
  <1> QED
    BY <1>1, <1>2, <1>5, <1>6, <1>9, <1>10, <1>11 DEF FileNext, EmployeeInitiationController
EventsInv == EventsOK /\ EventsLast

\* One event is saved.
LEMMA EventSaved ==
  ASSUME EventsInv, NEW v \in Events, NEW row \in EventRow, SaveEvent(v, row),
         row.start < row.end
  PROVE  EventsInv'
  <1>1. /\ event' \in [Events -> EventRow] /\ event'[v] = row
        /\ \A w \in Events \ {v}: event'[w] = event[w]
    BY DEF EventsInv, EventsOK, SaveEvent
  <1> QED
    BY <1>1 DEF EventsInv, EventsOK, EventsLast, Known

\* The changes that leave the dates as they were.
LEMMA EventStatusSaved ==
  ASSUME EventsInv, NEW v \in Events, Known(v), NEW row \in EventRow, SaveEvent(v, row),
         row.start = event[v].start, row.end = event[v].end
  PROVE  EventsInv'
  <1>1. event[v].start < event[v].end
    BY DEF EventsInv, EventsLast
  <1> QED
    BY <1>1, EventSaved

LEMMA EventStepKeeps ==
  ASSUME EventsInv, DeskNext
  PROVE  EventsInv'
  <1>1. ASSUME UNCHANGED event
        PROVE  EventsInv'
    BY <1>1 DEF EventsInv, EventsOK, EventsLast, Known
  <1>2. TicketNext => UNCHANGED event
    <2>1. \A t \in Tickets: \A row: SaveTicket(t, row) => UNCHANGED event
      BY DEF SaveTicket, eventVars
    <2> QED
      BY <2>1, Zenon DEF TicketNext, CreateTicket, AssignTicket, RateTicket, UpdateStatus, AddComment
  <1>3. RitualNext => UNCHANGED event
    BY DEF RitualNext, DayPasses, GenerateOccurrences, SetOccurrence, eventVars
  <1>4. \A v \in Events: event[v] \in EventRow
    BY DEF EventsInv, EventsOK
  <1>5. ASSUME NEW v \in Events, NEW status \in {"DRAFT", "PUBLISHED"},
               NEW start \in EventDays, NEW end \in EventDays, CreateEvent(v, status, start, end)
        PROVE  EventsInv'
    <2>1. event[v] \in EventRow
      BY <1>4
    <2>2. PICK row: row = [event[v] EXCEPT !.status = status, !.start = start, !.end = end]
      OBVIOUS
    <2>3. row \in EventRow /\ row.start = start /\ row.end = end
      BY ONLY <2>1, <2>2, status \in {"DRAFT", "PUBLISHED"}, start \in EventDays,
              end \in EventDays DEF EventRow
    <2> QED
      BY <1>5, <2>2, <2>3, EventSaved DEF CreateEvent
  <1>6. ASSUME NEW v \in Events, NEW start \in EventDays, NEW end \in EventDays,
               UpdateEvent(v, start, end)
        PROVE  EventsInv'
    <2>1. event[v] \in EventRow
      BY <1>4
    <2>2. PICK row: row = [event[v] EXCEPT !.start = start, !.end = end]
      OBVIOUS
    <2>3. row \in EventRow /\ row.start = start /\ row.end = end
      BY ONLY <2>1, <2>2, start \in EventDays, end \in EventDays DEF EventRow
    <2> QED
      BY <1>6, <2>2, <2>3, EventSaved DEF UpdateEvent
  <1>7. ASSUME NEW v \in Events, NEW status \in {"DRAFT", "PUBLISHED", "CANCELLED", "COMPLETED"},
               Known(v), SaveEvent(v, [event[v] EXCEPT !.status = status])
        PROVE  EventsInv'
    <2>1. event[v] \in EventRow
      BY <1>4
    <2>2. PICK row: row = [event[v] EXCEPT !.status = status]
      OBVIOUS
    <2>3. row \in EventRow /\ row.start = event[v].start /\ row.end = event[v].end
      BY ONLY <2>1, <2>2, status \in {"DRAFT", "PUBLISHED", "CANCELLED", "COMPLETED"} DEF EventRow
    <2> QED
      BY <1>7, <2>2, <2>3, EventStatusSaved
  <1>8. ASSUME NEW v \in Events, PublishEvent(v)
        PROVE  EventsInv'
    <2>1. event[v] \in EventRow
      BY <1>4
    <2>2. PICK heard: heard = (event[v].announced \/ event[v].status # "PUBLISHED")
      OBVIOUS
    <2>3. heard \in BOOLEAN
      BY <2>2
    <2>4. PICK row: row = [[event[v] EXCEPT !.announced = heard] EXCEPT !.status = "PUBLISHED"]
      OBVIOUS
    <2>5. row \in EventRow /\ row.start = event[v].start /\ row.end = event[v].end
      BY ONLY <2>1, <2>3, <2>4 DEF EventRow
    <2>6. Known(v) /\ SaveEvent(v, row)
      BY <1>8, <2>2, <2>4 DEF PublishEvent, NotifyParticipants
    <2> QED
      BY <2>5, <2>6, EventStatusSaved
  <1>9. ASSUME NEW v \in Events, DeleteEvent(v)
        PROVE  EventsInv'
    <2>1. event[v] \in EventRow
      BY <1>4
    <2>2. PICK row: row = [event[v] EXCEPT !.deleted = TRUE]
      OBVIOUS
    <2>3. row \in EventRow /\ row.start = event[v].start /\ row.end = event[v].end
      BY ONLY <2>1, <2>2 DEF EventRow
    <2> QED
      BY <1>9, <2>2, <2>3, EventStatusSaved DEF DeleteEvent
  <1> QED
    BY <1>1, <1>2, <1>3, <1>5, <1>6, <1>7, <1>8, <1>9
       DEF DeskNext, EventNext, UpdateEventStatus, CancelEvent, CompleteEvent
-----------------------------------------------------------------------------
(* Scores of evaluations *)

\* the result lies between the lowest and the highest of the points, when no weight it was
\* made with is negative
Averages(row) ==
  row.weights > 0 /\ (\A k \in DOMAIN row.of: row.by[k] >= 0) =>
    /\ \E k \in DOMAIN row.of: row.of[k] * row.weights <= row.sum
    /\ \E k \in DOMAIN row.of: row.of[k] * row.weights >= row.sum
    /\ \E k \in DOMAIN row.of: row.of[k] <= row.levelPoints
    /\ \E k \in DOMAIN row.of: row.of[k] >= row.levelPoints

WeightsOK == weight \in OfKpis(Weights)

EvaluationsOK == evaluation \in [Rated -> [Months -> EvaluationRow]]

EvaluationInv == WeightsOK /\ EvaluationsOK /\ ScoreIsAnAverage

LEMMA EvaluatedAverages ==
  ASSUME WeightsOK, NEW scored \in SUBSET Kpis, NEW points \in [scored -> Points]
  PROVE  Evaluated(scored, points) \in EvaluationRow /\ Averages(Evaluated(scored, points))
  <1> DEFINE factor == [k \in scored |-> WeightOf(k)]
  <1>1. /\ IsFiniteSet(scored)
        /\ points \in [scored -> Int]
        /\ factor \in [scored -> AllWeights] /\ factor \in [scored -> Int]
    <2>1. IsFiniteSet(scored)
      BY FS_Subset, EvaluationAssumption
    <2>2. \A k \in DOMAIN weight: weight[k] \in Weights
      BY DEF WeightsOK, OfKpis
    <2>3. \A k \in scored: WeightOf(k) \in AllWeights /\ WeightOf(k) \in Int
      BY <2>2, EvaluationAssumption DEF WeightOf, AllWeights
    <2> QED
      BY <2>1, <2>3, EvaluationAssumption
  <1> DEFINE sum == SumFunction([k \in scored |-> points[k] * factor[k]])
             weights == SumFunction(factor)
             rounded == IF weights > 0 THEN Rounded(sum, weights) ELSE 0
  <1>2. sum \in Int /\ weights \in Int
    <2>1. [k \in scored |-> points[k] * factor[k]] \in [scored -> Int]
      BY <1>1
    <2> HIDE DEF factor
    <2> QED
      BY <1>1, <2>1, SumIsInteger
  <1>3. PICK row: row = [status |-> "draft", of |-> points, by |-> factor, sum |-> sum, weights |-> weights,
                         level |-> IF weights > 0 THEN DetermineLevel(sum, weights)
                                   ELSE "CRITIQUE",
                         levelPoints |-> rounded, bonus |-> rounded >= BonusFloor]
    OBVIOUS
  <1>4. row = Evaluated(scored, points)
    <2>1. [k \in scored |-> points[k] * factor[k]] = [k \in scored |-> points[k] * WeightOf(k)]
      OBVIOUS
    <2> QED
      BY <1>3, <2>1 DEF Evaluated, TotalWeight
  <1>5. row.of = points /\ row.by = factor /\ row.sum = sum /\ row.weights = weights /\ row.levelPoints = rounded
    BY <1>3
  <1>6. rounded \in Int
    <2> HIDE DEF sum, weights
    <2>1. CASE weights > 0
      <3>1. PICK a \in Int, b \in Nat \ {0}: a = 2 * sum + weights /\ b = 2 * weights
        BY <1>2, <2>1
      <3> QED
        BY <2>1, <3>1, QuotientIs DEF Rounded
    <2>2. CASE ~(weights > 0)
      BY <2>2
    <2> QED
      BY <2>1, <2>2
  <1>7. Averages(row)
    <2>1. CASE weights > 0 /\ \A k \in scored: factor[k] >= 0
      <3>0. factor \in [scored -> Nat]
        <4> HIDE DEF factor
        <4> QED
          BY <1>1, <2>1
      <3>1. scored # {}
        <4>1. scored = {} => DOMAIN factor = {}
          OBVIOUS
        <4> HIDE DEF factor
        <4> QED
          BY <2>1, <4>1, SumOfNone
      <3>2. PICK l \in scored: \A k \in scored: points[l] <= points[k]
        BY <1>1, <3>1, HasLowest
      <3>3. PICK h \in scored: \A k \in scored: points[k] <= points[h]
        BY <1>1, <3>1, HasHighest
      <3>4. points[l] \in Int /\ points[h] \in Int
        BY <1>1
      <3> HIDE DEF factor
      <3>5. points[l] * weights <= sum /\ sum <= points[h] * weights
        BY <1>1, <3>0, <3>2, <3>3, <3>4, WeightedSumLies
      <3> HIDE DEF sum, weights
      <3>6. Rounded(sum, weights) \in points[l]..points[h]
        BY <1>2, <2>1, <3>4, <3>5, RoundedLies DEF Rounded
      <3>7. rounded = Rounded(sum, weights)
        BY <2>1
      <3>8. points[l] <= rounded /\ rounded <= points[h]
        BY <3>4, <3>6, <3>7
      <3>9. l \in DOMAIN row.of /\ h \in DOMAIN row.of
        BY <1>5
      <3> HIDE DEF rounded
      <3> QED
        BY <1>2, <1>5, <3>4, <3>5, <3>8, <3>9 DEF Averages
    <2>2. CASE ~(weights > 0 /\ \A k \in scored: factor[k] >= 0)
      <3> HIDE DEF factor
      <3>1. DOMAIN row.of = scored
        BY <1>5
      <3> HIDE DEF sum, weights, rounded
      <3> QED
        BY <1>5, <2>2, <3>1 DEF Averages
    <2> QED
      BY <2>1, <2>2
  <1>8. row \in EvaluationRow
    <2> HIDE DEF factor, sum, weights, rounded
    <2>1. DetermineLevel(sum, weights) \in Levels
      BY DEF DetermineLevel, Levels
    <2>3. "CRITIQUE" \in Levels
      BY DEF Levels
    <2>4. points \in OfKpis(Points) /\ factor \in OfKpis(AllWeights)
      BY <1>1 DEF OfKpis
    <2>5. (rounded >= BonusFloor) \in BOOLEAN
      OBVIOUS
    <2> QED
      BY <1>2, <1>3, <1>6, <2>1, <2>3, <2>4 DEF EvaluationRow
  <1> QED
    BY <1>4, <1>7, <1>8

LEMMA EvaluationSaved ==
  ASSUME EvaluationsOK, ScoreIsAnAverage, NEW e \in Rated, NEW m \in Months,
         NEW row \in EvaluationRow, Averages(row),
         evaluation' = [evaluation EXCEPT ![e][m] = row]
  PROVE  EvaluationsOK' /\ ScoreIsAnAverage'
  <1>1. /\ EvaluationsOK' /\ evaluation'[e][m] = row
        /\ \A f \in Rated, n \in Months: f # e \/ n # m => evaluation'[f][n] = evaluation[f][n]
    BY DEF EvaluationsOK
  <1>2. \A f \in Rated, n \in Months: Averages(evaluation[f][n])
    BY DEF ScoreIsAnAverage, Averages
  <1>3. \A f \in Rated, n \in Months: Averages(evaluation'[f][n])
    BY <1>1, <1>2
  <1> QED
    BY <1>1, <1>3 DEF ScoreIsAnAverage, Averages

LEMMA EvaluationStepKeeps ==
  ASSUME EvaluationInv, EvaluationNext
  PROVE  EvaluationInv'
  <1>1. \A e \in Rated, m \in Months: evaluation[e][m] \in EvaluationRow
                                      /\ Averages(evaluation[e][m])
    BY DEF EvaluationInv, EvaluationsOK, ScoreIsAnAverage, Averages
  <1>2. ASSUME UNCHANGED evaluation
        PROVE  EvaluationsOK' /\ ScoreIsAnAverage'
    BY <1>2 DEF EvaluationInv, EvaluationsOK, ScoreIsAnAverage
  <1>3. ASSUME NEW k \in Kpis, NEW w \in Weights, SetKpiWeight(k, w)
        PROVE  EvaluationInv'
    <2>1. WeightsOK'
      <3>1. PICK some \in SUBSET Kpis: weight \in [some -> Weights]
        BY DEF EvaluationInv, WeightsOK, OfKpis
      <3>2. weight' \in [some \cup {k} -> Weights] /\ some \cup {k} \in SUBSET Kpis
        BY <1>3, <3>1 DEF SetKpiWeight
      <3> QED
        BY <3>2 DEF WeightsOK, OfKpis
    <2> QED
      BY <1>2, <1>3, <2>1 DEF SetKpiWeight, EvaluationInv
  <1>4. ASSUME NEW e \in Rated, NEW m \in Months, NEW scored \in SUBSET Kpis,
               NEW points \in [scored -> Points], CreateEvaluation(e, m, scored, points)
        PROVE  EvaluationInv'
    <2>1. WeightsOK'
      BY <1>4 DEF CreateEvaluation, EvaluationInv, WeightsOK
    <2> QED
      BY <1>4, <2>1, EvaluatedAverages, EvaluationSaved DEF CreateEvaluation, EvaluationInv
  <1>5. ASSUME NEW e \in Rated, NEW m \in Months,
               NEW status \in {"submitted", "validated", "contested"}, SetStatus(e, m, status)
        PROVE  EvaluationInv'
    <2>1. PICK row: row = [evaluation[e][m] EXCEPT !.status = status]
      OBVIOUS
    <2>2. evaluation[e][m] \in EvaluationRow
      BY <1>1
    <2>3. /\ row \in EvaluationRow
          /\ row.of = evaluation[e][m].of /\ row.by = evaluation[e][m].by
          /\ row.sum = evaluation[e][m].sum /\ row.weights = evaluation[e][m].weights
          /\ row.levelPoints = evaluation[e][m].levelPoints
      BY ONLY <2>1, <2>2, status \in {"submitted", "validated", "contested"} DEF EvaluationRow
    <2>4. Averages(row)
      BY <1>1, <2>3 DEF Averages
    <2>5. evaluation' = [evaluation EXCEPT ![e][m] = row]
      BY <1>5, <2>1 DEF SetStatus
    <2>6. WeightsOK'
      BY <1>5 DEF SetStatus, EvaluationInv, WeightsOK
    <2> QED
      BY <2>3, <2>4, <2>5, <2>6, EvaluationSaved DEF EvaluationInv
  <1>6. PerformanceReviewController => UNCHANGED <<weight, evaluation>>
    BY DEF PerformanceReviewController, CreateReview, ChangeReview, SetReview
  <1> QED
    BY <1>2, <1>3, <1>4, <1>5, <1>6
       DEF EvaluationNext, EvaluationController, SubmitEvaluation, ValidateEvaluation,
           ContestEvaluation, EvaluationInv, WeightsOK
-----------------------------------------------------------------------------
(* Balances of timesheets *)

\* a departure is never recorded without an arrival
TimesheetInv ==
  /\ timesheet \in Timesheet
  /\ \A d \in SheetDays: Row(d).out # NoTime => Row(d).in # NoTime

LEMMA MinutesAre ==
  ASSUME TimesheetInv
  PROVE  /\ ScheduledDay \in Nat
         /\ \A d \in SheetDays: Scheduled(d) \in Nat /\ Worked(d) \in Nat /\ Diff(d) \in Int
  <1>1. \A x \in Int: NotNegative(x) \in Nat
    BY DEF NotNegative
  <1>2. Punches \subseteq Int
    BY SheetAssumption DEF Punches, NoTime
  <1>3. timesheet.start \in Int /\ timesheet.end \in Int
    BY <1>2 DEF TimesheetInv, Timesheet
  <1>4. \A d \in SheetDays: Row(d).in \in Int /\ Row(d).out \in Int
    BY <1>2 DEF TimesheetInv, Timesheet, Row
  <1>5. ScheduledDay \in Nat
    BY <1>1, <1>3 DEF ScheduledDay
  <1>6. \A d \in SheetDays: Scheduled(d) \in Nat
    BY <1>5 DEF Scheduled
  <1>7. \A d \in SheetDays: Worked(d) \in Nat
    BY <1>1, <1>4 DEF Worked
  <1> QED
    BY <1>5, <1>6, <1>7 DEF Diff

\* Day by day, with a schedule.
LEMMA DayBalances ==
  ASSUME TimesheetInv, HasSchedule, NEW d \in SheetDays
  PROVE  NotNegative(Diff(d)) + Scheduled(d) =
           Worked(d) + (IF Incomplete(d) THEN Scheduled(d) ELSE 0) + NotNegative(0 - Diff(d))
  <1>1. Scheduled(d) \in Nat /\ Worked(d) \in Nat /\ Diff(d) \in Int
    BY MinutesAre
  <1>2. NotNegative(Diff(d)) = NotNegative(0 - Diff(d)) + Diff(d)
    BY <1>1 DEF NotNegative
  <1>3. NotNegative(0 - Diff(d)) \in Nat
    BY <1>1 DEF NotNegative
  <1>4. SUFFICES Diff(d) + Scheduled(d) =
                   Worked(d) + (IF Incomplete(d) THEN Scheduled(d) ELSE 0)
    BY <1>1, <1>2, <1>3
  <1>5. CASE Complete(d)
    BY <1>1, <1>5 DEF Complete, Incomplete, Diff
  <1>6. CASE Absent(d)
    <2>1. ~Complete(d) /\ ~Incomplete(d) /\ Worked(d) = 0
      BY <1>6 DEF Complete, Absent, Incomplete, Worked
    <2>2. ~Row(d).worked => Scheduled(d) = 0
      BY DEF Scheduled
    <2> QED
      BY <1>1, <1>6, <2>1, <2>2 DEF Diff
  <1>7. CASE Incomplete(d)
    BY <1>1, <1>7 DEF Complete, Absent, Incomplete, Diff, Worked
  <1> QED
    BY <1>5, <1>6, <1>7 DEF TimesheetInv, Complete, Absent, Incomplete

LEMMA TimesheetBalances ==
  ASSUME TimesheetInv
  PROVE  OvertimeBalances
  <1> SUFFICES ASSUME HasSchedule
               PROVE  TotalOvertime - TotalDeficit = TotalWorked - (TotalScheduled
                        - SumFunction([d \in SheetDays |->
                                         IF Incomplete(d) THEN Scheduled(d) ELSE 0]))
    BY DEF OvertimeBalances
  <1> DEFINE over    == [d \in SheetDays |-> NotNegative(Diff(d))]
             under   == [d \in SheetDays |-> NotNegative(0 - Diff(d))]
             worked  == [d \in SheetDays |-> Worked(d)]
             planned == [d \in SheetDays |-> Scheduled(d)]
             aside   == [d \in SheetDays |-> IF Incomplete(d) THEN Scheduled(d) ELSE 0]
             known   == [d \in SheetDays |-> worked[d] + aside[d]]
             left    == [d \in SheetDays |-> over[d] + planned[d]]
             right   == [d \in SheetDays |-> known[d] + under[d]]
  <1>1. IsFiniteSet(SheetDays)
    BY SheetAssumption
  <1>2. \A d \in SheetDays: /\ Scheduled(d) \in Nat /\ Worked(d) \in Nat
                            /\ NotNegative(Diff(d)) \in Nat /\ NotNegative(0 - Diff(d)) \in Nat
    BY MinutesAre DEF NotNegative
  <1>3. /\ over \in [SheetDays -> Int] /\ under \in [SheetDays -> Int]
        /\ worked \in [SheetDays -> Int] /\ planned \in [SheetDays -> Int]
        /\ aside \in [SheetDays -> Int]
    BY <1>2
  <1>4. \A d \in SheetDays: over[d] + planned[d] = worked[d] + aside[d] + under[d]
    BY DayBalances
  <1> HIDE DEF over, under, worked, planned, aside
  <1>5. known \in [SheetDays -> Int] /\ left \in [SheetDays -> Int] /\ right \in [SheetDays -> Int]
    BY <1>3
  <1>6. left = right
    BY <1>3, <1>4
  <1>7. /\ \A d \in SheetDays: known[d] = worked[d] + aside[d]
        /\ \A d \in SheetDays: left[d] = over[d] + planned[d]
        /\ \A d \in SheetDays: right[d] = known[d] + under[d]
    OBVIOUS
  <1> HIDE DEF known, left, right
  <1>8. /\ SumFunction(known) = SumFunction(worked) + SumFunction(aside)
        /\ SumFunction(left) = SumFunction(over) + SumFunction(planned)
        /\ SumFunction(right) = SumFunction(known) + SumFunction(under)
    BY <1>1, <1>3, <1>5, <1>7, SumsAddUp
  <1>9. /\ SumFunction(worked) \in Int /\ SumFunction(aside) \in Int
        /\ SumFunction(over) \in Int /\ SumFunction(planned) \in Int
        /\ SumFunction(under) \in Int
    BY <1>1, <1>3, SumIsInteger
  <1>10. SumFunction(over) - SumFunction(under)
           = SumFunction(worked) - (SumFunction(planned) - SumFunction(aside))
    BY <1>6, <1>8, <1>9
  <1> QED
    BY <1>10 DEF TotalOvertime, TotalDeficit, TotalWorked, TotalScheduled,
                 over, under, worked, planned, aside

-----------------------------------------------------------------------------
(* The results a person is judged on *)

ResultsInv ==
  /\ EvaluationInv
  /\ TimesheetInv
  /\ initiation \in [Recruits -> InitiationRow] /\ QuizVerdictStands
  /\ EventsInv

LEMMA ResultsInitially ==
  ASSUME StaffInit
  PROVE  ResultsInv
  <1>1. initiation \in [Recruits -> InitiationRow] /\ QuizVerdictStands
    BY DEF StaffInit, FileInit, NoInitiation, InitiationRow, QuizVerdictStands, MAX_QUIZ_ATTEMPTS
  <1>2. EventsInv
    <2>1. PICK d \in EventDays: d = CHOOSE x \in EventDays: TRUE
      BY DeskAssumption
    <2>2. event = [v \in Events |-> [status |-> "none", start |-> d, end |-> d,
                                     announced |-> FALSE, deleted |-> FALSE]]
      BY <2>1 DEF StaffInit, DeskInit
    <2> QED
      BY <2>2 DEF EventsInv, EventsOK, EventRow, EventsLast, Known
  <1>3. EvaluationInv
    <2>1. NoEvaluation.weights = 0
      BY DEF NoEvaluation
    <2>2. NoEvaluation \in EvaluationRow
      <3>1. /\ [k \in {} |-> 0] \in [{} -> Points] /\ [k \in {} |-> 0] \in [{} -> AllWeights]
            /\ {} \in SUBSET Kpis
        OBVIOUS
      <3>2. [k \in {} |-> 0] \in OfKpis(Points) /\ [k \in {} |-> 0] \in OfKpis(AllWeights)
        BY <3>1 DEF OfKpis
      <3> QED
        BY <3>2 DEF NoEvaluation, EvaluationRow, Levels
    <2>3. evaluation = [e \in Rated |-> [m \in Months |-> NoEvaluation]]
          /\ weight = [k \in {} |-> 0]
      BY DEF StaffInit, EvaluationInit
    <2>4. ScoreIsAnAverage
      BY <2>1, <2>3 DEF ScoreIsAnAverage
    <2> QED
      <3>1. weight \in [{} -> Weights] /\ {} \in SUBSET Kpis
        BY <2>3
      <3> QED
        BY <2>2, <2>3, <2>4, <3>1 DEF EvaluationInv, WeightsOK, OfKpis, EvaluationsOK
  <1>4. TimesheetInv
    <2>1. CASE focus # "overtime"
      <3>1. PICK rows: rows = [d \in SheetDays |-> [worked |-> FALSE, in |-> NoTime,
                                                    out |-> NoTime]]
        OBVIOUS
      <3>2. timesheet = [start |-> NoTime, end |-> NoTime, rows |-> rows]
        BY <2>1, <3>1 DEF StaffInit, OvertimeInit
      <3> QED
        BY <3>1, <3>2 DEF TimesheetInv, Timesheet, Row, Punches
    <2>2. CASE focus = "overtime"
      BY <2>2 DEF StaffInit, OvertimeInit, TimesheetInv, Row
    <2> QED
      BY <2>1, <2>2
  <1> QED
    BY <1>1, <1>2, <1>3, <1>4 DEF ResultsInv

LEMMA ResultsStepKeeps ==
  ASSUME ResultsInv, [StaffNext]_<<staffVars, call, focus>>
  PROVE  ResultsInv'
  <1>1. EvaluationInv'
    <2>1. EvaluationNext \/ UNCHANGED evaluationVars
      BY DEF StaffNext, staffVars
    <2>2. CASE UNCHANGED evaluationVars
      BY <2>2 DEF ResultsInv, EvaluationInv, WeightsOK, EvaluationsOK, ScoreIsAnAverage, evaluationVars
    <2> QED
      BY <2>1, <2>2, EvaluationStepKeeps DEF ResultsInv
  <1>2. TimesheetInv'
    <2>1. UNCHANGED timesheet
      BY DEF StaffNext, staffVars
    <2> QED
      BY <2>1 DEF ResultsInv, TimesheetInv, Row
  <1>3. (initiation \in [Recruits -> InitiationRow] /\ QuizVerdictStands)'
    <2>1. FileNext \/ UNCHANGED initiation
      BY DEF StaffNext, staffVars, fileVars
    <2>2. CASE UNCHANGED initiation
      BY <2>2 DEF ResultsInv, QuizVerdictStands
    <2> QED
      BY <2>1, <2>2, InitiationStepKeeps DEF ResultsInv
  <1>4. EventsInv'
    <2>1. DeskNext \/ UNCHANGED event
      BY DEF StaffNext, staffVars, deskVars, eventVars
    <2>2. CASE UNCHANGED event
      BY <2>2 DEF ResultsInv, EventsInv, EventsOK, EventsLast, Known
    <2> QED
      BY <2>1, <2>2, EventStepKeeps DEF ResultsInv
  <1> QED
    BY <1>1, <1>2, <1>3, <1>4 DEF ResultsInv

\* The results a person is judged on add up, however many indicators, days, attempts and
\* changes of date there are: the score of a month lies between the points it is made of
\* unless a weight it was made with is negative, the balance of a timesheet is what was
\* worked less what was due, a quiz is passed or failed as its score and its attempts say,
\* and every event ends after it starts.
THEOREM ResultsStand ==
  StaffSpec => []ResultsAddUp
  <1>1. StaffInit => ResultsInv
    BY ResultsInitially
  <1>2. ResultsInv /\ [StaffNext]_<<staffVars, call, focus>> => ResultsInv'
    BY ResultsStepKeeps
  <1>3. ResultsInv => ResultsAddUp
    BY TimesheetBalances DEF ResultsInv, EvaluationInv, EventsInv, ResultsAddUp
  <1> QED
    BY <1>1, <1>2, <1>3, PTL DEF StaffSpec
-----------------------------------------------------------------------------
(* Types: what a step of a component makes of well-formed rows and calls is well formed *)

\* A call that goes to a well-formed next state.
LEMMA CallTyped ==
  ASSUME NEW T, call \in [Clients -> T], NEW c \in Clients, NEW next \in T, Goto(c, next)
  PROVE  call' \in [Clients -> T]
  BY DEF Goto

LEMMA LeaveTypedInitially ==
  ASSUME LeaveInit, call = [c \in Clients |-> Idle]
  PROVE  LeaveTypeOK
  <1>1. NoRequest \in RequestRow
    BY LeaveAssumption DEF NoRequest, RequestRow, LeaveStatuses
  <1>2. 1 \in 1..Weeks
    BY LeaveAssumption
  <1>3. call \in [Clients -> LeaveCall]
    BY DEF LeaveCall
  <1> QED
    BY <1>1, <1>2, <1>3 DEF LeaveInit, LeaveTypeOK

LEMMA RequestStepTyped ==
  ASSUME LeaveTypeOK, focus = "leave", UNCHANGED focus, NEW c \in Clients, RequestStep(c)
  PROVE  LeaveTypeOK'
  <1>1. call \in [Clients -> LeaveCall] /\ call[c] \in LeaveCall
    BY DEF LeaveTypeOK
  <1>2. ASSUME NEW next \in LeaveCall, Goto(c, next), UNCHANGED leaveVars
        PROVE  LeaveTypeOK'
    BY <1>1, <1>2, CallTyped DEF LeaveTypeOK, leaveVars
  <1>3. ASSUME NEW days \in Lengths, NEW year \in Years, NEW joker \in BOOLEAN,
               BeginCreate(c, days, year, joker)
        PROVE  LeaveTypeOK'
    <2>1. [at |-> "create", days |-> days, year |-> year, joker |-> joker] \in LeaveCall
      BY DEF LeaveCall
    <2> QED
      BY <1>2, <1>3, <2>1 DEF BeginCreate
  <1>4. ASSUME NEW r \in Requests, InsertRequest(c, r)
        PROVE  LeaveTypeOK'
    <2>1. call[c] \in [at: {"create"}, days: Lengths, year: Years, joker: BOOLEAN]
      BY <1>1, <1>4 DEF InsertRequest, LeaveCall, Idle
    <2>2. [status |-> "pending", days |-> call[c].days, year |-> call[c].year,
           joker |-> call[c].joker, week |-> week] \in RequestRow
      BY <2>1, LeaveAssumption DEF RequestRow, LeaveStatuses, LeaveTypeOK
    <2>3. request' \in [Requests -> RequestRow]
      BY <1>4, <2>2 DEF InsertRequest, LeaveTypeOK
    <2>4. call' \in [Clients -> LeaveCall]
      BY <1>1, <1>4, CallTyped DEF InsertRequest, Return, LeaveCall
    <2> QED
      BY <1>4, <2>3, <2>4 DEF InsertRequest, LeaveTypeOK
  <1>5. ASSUME NEW r \in Requests, NEW at \in {"approve", "reject", "cancel"},
               Goto(c, [at |-> at, request |-> r]), UNCHANGED leaveVars
        PROVE  LeaveTypeOK'
    <2>1. [at |-> at, request |-> r] \in LeaveCall
      BY DEF LeaveCall
    <2> QED
      BY <1>2, <1>5, <2>1
  <1>6. ASSUME WriteStatus(c)
        PROVE  LeaveTypeOK'
    <2> DEFINE r == call[c].request
    <2>1. call[c] \in [at: {"approve", "reject", "cancel"}, request: Requests]
      BY <1>1, <1>6 DEF WriteStatus, LeaveCall, Idle
    <2>2. r \in Requests /\ StatusAfter(call[c].at) \in LeaveStatuses
      BY <2>1 DEF StatusAfter, LeaveStatuses
    <2>3. [request[r] EXCEPT !.status = StatusAfter(call[c].at)] \in RequestRow
      BY <2>2 DEF RequestRow, LeaveTypeOK
    <2>4. request' \in [Requests -> RequestRow]
      BY <1>6, <2>2, <2>3 DEF WriteStatus, LeaveTypeOK
    <2>5. call' \in [Clients -> LeaveCall]
      BY <1>1, <1>6, CallTyped DEF WriteStatus, Return, LeaveCall
    <2> QED
      BY <1>6, <2>4, <2>5 DEF WriteStatus, LeaveTypeOK
  <1>7. ASSUME NEW r \in Requests, NEW decision \in {"approve", "reject"}, BeginDecide(c, r, decision)
        PROVE  LeaveTypeOK'
    BY <1>5, <1>7 DEF BeginDecide
  <1>8. ASSUME NEW r \in Requests, BeginCancelLeave(c, r)
        PROVE  LeaveTypeOK'
    BY <1>5, <1>8 DEF BeginCancelLeave
  <1> QED
    BY <1>3, <1>4, <1>6, <1>7, <1>8 DEF RequestStep

LEMMA DeductionStepTyped ==
  ASSUME LeaveTypeOK, focus = "leave", UNCHANGED focus, NEW c \in Clients, DeductionStep(c)
  PROVE  LeaveTypeOK'
  <1>1. call \in [Clients -> LeaveCall] /\ call[c] \in LeaveCall
    BY DEF LeaveTypeOK
  <1>2. ASSUME NEW next \in LeaveCall, Goto(c, next), UNCHANGED leaveVars
        PROVE  LeaveTypeOK'
    BY <1>1, <1>2, CallTyped DEF LeaveTypeOK, leaveVars
  <1>3. ASSUME NEW records \in SUBSET Records, BeginApply(c, records)
        PROVE  LeaveTypeOK'
    <2>1. Eligible(records) \in SUBSET Records
      BY DEF Eligible
    <2>2. [at |-> "apply", records |-> Eligible(records)] \in LeaveCall
      BY <2>1 DEF LeaveCall
    <2> QED
      BY <1>2, <1>3, <2>2 DEF BeginApply
  <1>4. ASSUME WriteDeduction(c)
        PROVE  LeaveTypeOK'
    <2>1. call[c].records \in SUBSET Records
      BY <1>1, <1>4 DEF WriteDeduction, LeaveCall, Idle
    <2>2. Entries(call[c].records) \in Seq(LeaveEntry)
      BY <2>1, EntriesOfRecords DEF LeaveTypeOK
    <2>3. history' \in Seq(LeaveEntry)
      BY <1>4, <2>2 DEF WriteDeduction, LeaveTypeOK
    <2>4. deducted' \in SUBSET Records
      BY <1>4, <2>1 DEF WriteDeduction, LeaveTypeOK
    <2>5. call' \in [Clients -> LeaveCall]
      BY <1>1, <1>4, CallTyped DEF WriteDeduction, Return, LeaveCall
    <2> QED
      BY <1>4, <2>3, <2>4, <2>5 DEF WriteDeduction, LeaveTypeOK
  <1>5. ASSUME NEW r \in Records, BeginUndo(c, r)
        PROVE  LeaveTypeOK'
    <2>1. LastAppliedDays(r) \in Int
      BY LastAppliedIsInt DEF LeaveTypeOK
    <2>2. [at |-> "undo", record |-> r, days |-> LastAppliedDays(r)] \in LeaveCall
      BY <2>1 DEF LeaveCall
    <2> QED
      BY <1>2, <1>5, <2>2 DEF BeginUndo
  <1>6. ASSUME WriteUndo(c)
        PROVE  LeaveTypeOK'
    <2>1. call[c].record \in Records /\ call[c].days \in Int
      BY <1>1, <1>6 DEF WriteUndo, LeaveCall, Idle
    <2>2. [record |-> call[c].record, days |-> - call[c].days, cancels |-> TRUE] \in LeaveEntry
      BY <2>1 DEF LeaveEntry
    <2>3. history' \in Seq(LeaveEntry)
      BY <1>6, <2>2 DEF WriteUndo, LeaveTypeOK
    <2>4. deducted' \in SUBSET Records
      BY <1>6 DEF WriteUndo, LeaveTypeOK
    <2>5. call' \in [Clients -> LeaveCall]
      BY <1>1, <1>6, CallTyped DEF WriteUndo, Return, LeaveCall
    <2> QED
      BY <1>6, <2>3, <2>4, <2>5 DEF WriteUndo, LeaveTypeOK
  <1> QED
    BY <1>3, <1>4, <1>5, <1>6 DEF DeductionStep

LEMMA LeaveStepTyped ==
  ASSUME LeaveTypeOK, focus = "leave", UNCHANGED focus, LeaveNext
  PROVE  LeaveTypeOK'
  <1>1. ASSUME NextWeek
        PROVE  LeaveTypeOK'
    BY <1>1, LeaveAssumption DEF NextWeek, LeaveTypeOK
  <1>2. ASSUME NEW r \in Requests, DeleteRequest(r)
        PROVE  LeaveTypeOK'
    <2>1. [request[r] EXCEPT !.status = "deleted"] \in RequestRow
      BY DEF LeaveTypeOK, RequestRow
    <2> QED
      BY <1>2, <2>1 DEF DeleteRequest, LeaveTypeOK
  <1> QED
    BY <1>1, <1>2, RequestStepTyped, DeductionStepTyped DEF LeaveNext
\* One field of a row of a table changes, and the row stays one of the table.
LEMMA DocumentFields ==
  ASSUME NEW row \in DocumentRow
  PROVE  /\ \A x \in {"none", "pending", "uploaded", "validated", "rejected"}:
              [row EXCEPT !.status = x] \in DocumentRow
         /\ \A x \in BOOLEAN: [row EXCEPT !.filled = x] \in DocumentRow
         /\ \A x \in {"never", "today", "before"}: [row EXCEPT !.reminded = x] \in DocumentRow
  BY DEF DocumentRow

LEMMA JournalFields ==
  ASSUME NEW row \in JournalRow
  PROVE  /\ \A x \in BOOLEAN: [row EXCEPT !.exists = x] \in JournalRow
         /\ \A x \in BOOLEAN: [row EXCEPT !.generated = x] \in JournalRow
         /\ \A x \in BOOLEAN: [row EXCEPT !.reviewed = x] \in JournalRow
  BY DEF JournalRow

LEMMA TicketFields ==
  ASSUME NEW row \in TicketRow
  PROVE  /\ \A x \in TicketStatus: [row EXCEPT !.status = x] \in TicketRow
         /\ \A x \in BOOLEAN: [row EXCEPT !.assigned = x] \in TicketRow
         /\ \A x \in BOOLEAN: [row EXCEPT !.answered = x] \in TicketRow
         /\ \A x \in BOOLEAN: [row EXCEPT !.resolvedBy = x] \in TicketRow
         /\ \A x \in BOOLEAN: [row EXCEPT !.rated = x] \in TicketRow
  BY DEF TicketRow

LEMMA FileStepTyped ==
  ASSUME FileTypeOK, FileNext, initiation' \in [Recruits -> InitiationRow]
  PROVE  FileTypeOK'
  <1>1. ASSUME NEW e \in Recruits, NEW d \in Documents, NEW row \in DocumentRow,
               document' = [document EXCEPT ![e][d] = row]
        PROVE  FileTypeOK'
    BY <1>1 DEF FileTypeOK
  <1>2. ASSUME NEW e \in Recruits,
               \/ GetProgress(e) \/ StartInitiation(e) \/ AssignSponsor(e) \/ CompleteStep(e)
               \/ \E score \in Scores: SubmitQuiz(e, score)
        PROVE  FileTypeOK'
    <2>1. \A row: Save(e, row) => UNCHANGED document
      BY DEF Save
    <2>2. UNCHANGED document
      BY <1>2, <2>1, Zenon DEF GetProgress, StartInitiation, AssignSponsor, CompleteStep, SubmitQuiz
    <2> QED
      BY <2>2 DEF FileTypeOK
  <1>3. ASSUME NEW e \in Recruits, NEW d \in Documents,
               UploadDocument(e, d) \/ ValidateDocument(e, d) \/ RejectDocument(e, d)
        PROVE  FileTypeOK'
    <2> DEFINE row == document[e][d]
    <2>1. row \in DocumentRow
      BY DEF FileTypeOK
    <2> HIDE DEF row
    <2>2. CASE UploadDocument(e, d)
      <3>1. [[row EXCEPT !.status = "uploaded"] EXCEPT !.filled = TRUE] \in DocumentRow
        BY <2>1, DocumentFields
      <3>2. document' = [document EXCEPT ![e][d] = [[row EXCEPT !.status = "uploaded"]
                                                         EXCEPT !.filled = TRUE]]
        BY <2>2 DEF UploadDocument, FileTypeOK, row
      <3> QED
        BY <1>1, <3>1, <3>2
    <2>3. CASE ValidateDocument(e, d)
      <3>1. [row EXCEPT !.status = "validated"] \in DocumentRow
        BY <2>1, DocumentFields
      <3>2. document' = [document EXCEPT ![e][d] = [row EXCEPT !.status = "validated"]]
        BY <2>3 DEF ValidateDocument, row
      <3> QED
        BY <1>1, <3>1, <3>2
    <2>4. CASE RejectDocument(e, d)
      <3>1. [[row EXCEPT !.status = "rejected"] EXCEPT !.filled = FALSE] \in DocumentRow
        BY <2>1, DocumentFields
      <3>2. document' = [document EXCEPT ![e][d] = [[row EXCEPT !.status = "rejected"]
                                                         EXCEPT !.filled = FALSE]]
        BY <2>4 DEF RejectDocument, FileTypeOK, row
      <3> QED
        BY <1>1, <3>1, <3>2
    <2> QED
      BY <1>3, <2>2, <2>3, <2>4
  <1>4. ASSUME SendDailyReminders
        PROVE  FileTypeOK'
    <2> DEFINE Sent(row, e) == IF NeedsReminder(row) /\ e \in Account
                               THEN [row EXCEPT !.reminded = "today"]
                               ELSE IF row.reminded = "today" THEN [row EXCEPT !.reminded = "before"]
                               ELSE row
    <2>1. ASSUME NEW e \in Recruits, NEW row \in DocumentRow
          PROVE  Sent(row, e) \in DocumentRow
      <3>1. [row EXCEPT !.reminded = "today"] \in DocumentRow
        BY DocumentFields
      <3>2. [row EXCEPT !.reminded = "before"] \in DocumentRow
        BY DocumentFields
      <3>3. NeedsReminder(row) \in BOOLEAN
        BY DEF NeedsReminder
      <3> QED
        BY <3>1, <3>2, <3>3
    <2>2. document' = [e \in Recruits |-> [d \in Documents |-> Sent(document[e][d], e)]]
      BY <1>4 DEF SendDailyReminders
    <2> HIDE DEF Sent
    <2> QED
      BY <2>1, <2>2 DEF FileTypeOK
  <1> QED
    BY <1>2, <1>3, <1>4 DEF FileNext, EmployeeInitiationController, RequiredDocumentsController

LEMMA RecordStepTyped ==
  ASSUME RecordTypeOK, RecordNext
  PROVE  RecordTypeOK'
  <1>1. ASSUME NEW e \in Writers, NEW d \in RecordDays, NEW row \in JournalRow, SaveJournal(e, d, row)
        PROVE  RecordTypeOK'
    BY <1>1 DEF SaveJournal, RecordTypeOK
  <1>2. ASSUME DatePasses
        PROVE  RecordTypeOK'
    BY <1>2, RecordAssumption DEF DatePasses, RecordTypeOK, RecordDays
  <1>3. ASSUME NEW e \in Writers, PrefillFromCompletedTasks(e)
        PROVE  RecordTypeOK'
    <2>1. date \in RecordDays /\ journal[e][date] \in JournalRow
      BY DEF RecordTypeOK
    <2>2. [journal[e][date] EXCEPT !.exists = TRUE, !.generated = TRUE] \in JournalRow
      BY <2>1, JournalFields
    <2> QED
      BY <1>1, <1>3, <2>1, <2>2 DEF PrefillFromCompletedTasks
  <1>4. ASSUME NEW e \in Writers, NEW d \in RecordDays, ReviewJournal(e, d)
        PROVE  RecordTypeOK'
    <2>1. [journal[e][d] EXCEPT !.reviewed = TRUE] \in JournalRow
      BY JournalFields DEF RecordTypeOK
    <2> QED
      BY <1>1, <1>4, <2>1 DEF ReviewJournal
  <1>5. ASSUME NEW e \in Writers, NEW d \in RecordDays, NEW writes \in BOOLEAN,
               SubmitJournal(e, d, writes)
        PROVE  RecordTypeOK'
    <2>1. journal[e][d] \in JournalRow
      BY DEF RecordTypeOK
    <2>2. PICK a, b: a = (journal[e][d].generated /\ ~writes) /\ b = (journal[e][d].written \/ writes)
      OBVIOUS
    <2>3. a \in BOOLEAN /\ b \in BOOLEAN /\ journal[e][d].reviewed \in BOOLEAN
      BY <2>1, <2>2 DEF JournalRow
    <2>4. [exists |-> TRUE, isSubmitted |-> TRUE, generated |-> a, written |-> b,
           reviewed |-> journal[e][d].reviewed] \in JournalRow
      BY <2>3 DEF JournalRow
    <2> QED
      BY <1>1, <1>5, <2>2, <2>4 DEF SubmitJournal
  <1>6. ASSUME NEW e \in Writers, NEW d \in RecordDays, NEW yes \in {0, 5}, SubmitAnswers(e, d, yes)
        PROVE  RecordTypeOK'
    <2>1. yes \in -1..5
      OBVIOUS
    <2> QED
      BY <1>6, <2>1 DEF SubmitAnswers, RecordTypeOK
  <1> QED
    BY <1>2, <1>3, <1>4, <1>5, <1>6 DEF RecordNext, DailyJournalController, GuardianQuestionController

LEMMA TicketStepTyped ==
  ASSUME DeskTypeOK, TicketNext
  PROVE  DeskTypeOK'
  <1>1. ASSUME NEW t \in Tickets, NEW row \in TicketRow, SaveTicket(t, row)
        PROVE  DeskTypeOK'
    BY <1>1 DEF SaveTicket, DeskTypeOK, eventVars, ritualVars
  <1>2. PICK t \in Tickets: \/ \E autoAssigned \in BOOLEAN: CreateTicket(t, autoAssigned)
                            \/ AssignTicket(t) \/ RateTicket(t)
                            \/ \E status \in TicketStatus: UpdateStatus(t, status)
                            \/ \E status \in TicketStatus, isInternal \in BOOLEAN:
                                 AddComment(t, isInternal, status)
    BY DEF TicketNext
  <1> DEFINE row == ticket[t]
  <1>3. row \in TicketRow
    BY DEF DeskTypeOK
  <1>4. {"open", "in_progress"} \subseteq TicketStatus
    BY DEF TicketStatus
  <1>5. ASSUME NEW b \in BOOLEAN, CreateTicket(t, b)
        PROVE  DeskTypeOK'
    <2>1. [row EXCEPT !.status = "open", !.assigned = b] \in TicketRow
      BY <1>3, <1>4, TicketFields
    <2> QED
      BY <1>1, <1>5, <2>1 DEF CreateTicket
  <1>6. ASSUME AssignTicket(t)
        PROVE  DeskTypeOK'
    <2> DEFINE next == [row EXCEPT !.assigned = TRUE, !.status = IF @ = "open" THEN "in_progress" ELSE @]
               taken == [row EXCEPT !.assigned = TRUE]
    <2>1. taken \in TicketRow /\ taken.status = row.status
      BY <1>3, TicketFields DEF TicketRow
    <2>2. next = IF row.status = "open" THEN [taken EXCEPT !.status = "in_progress"] ELSE taken
      BY <1>3, <2>1 DEF TicketRow
    <2>3. next \in TicketRow
      BY <1>4, <2>1, <2>2, TicketFields
    <2> QED
      BY <1>1, <1>6, <2>3 DEF AssignTicket
  <1>7. ASSUME RateTicket(t)
        PROVE  DeskTypeOK'
    <2>1. [row EXCEPT !.rated = TRUE] \in TicketRow
      BY <1>3, TicketFields
    <2> QED
      BY <1>1, <1>7, <2>1 DEF RateTicket
  <1>8. ASSUME NEW status \in TicketStatus, UpdateStatus(t, status)
        PROVE  DeskTypeOK'
    <2>1. PICK b \in BOOLEAN: b = (row.resolvedBy \/ status = "resolved")
      OBVIOUS
    <2>2. [[[row EXCEPT !.status = status] EXCEPT !.answered = TRUE] EXCEPT !.resolvedBy = b]
            \in TicketRow
      BY <1>3, TicketFields
    <2>3. SaveTicket(t, [[[row EXCEPT !.status = status] EXCEPT !.answered = TRUE]
                              EXCEPT !.resolvedBy = b])
      BY <1>3, <1>8, <2>1 DEF UpdateStatus, TicketRow
    <2> QED
      BY <1>1, <2>2, <2>3
  <1>9. ASSUME NEW status \in TicketStatus, NEW isInternal \in BOOLEAN, AddComment(t, isInternal, status)
        PROVE  DeskTypeOK'
    <2>1. PICK b \in BOOLEAN: b = (row.answered \/ ~isInternal)
      OBVIOUS
    <2>2. [[row EXCEPT !.status = status] EXCEPT !.answered = b] \in TicketRow
      BY <1>3, TicketFields
    <2>3. SaveTicket(t, [[row EXCEPT !.status = status] EXCEPT !.answered = b])
      BY <1>3, <1>9, <2>1 DEF AddComment, TicketRow
    <2> QED
      BY <1>1, <2>2, <2>3
  <1> QED
    BY <1>2, <1>5, <1>6, <1>7, <1>8, <1>9

LEMMA DeskStepTyped ==
  ASSUME DeskTypeOK, DeskNext, event' \in [Events -> EventRow]
  PROVE  DeskTypeOK'
  <1>1. ASSUME EventNext
        PROVE  DeskTypeOK'
    <2>1. \A v, row: SaveEvent(v, row) => UNCHANGED <<ticket, ritualDay, occurrence>>
      BY DEF SaveEvent, ticketVars, ritualVars
    <2>2. UNCHANGED <<ticket, ritualDay, occurrence>>
      BY <1>1, <2>1, Zenon DEF EventNext, CreateEvent, UpdateEvent, UpdateEventStatus, PublishEvent,
                               CancelEvent, CompleteEvent, DeleteEvent
    <2> QED
      BY <2>2 DEF DeskTypeOK
  <1>2. ASSUME RitualNext
        PROVE  DeskTypeOK'
    <2>1. CASE DayPasses
      BY <2>1, DeskAssumption DEF DayPasses, DeskTypeOK, ticketVars, eventVars
    <2>2. CASE GenerateOccurrences
      <3>1. \A r \in Rituals: \A d \in RitualDays: occurrence[r][d] \in OccurrenceStatus
        BY DEF DeskTypeOK
      <3>2. "scheduled" \in OccurrenceStatus
        BY DEF OccurrenceStatus
      <3> QED
        BY <2>2, <3>1, <3>2 DEF GenerateOccurrences, DeskTypeOK, ticketVars, eventVars
    <2>3. ASSUME NEW r \in Rituals, NEW d \in RitualDays, NEW status \in {"in_progress", "completed"},
                 SetOccurrence(r, d, status)
          PROVE  DeskTypeOK'
      <3>1. status \in OccurrenceStatus
        BY DEF OccurrenceStatus
      <3> QED
        BY <2>3, <3>1 DEF SetOccurrence, DeskTypeOK, ticketVars, eventVars
    <2> QED
      BY <1>2, <2>1, <2>2, <2>3 DEF RitualNext
  <1> QED
    BY <1>1, <1>2, TicketStepTyped DEF DeskNext
\* A paper is handed out once, from its draft, so an employee never holds two sheets of it;
\* calls about papers leave those about regulations as they are.
RegulationTyped ==
  /\ RegulationTypeOK
  /\ SheetsOnce
  /\ focus \in {"regulations", "papers"} => call \in [Clients -> RegulationCall]

LEMMA CopyFields ==
  ASSUME NEW row \in CopyRow, NEW status \in {"pending", "viewed", "signed", "refused", "expired"}
  PROVE  [row EXCEPT !.status = status] \in CopyRow
  BY DEF CopyRow

LEMMA PaperFields ==
  ASSUME NEW row \in PaperRow
  PROVE  /\ \A x \in {"draft", "active", "archived"}:
              /\ [row EXCEPT !.status = x] \in PaperRow
              /\ [row EXCEPT !.status = x].status = x
         /\ [row EXCEPT !.deleted = TRUE] \in PaperRow
         /\ [row EXCEPT !.deleted = TRUE].status = row.status
  BY DEF PaperRow

\* The rows of one regulation with one employee.
LEMMA CopyTyped ==
  ASSUME RegulationTyped, UNCHANGED focus, NEW e \in Readers, NEW r \in Rules, NEW row \in CopyRow,
         copy' = [copy EXCEPT ![e][r] = row], UNCHANGED <<rule, late, signatures, paper, sheet, sheets>>,
         call' \in [Clients -> RegulationCall]
  PROVE  RegulationTyped'
  BY DEF RegulationTyped, RegulationTypeOK, SheetsOnce

LEMMA RegulationRowStepTyped ==
  ASSUME RegulationTyped, UNCHANGED focus, focus \in {"regulations", "papers"},
         NEW e \in Readers, NEW r \in Rules,
         MarkAsViewed(e, r) \/ RefuseLateSignature(e, r) \/ RefuseRegulation(e, r)
  PROVE  RegulationTyped'
  <1>1. call \in [Clients -> RegulationCall] /\ copy[e][r] \in CopyRow
    BY DEF RegulationTyped, RegulationTypeOK
  <1>4. CASE MarkAsViewed(e, r)
    <2>1. PICK row: row = IF copy[e][r].viewed THEN copy[e][r] ELSE [status |-> "viewed", viewed |-> TRUE]
      OBVIOUS
    <2>2. row \in CopyRow
      BY <1>1, <2>1 DEF CopyRow
    <2>3. copy' = [copy EXCEPT ![e][r] = row]
      BY <1>4, <2>1 DEF MarkAsViewed
    <2> QED
      BY <1>1, <1>4, <2>2, <2>3, CopyTyped DEF MarkAsViewed, keptPapers
  <1>5. CASE RefuseLateSignature(e, r)
    <2>1. [copy[e][r] EXCEPT !.status = "expired"] \in CopyRow
      BY <1>1, CopyFields
    <2>2. copy' = [copy EXCEPT ![e][r] = [copy[e][r] EXCEPT !.status = "expired"]]
      BY <1>5 DEF RefuseLateSignature
    <2> QED
      BY <1>1, <1>5, <2>1, <2>2, CopyTyped DEF RefuseLateSignature, keptPapers
  <1>6. CASE RefuseRegulation(e, r)
    <2>1. [copy[e][r] EXCEPT !.status = "refused"] \in CopyRow
      BY <1>1, CopyFields
    <2>2. copy' = [copy EXCEPT ![e][r] = [copy[e][r] EXCEPT !.status = "refused"]]
      BY <1>6 DEF RefuseRegulation
    <2> QED
      BY <1>1, <1>6, <2>1, <2>2, CopyTyped DEF RefuseRegulation, keptPapers
  <1> QED
    BY <1>4, <1>5, <1>6

LEMMA RegulationCallStepTyped ==
  ASSUME RegulationTyped, UNCHANGED focus, focus \in {"regulations", "papers"}, NEW c \in Clients,
         \/ \E r \in Rules: BeginPublish(c, r) \/ \E e \in Readers: BeginSign(c, e, r)
         \/ ArchiveActive(c) \/ Activate(c) \/ AssignToAllEmployees(c) \/ FinishSign(c)
  PROVE  RegulationTyped'
  <1>1. call \in [Clients -> RegulationCall] /\ call[c] \in RegulationCall
    BY DEF RegulationTyped
  <1>2. \A e \in Readers: \A r \in Rules: copy[e][r] \in CopyRow
    BY DEF RegulationTyped, RegulationTypeOK
  <1>3. Idle \in RegulationCall
    BY DEF RegulationCall
  <1>4. \A at \in {"archive", "activate", "assign"}: \A r \in Rules:
          [at |-> at, rule |-> r] \in RegulationCall
    BY DEF RegulationCall
  <1>5. ASSUME call[c].at \in {"archive", "activate", "assign"}
        PROVE  /\ call[c].rule \in Rules
               /\ \A at \in {"archive", "activate", "assign"}:
                    [call[c] EXCEPT !.at = at] \in RegulationCall
    <2>1. call[c] \in [at: {"archive", "activate", "assign"}, rule: Rules]
      BY <1>1, <1>5 DEF RegulationCall, Idle
    <2>2. \A at \in {"archive", "activate", "assign"}:
            [call[c] EXCEPT !.at = at] \in [at: {"archive", "activate", "assign"}, rule: Rules]
      BY <2>1
    <2> QED
      BY <2>1, <2>2 DEF RegulationCall
  <1>6. ASSUME NEW next \in RegulationCall, Goto(c, next), UNCHANGED <<paper, sheet, sheets, late>>,
               rule' \in [Rules -> {"none", "draft", "active", "archived"}],
               copy' \in [Readers -> [Rules -> CopyRow]],
               signatures' \in [Readers -> [Rules -> 0..2]]
        PROVE  RegulationTyped'
    <2>1. call' \in [Clients -> RegulationCall]
      BY <1>1, <1>6, CallTyped
    <2> QED
      BY <1>6, <2>1 DEF RegulationTyped, RegulationTypeOK, SheetsOnce
  <1>7. /\ rule \in [Rules -> {"none", "draft", "active", "archived"}]
        /\ copy \in [Readers -> [Rules -> CopyRow]]
        /\ signatures \in [Readers -> [Rules -> 0..2]]
    BY DEF RegulationTyped, RegulationTypeOK
  <1>8. ASSUME NEW r \in Rules, BeginPublish(c, r)
        PROVE  RegulationTyped'
    BY <1>4, <1>6, <1>7, <1>8 DEF BeginPublish, regulationVars
  <1>9. ASSUME NEW e \in Readers, NEW r \in Rules, BeginSign(c, e, r)
        PROVE  RegulationTyped'
    <2>1. copy[e][r].viewed \in BOOLEAN
      BY <1>2 DEF CopyRow
    <2>2. [at |-> "sign", reader |-> e, rule |-> r, viewed |-> copy[e][r].viewed] \in RegulationCall
      BY <2>1 DEF RegulationCall
    <2>3. signatures[e][r] \in 0..2 /\ signatures[e][r] < 2
      BY <1>7, <1>9 DEF BeginSign
    <2>4. signatures' \in [Readers -> [Rules -> 0..2]]
      BY <1>7, <1>9, <2>3 DEF BeginSign
    <2> QED
      BY <1>6, <1>7, <1>9, <2>2, <2>4 DEF BeginSign, keptPapers
  <1>10. CASE ArchiveActive(c)
    <2>1. rule' \in [Rules -> {"none", "draft", "active", "archived"}]
      BY <1>7, <1>10 DEF ArchiveActive
    <2>2. [call[c] EXCEPT !.at = "activate"] \in RegulationCall
      BY <1>5, <1>10 DEF ArchiveActive
    <2> QED
      BY <1>6, <1>7, <1>10, <2>1, <2>2 DEF ArchiveActive, keptPapers
  <1>11. CASE Activate(c)
    <2>1. rule' \in [Rules -> {"none", "draft", "active", "archived"}]
      BY <1>7, <1>11 DEF Activate
    <2>2. [call[c] EXCEPT !.at = "assign"] \in RegulationCall
      BY <1>5, <1>11 DEF Activate
    <2> QED
      BY <1>6, <1>7, <1>11, <2>1, <2>2 DEF Activate, keptPapers
  <1>12. CASE AssignToAllEmployees(c)
    <2> DEFINE r == call[c].rule
    <2>1. r \in Rules
      BY <1>5, <1>12 DEF AssignToAllEmployees
    <2>2. ASSUME NEW e \in Readers
          PROVE  (IF copy[e][r].status = "none" THEN [copy[e] EXCEPT ![r].status = "pending"] ELSE copy[e])
                   \in [Rules -> CopyRow]
      <3>1. copy[e] \in [Rules -> CopyRow]
        BY <1>7
      <3>2. [copy[e][r] EXCEPT !.status = "pending"] \in CopyRow
        BY <1>2, <2>1, CopyFields
      <3>3. [copy[e] EXCEPT ![r].status = "pending"]
              = [copy[e] EXCEPT ![r] = [copy[e][r] EXCEPT !.status = "pending"]]
        OBVIOUS
      <3>4. [copy[e] EXCEPT ![r] = [copy[e][r] EXCEPT !.status = "pending"]] \in [Rules -> CopyRow]
        BY <3>1, <3>2
      <3> QED
        BY <3>1, <3>3, <3>4
    <2>3. copy' \in [Readers -> [Rules -> CopyRow]]
      BY <1>12, <2>2 DEF AssignToAllEmployees
    <2> QED
      BY <1>3, <1>6, <1>7, <1>12, <2>3 DEF AssignToAllEmployees, Return, keptPapers
  <1>13. CASE FinishSign(c)
    <2>1. call[c] \in [at: {"sign"}, reader: Readers, rule: Rules, viewed: BOOLEAN]
      BY <1>1, <1>13 DEF FinishSign, RegulationCall, Idle
    <2>2. [status |-> "signed", viewed |-> call[c].viewed] \in CopyRow
      BY <2>1 DEF CopyRow
    <2>3. call[c].reader \in Readers /\ call[c].rule \in Rules
      BY <2>1
    <2>4. copy' \in [Readers -> [Rules -> CopyRow]]
      BY <1>7, <1>13, <2>2, <2>3 DEF FinishSign
    <2> QED
      BY <1>3, <1>6, <1>7, <1>13, <2>4 DEF FinishSign, Return, keptPapers
  <1> QED
    BY <1>8, <1>9, <1>10, <1>11, <1>12, <1>13

LEMMA PaperStepTyped ==
  ASSUME RegulationTyped, UNCHANGED focus, HrDocumentController
  PROVE  RegulationTyped'
  <1>1. /\ paper \in [Papers -> PaperRow]
        /\ sheet \in [Readers -> [Papers -> {"none", "pending", "viewed", "signed", "acknowledged",
                                             "rejected"}]]
        /\ sheets \in [Readers -> [Papers -> 0..2]]
    BY DEF RegulationTyped, RegulationTypeOK
  <1>2. PICK d \in Papers:
          \/ CreateDocument(d) \/ PublishDocument(d) \/ ArchiveDocument(d) \/ DeleteDocument(d)
          \/ \E e \in Readers: \/ ViewDocument(e, d) \/ AcknowledgeDocument(e, d)
                               \/ SignDocument(e, d) \/ RejectSheet(e, d)
    BY DEF HrDocumentController
  <1>3. paper[d] \in PaperRow
    BY <1>1
  <1>4. ASSUME NEW row \in PaperRow, paper' = [paper EXCEPT ![d] = row],
               row.status \in {"none", "draft"} => paper[d].status \in {"none", "draft"},
               UNCHANGED <<keptRules, sheet, sheets, call>>
        PROVE  RegulationTyped'
    <2>1. paper' \in [Papers -> PaperRow]
      BY <1>1, <1>4
    <2>2. \A q \in Papers: paper'[q].status \in {"none", "draft"} => paper[q].status \in {"none", "draft"}
      BY <1>1, <1>4
    <2>3. SheetsOnce'
      BY <1>4, <2>2 DEF RegulationTyped, SheetsOnce
    <2> QED
      BY <1>4, <2>1, <2>3 DEF RegulationTyped, RegulationTypeOK, keptRules
  <1>5. CASE CreateDocument(d)
    <2>1. paper' = [paper EXCEPT ![d] = [paper[d] EXCEPT !.status = "draft"]]
      BY <1>5 DEF CreateDocument
    <2> QED
      BY <1>3, <1>4, <1>5, <2>1, PaperFields DEF CreateDocument
  <1>6. CASE ArchiveDocument(d)
    <2>1. paper' = [paper EXCEPT ![d] = [paper[d] EXCEPT !.status = "archived"]]
      BY <1>6 DEF ArchiveDocument
    <2> QED
      BY <1>3, <1>4, <1>6, <2>1, PaperFields DEF ArchiveDocument
  <1>7. CASE DeleteDocument(d)
    <2>1. paper' = [paper EXCEPT ![d] = [paper[d] EXCEPT !.deleted = TRUE]]
      BY <1>7 DEF DeleteDocument
    <2> QED
      BY <1>3, <1>4, <1>7, <2>1, PaperFields DEF DeleteDocument
  <1>8. ASSUME NEW e \in Readers, NEW status, Mark(e, d, status),
               status \in {"none", "pending", "viewed", "signed", "acknowledged", "rejected"}
        PROVE  RegulationTyped'
    <2>1. sheet' \in [Readers -> [Papers -> {"none", "pending", "viewed", "signed", "acknowledged",
                                             "rejected"}]]
      BY <1>1, <1>8 DEF Mark
    <2> QED
      BY <1>8, <2>1 DEF Mark, RegulationTyped, RegulationTypeOK, SheetsOnce, keptRules
  <1>9. ASSUME NEW e \in Readers,
               \/ ViewDocument(e, d) \/ AcknowledgeDocument(e, d)
               \/ SignDocument(e, d) \/ RejectSheet(e, d)
        PROVE  RegulationTyped'
    BY <1>1, <1>8, <1>9 DEF ViewDocument, AcknowledgeDocument, SignDocument, RejectSheet
  <1>10. CASE PublishDocument(d)
    <2>1. paper' = [paper EXCEPT ![d] = [paper[d] EXCEPT !.status = "active"]]
      BY <1>10 DEF PublishDocument
    <2>2. paper' \in [Papers -> PaperRow] /\ paper'[d].status = "active"
          /\ \A q \in Papers \ {d}: paper'[q] = paper[q]
      BY <1>1, <1>3, <2>1, PaperFields
    <2>3. \A e \in Readers: sheets[e][d] = 0
      BY <1>10 DEF PublishDocument, RegulationTyped, SheetsOnce
    <2>4. PICK given \in SUBSET Readers:
            /\ sheet' = [e \in Readers |-> IF e \in given THEN [sheet[e] EXCEPT ![d] = "pending"]
                                           ELSE sheet[e]]
            /\ sheets' = [e \in Readers |-> IF e \in given THEN [sheets[e] EXCEPT ![d] = @ + 1]
                                            ELSE sheets[e]]
      BY <1>10 DEF PublishDocument
    <2>5. sheet' \in [Readers -> [Papers -> {"none", "pending", "viewed", "signed", "acknowledged",
                                             "rejected"}]]
      BY <1>1, <2>4
    <2>6. ASSUME NEW e \in Readers
          PROVE  [sheets[e] EXCEPT ![d] = @ + 1] = [sheets[e] EXCEPT ![d] = 1]
      <3>1. sheets[e][d] + 1 = 1
        BY <2>3
      <3> QED
        BY <3>1
    <2>7. sheets' = [e \in Readers |-> IF e \in given THEN [sheets[e] EXCEPT ![d] = 1] ELSE sheets[e]]
      BY <2>4, <2>6
    <2>8. sheets' \in [Readers -> [Papers -> 0..2]]
      BY <1>1, <2>7
    <2>9. SheetsOnce'
      <3>1. \A e \in Readers: \A q \in Papers \ {d}: sheets'[e][q] = sheets[e][q]
        BY <1>1, <2>7
      <3>2. \A e \in Readers: sheets'[e][d] <= 1
        BY <1>1, <2>3, <2>7
      <3> QED
        BY <2>2, <3>1, <3>2 DEF RegulationTyped, SheetsOnce
    <2> QED
      BY <1>10, <2>2, <2>5, <2>8, <2>9
         DEF PublishDocument, RegulationTyped, RegulationTypeOK, keptRules
  <1> QED
    BY <1>2, <1>5, <1>6, <1>7, <1>9, <1>10

LEMMA RegulationStepTyped ==
  ASSUME RegulationTyped, UNCHANGED focus, focus \in {"regulations", "papers"}, RegulationNext
  PROVE  RegulationTyped'
  <1>1. ASSUME NEW r \in Rules, DeadlinePasses(r)
        PROVE  RegulationTyped'
    BY <1>1 DEF DeadlinePasses, RegulationTyped, RegulationTypeOK, SheetsOnce, keptPapers
  <1>2. ASSUME NEW r \in Rules, CreateRegulation(r)
        PROVE  RegulationTyped'
    BY <1>2 DEF CreateRegulation, RegulationTyped, RegulationTypeOK, SheetsOnce, keptPapers
  <1> QED
    BY <1>1, <1>2, RegulationRowStepTyped, RegulationCallStepTyped, PaperStepTyped
       DEF RegulationNext, RegulationController
\* Job by job, and call by call, the rows of the reminders are well formed.
RemindersTyped ==
  /\ ReminderTypeOK
  /\ IsFiniteSet(nudges)
  /\ focus \in {"deadlines", "punches"} => call \in [Clients -> NudgeCall]

LEMMA DeadlineStepTyped ==
  ASSUME RemindersTyped, UNCHANGED <<focus, call>>, DeadlineNext, job' \in [Servers -> JobState]
  PROVE  RemindersTyped'
  <1>1. /\ UNCHANGED punchVars
        /\ due' \in [DueTasks -> DueDates]
        /\ running' \subseteq DueTasks
        /\ edited' \in [DueTasks -> ReminderDays]
        /\ lock' \in Servers \cup {"free"}
        /\ told' \subseteq Notice
        /\ day' \in ReminderDays
    <2>1. ASSUME NEW s \in Servers,
                 TakeLock(s) \/ QueryProjects(s) \/ QueryTasks(s) \/ EndJob(s) \/ Crash(s) \/ Restart(s)
          PROVE  /\ UNCHANGED <<punchVars, due, running, edited, told, day>>
                 /\ lock' \in Servers \cup {"free"}
      BY <2>1 DEF RemindersTyped, ReminderTypeOK, TakeLock, QueryProjects, QueryTasks, EndJob, Crash,
                  Restart
    <2>2. ASSUME NEW s \in Servers, NEW r \in Reminder, SendTaskReminder(s, r)
          PROVE  UNCHANGED <<punchVars, due, running, edited, lock, day>> /\ told' \subseteq Notice
      <3>1. [task |-> r.task, days |-> r.days, day |-> day] \in Notice
        BY DEF RemindersTyped, ReminderTypeOK, Reminder, Notice
      <3> QED
        BY <2>2, <3>1 DEF SendTaskReminder, RemindersTyped, ReminderTypeOK
    <2>3. ASSUME NEW t \in DueTasks, NEW deadline \in DueDates, EditTask(t, deadline)
          PROVE  /\ UNCHANGED <<punchVars, lock, told, day>>
                 /\ due' \in [DueTasks -> DueDates] /\ running' \subseteq DueTasks
                 /\ edited' \in [DueTasks -> ReminderDays]
      BY <2>3 DEF EditTask, RemindersTyped, ReminderTypeOK
    <2>4. CASE NextMorning
      <3>1. day' \in ReminderDays
        BY <2>4, ReminderAssumption DEF NextMorning, RemindersTyped, ReminderTypeOK, ReminderDays
      <3> QED
        BY <2>4, <3>1 DEF NextMorning, RemindersTyped, ReminderTypeOK
    <2> QED
      BY <2>1, <2>2, <2>3, <2>4 DEF DeadlineNext, RemindersTyped, ReminderTypeOK
  <1> QED
    BY <1>1 DEF RemindersTyped, ReminderTypeOK, punchVars

LEMMA PunchStepTyped ==
  ASSUME RemindersTyped, UNCHANGED focus, focus \in {"deadlines", "punches"}, PunchNext
  PROVE  RemindersTyped'
  <1>1. call \in [Clients -> NudgeCall] /\ day \in ReminderDays
    BY DEF RemindersTyped, ReminderTypeOK
  <1>2. ASSUME NEW c \in Clients, NEW kind \in Kinds, NEW about \in ReminderDays, NEW found,
               LookThrough(c, kind, about, found)
        PROVE  RemindersTyped'
    <2>1. [at |-> "nudge", kind |-> kind, about |-> about] \in NudgeCall
      BY DEF NudgeCall
    <2>2. call' \in [Clients -> NudgeCall]
      BY <1>1, <1>2, <2>1, CallTyped DEF LookThrough
    <2> QED
      BY <1>2, <2>2 DEF LookThrough, RemindersTyped, ReminderTypeOK, reminderVars, deadlineVars, punchVars
  <1>3. ASSUME NEW c \in Clients,
               TickLateCheckIns(c) \/ TickCheckoutReminders(c) \/ TickIncompleteYesterday(c)
        PROVE  RemindersTyped'
    <2>1. day > 0 => day - 1 \in ReminderDays
      BY <1>1, ReminderAssumption DEF ReminderDays
    <2>2. {"late", "checkout", "yesterday"} \subseteq Kinds
      BY DEF Kinds
    <2> QED
      BY <1>1, <1>2, <1>3, <2>1, <2>2 DEF TickLateCheckIns, TickCheckoutReminders, TickIncompleteYesterday
  <1>4. ASSUME NEW c \in Clients, InsertNudge(c)
        PROVE  RemindersTyped'
    <2> DEFINE alike == {n \in nudges: n.kind = call[c].kind /\ n.about = call[c].about}
               new == [kind |-> call[c].kind, about |-> call[c].about, nth |-> Cardinality(alike) + 1]
    <2>1. call[c] \in [at: {"nudge"}, kind: Kinds, about: ReminderDays]
      BY <1>1, <1>4 DEF InsertNudge, NudgeCall, Idle
    <2>2. IsFiniteSet(alike) /\ Cardinality(alike) \in Nat
      BY FS_Subset, FS_CardinalityType DEF RemindersTyped
    <2>3. Cardinality(alike) < 2 /\ nudges' = nudges \cup {new}
      BY <1>4 DEF InsertNudge
    <2>4. Cardinality(alike) + 1 \in 1..2
      BY <2>2, <2>3
    <2>5. new \in Nudge
      BY <2>1, <2>4 DEF Nudge
    <2>6. nudges' \subseteq Nudge
      BY <2>3, <2>5 DEF RemindersTyped, ReminderTypeOK
    <2>7. IsFiniteSet(nudges')
      BY <2>3, FS_AddElement DEF RemindersTyped
    <2>8. call' \in [Clients -> NudgeCall]
      BY <1>1, <1>4, CallTyped DEF InsertNudge, Return, NudgeCall
    <2> QED
      BY <1>4, <2>6, <2>7, <2>8 DEF InsertNudge, RemindersTyped, ReminderTypeOK, deadlineVars
  <1>5. CASE PunchIn \/ PunchOut
    BY <1>5 DEF PunchIn, PunchOut, RemindersTyped, ReminderTypeOK, deadlineVars, Punch
  <1>6. CASE TimePasses
    <2>1. slot' \in 0..Slots /\ day' \in ReminderDays
      BY <1>6, ReminderAssumption DEF TimePasses, RemindersTyped, ReminderTypeOK, ReminderDays
    <2> QED
      BY <1>6, <2>1 DEF TimePasses, RemindersTyped, ReminderTypeOK, deadlineVars
  <1> QED
    BY <1>3, <1>4, <1>5, <1>6 DEF PunchNext

\* One field of an opening changes.
LEMMA OpeningFields ==
  ASSUME NEW row \in OpeningRow
  PROVE  /\ \A x \in OpeningStatuses: [row EXCEPT !.status = x] \in OpeningRow
         /\ \A x \in BOOLEAN: [row EXCEPT !.public = x] \in OpeningRow
         /\ \A x \in 0..NoClosing: [row EXCEPT !.closing = x] \in OpeningRow
  BY DEF OpeningRow

LEMMA OpeningStepTyped ==
  ASSUME HiringTypeOK, UNCHANGED focus, JobOpeningController
  PROVE  HiringTypeOK'
  <1>1. ASSUME NEW o \in Openings, NEW row \in OpeningRow \cup {NoOpening},
               opening' = [opening EXCEPT ![o] = row],
               UNCHANGED <<candidates, applications, hiringDay, position, held, call>>
        PROVE  HiringTypeOK'
    BY <1>1 DEF HiringTypeOK
  <1>2. ASSUME NEW o \in Openings, NEW row \in OpeningRow \cup {NoOpening}, NEW c, WriteOpening(c, o, row)
        PROVE  HiringTypeOK'
    BY <1>1, <1>2 DEF WriteOpening
  <1>3. PICK c \in Clients, o \in Openings:
          \/ \E closing \in 0..NoClosing:
               \/ CreateOpening(c, o, closing)
               \/ \E status \in OpeningStatuses: UpdateOpening(c, o, status, closing)
          \/ PublishOpening(c, o) \/ UnpublishOpening(c, o) \/ CloseOpening(c, o) \/ DeleteOpening(c, o)
    BY DEF JobOpeningController
  <1>4. opening[o] # NoOpening => opening[o] \in OpeningRow
    BY DEF HiringTypeOK
  <1>5. \A c1, row: WriteOpening(c1, o, row) => opening[o] \in OpeningRow
    BY <1>4 DEF WriteOpening
  <1>6. ASSUME NEW closing \in 0..NoClosing, CreateOpening(c, o, closing)
        PROVE  HiringTypeOK'
    <2>1. [status |-> "draft", public |-> FALSE, closing |-> closing] \in OpeningRow
      BY DEF OpeningRow, OpeningStatuses
    <2> QED
      BY <1>1, <1>6, <2>1 DEF CreateOpening
  <1>7. ASSUME NEW closing \in 0..NoClosing, NEW status \in OpeningStatuses,
               UpdateOpening(c, o, status, closing)
        PROVE  HiringTypeOK'
    <2>1. opening[o] \in OpeningRow
      BY <1>5, <1>7 DEF UpdateOpening
    <2>2. [opening[o] EXCEPT !.status = status, !.closing = closing] \in OpeningRow
      BY <2>1, OpeningFields
    <2> QED
      BY <1>2, <1>7, <2>2 DEF UpdateOpening
  <1>8. {"published", "filled"} \subseteq OpeningStatuses
    BY DEF OpeningStatuses
  <1>9. CASE PublishOpening(c, o)
    <2>1. opening[o] \in OpeningRow
      BY <1>5, <1>9 DEF PublishOpening
    <2>2. [opening[o] EXCEPT !.status = "published", !.public = TRUE] \in OpeningRow
      BY <1>8, <2>1, OpeningFields
    <2> QED
      BY <1>2, <1>9, <2>2 DEF PublishOpening
  <1>10. CASE UnpublishOpening(c, o)
    <2>1. opening[o] \in OpeningRow
      BY <1>5, <1>10 DEF UnpublishOpening
    <2>2. [opening[o] EXCEPT !.public = FALSE] \in OpeningRow
      BY <2>1, OpeningFields
    <2> QED
      BY <1>2, <1>10, <2>2 DEF UnpublishOpening
  <1>11. CASE CloseOpening(c, o)
    <2>1. opening[o] \in OpeningRow
      BY <1>5, <1>11 DEF CloseOpening
    <2>2. [opening[o] EXCEPT !.status = "filled"] \in OpeningRow
      BY <1>8, <2>1, OpeningFields
    <2> QED
      BY <1>2, <1>11, <2>2 DEF CloseOpening
  <1>12. CASE DeleteOpening(c, o)
    BY <1>2, <1>12 DEF DeleteOpening
  <1> QED
    BY <1>3, <1>6, <1>7, <1>9, <1>10, <1>11, <1>12

LEMMA ApplicationStepTyped ==
  ASSUME HiringTypeOK, UNCHANGED focus, focus \in {"openings", "positions"},
         PublicCareersController \/ CandidateController \/ NextHiringDay
  PROVE  HiringTypeOK'
  <1>1. call \in [Clients -> HiringCall]
    BY DEF HiringTypeOK
  <1>2. \A at \in {"candidate", "duplicate", "insert"}: \A form \in ApplyCall:
          [at |-> at, form |-> form] \in HiringCall
    BY DEF HiringCall
  <1>3. \A c \in Clients: call[c].at \in {"candidate", "duplicate", "insert"} => call[c].form \in ApplyCall
    <2> SUFFICES ASSUME NEW c \in Clients, call[c].at \in {"candidate", "duplicate", "insert"}
                 PROVE  call[c].form \in ApplyCall
      OBVIOUS
    <2>1. call[c] \in [at: {"candidate", "duplicate", "insert"}, form: ApplyCall]
      BY <1>1 DEF HiringCall, Idle
    <2> QED
      BY <2>1
  <1>4. Idle \in HiringCall
    BY DEF HiringCall
  <1>5. ASSUME NEW c \in Clients, NEW next \in HiringCall, Goto(c, next),
               UNCHANGED <<opening, hiringDay, position, held>>,
               candidates' \subseteq Emails, applications' \subseteq Application
        PROVE  HiringTypeOK'
    <2>1. call' \in [Clients -> HiringCall]
      BY <1>1, <1>5, CallTyped
    <2> QED
      BY <1>5, <2>1 DEF HiringTypeOK
  <1>6. candidates \subseteq Emails /\ applications \subseteq Application
    BY DEF HiringTypeOK
  <1>7. ASSUME NEW c \in Clients, NEW form \in ApplyCall, BeginApplication(c, form)
        PROVE  HiringTypeOK'
    BY <1>2, <1>5, <1>6, <1>7 DEF BeginApplication, hiringVars
  <1>8. ASSUME NEW c \in Clients, KnowCandidate(c)
        PROVE  HiringTypeOK'
    <2>1. call[c].form \in ApplyCall
      BY <1>3, <1>8 DEF KnowCandidate
    <2>2. call[c].form.email \in Emails
      BY <2>1 DEF ApplyCall
    <2> QED
      BY <1>2, <1>5, <1>6, <1>8, <2>1, <2>2 DEF KnowCandidate
  <1>9. ASSUME NEW c \in Clients, LookForDuplicate(c)
        PROVE  HiringTypeOK'
    <2>1. call[c].form \in ApplyCall
      BY <1>3, <1>9 DEF LookForDuplicate
    <2> QED
      BY <1>2, <1>4, <1>5, <1>6, <1>9, <2>1 DEF LookForDuplicate, Return, hiringVars
  <1>10. ASSUME NEW c \in Clients, InsertApplication(c)
         PROVE  HiringTypeOK'
    <2>1. call[c].form \in ApplyCall /\ hiringDay \in HiringDays
      BY <1>3, <1>10 DEF InsertApplication, HiringTypeOK
    <2>2. [email |-> call[c].form.email, opening |-> call[c].form.opening, day |-> hiringDay]
            \in Application
      BY <2>1 DEF ApplyCall, Application
    <2> QED
      BY <1>4, <1>5, <1>6, <1>10, <2>2 DEF InsertApplication, Return
  <1>11. CASE CandidateController
    BY <1>11 DEF CandidateController, CreateCandidate, DeleteCandidate, HiringTypeOK
  <1>12. CASE NextHiringDay
    BY <1>12, HiringAssumption DEF NextHiringDay, HiringTypeOK, HiringDays
  <1> QED
    BY <1>7, <1>8, <1>9, <1>10, <1>11, <1>12 DEF PublicCareersController
LEMMA PositionStepTyped ==
  ASSUME HiringTypeOK, UNCHANGED focus, focus \in {"openings", "positions"}, JobPositionController
  PROVE  HiringTypeOK'
  <1> DEFINE Ats == {"current", "end", "open", "clear", "primary"}
  <1>1. /\ call \in [Clients -> HiringCall]
        /\ position \in [Positions -> {"none", "live", "deleted"}]
        /\ held \subseteq Holding
    BY DEF HiringTypeOK
  <1>2. \A at \in Ats: \A set \in HoldCall: [at |-> at, set |-> set] \in HiringCall
    BY DEF HiringCall
  <1>3. \A c \in Clients: call[c].at \in Ats => call[c].set \in HoldCall
    <2> SUFFICES ASSUME NEW c \in Clients, call[c].at \in Ats
                 PROVE  call[c].set \in HoldCall
      OBVIOUS
    <2>1. call[c] \in [at: Ats, set: HoldCall]
      BY <1>1 DEF HiringCall, Idle
    <2> QED
      BY <2>1
  <1>4. Idle \in HiringCall
    BY DEF HiringCall
  <1>5. ASSUME NEW c \in Clients, NEW next \in HiringCall, Goto(c, next),
               UNCHANGED <<opening, candidates, applications, hiringDay>>,
               position' \in [Positions -> {"none", "live", "deleted"}], held' \subseteq Holding
        PROVE  HiringTypeOK'
    <2>1. call' \in [Clients -> HiringCall]
      BY <1>1, <1>5, CallTyped
    <2> QED
      BY <1>5, <2>1 DEF HiringTypeOK
  <1>6. \A r \in Holding, b \in BOOLEAN: [r EXCEPT !.primary = b] \in Holding
    BY DEF Holding
  <1> HIDE DEF Ats
  <1>7. PICK c \in Clients:
          \/ \E p \in Positions: CreatePosition(c, p) \/ BeginDeletePosition(c, p)
          \/ DeletePosition(c)
          \/ \E h \in Holders, wanted \in SUBSET Positions, first \in Positions \cup {"none"}:
               BeginSetPositions(c, h, wanted, first)
          \/ ReadPositions(c) \/ EndPositions(c) \/ OpenPositions(c) \/ ClearPrimary(c)
          \/ SetPrimary(c) \/ SetPositionsFails(c)
    BY DEF JobPositionController
  <1>8. ASSUME NEW p \in Positions, CreatePosition(c, p)
        PROVE  HiringTypeOK'
    BY <1>8 DEF CreatePosition, HiringTypeOK
  <1>9. ASSUME NEW p \in Positions, BeginDeletePosition(c, p)
        PROVE  HiringTypeOK'
    <2>1. [at |-> "delete", position |-> p] \in HiringCall
      BY DEF HiringCall
    <2> QED
      BY <1>1, <1>5, <1>9, <2>1 DEF BeginDeletePosition, hiringVars
  <1>10. CASE DeletePosition(c)
    <2>1. position' \in [Positions -> {"none", "live", "deleted"}]
      BY <1>1, <1>10 DEF DeletePosition
    <2> QED
      BY <1>1, <1>4, <1>5, <1>10, <2>1 DEF DeletePosition, Return
  <1>11. ASSUME NEW h \in Holders, NEW wanted \in SUBSET Positions, NEW first \in Positions \cup {"none"},
                BeginSetPositions(c, h, wanted, first)
         PROVE  HiringTypeOK'
    <2>1. [by |-> h, wanted |-> wanted, first |-> first, current |-> {}] \in HoldCall
      BY DEF HoldCall
    <2>2. "current" \in Ats
      BY DEF Ats
    <2> QED
      BY <1>1, <1>2, <1>5, <1>11, <2>1, <2>2 DEF BeginSetPositions, hiringVars
  <1>12. CASE ReadPositions(c)
    <2>1. call[c].set \in HoldCall
      BY <1>3, <1>12 DEF ReadPositions, Ats
    <2>2. HeldBy(call[c].set.by) \in SUBSET Positions
      BY <1>1 DEF HeldBy, Current, Holding
    <2>3. [call[c].set EXCEPT !.current = HeldBy(call[c].set.by)] \in HoldCall
      BY <2>1, <2>2 DEF HoldCall
    <2>4. "end" \in Ats
      BY DEF Ats
    <2> QED
      BY <1>1, <1>2, <1>5, <1>12, <2>3, <2>4 DEF ReadPositions, hiringVars
  <1>13. ASSUME NEW at \in Ats, NEW next \in Ats, SetStep(c, at, next), held' \subseteq Holding,
                UNCHANGED <<opening, candidates, applications, hiringDay, position>>
         PROVE  HiringTypeOK'
    <2>1. call[c].set \in HoldCall
      BY <1>3, <1>13 DEF SetStep
    <2> QED
      BY <1>1, <1>2, <1>5, <1>13, <2>1 DEF SetStep
  <1>14. "end" \in Ats /\ "open" \in Ats /\ "clear" \in Ats /\ "primary" \in Ats
    BY DEF Ats
  <1>15. CASE EndPositions(c)
    <2>1. held' \subseteq Holding
      BY <1>1, <1>15 DEF EndPositions
    <2> QED
      BY <1>13, <1>14, <1>15, <2>1 DEF EndPositions
  <1>16. CASE OpenPositions(c)
    <2>1. call[c].set \in HoldCall
      BY <1>3, <1>14, <1>16 DEF OpenPositions, SetStep
    <2>2. call[c].set.by \in Holders /\ call[c].set.wanted \subseteq Positions
      BY <2>1 DEF HoldCall
    <2>3. [by: {call[c].set.by}, position: call[c].set.wanted \ call[c].set.current, primary: {FALSE}]
            \subseteq Holding
      BY <2>2 DEF Holding
    <2>4. held' \subseteq Holding
      BY <1>1, <1>16, <2>3 DEF OpenPositions
    <2> QED
      BY <1>13, <1>14, <1>16, <2>4 DEF OpenPositions
  <1>17. CASE ClearPrimary(c)
    <2>1. held' \subseteq Holding
      BY <1>1, <1>6, <1>17 DEF ClearPrimary, Cleared
    <2> QED
      BY <1>13, <1>14, <1>17, <2>1 DEF ClearPrimary
  <1>18. CASE SetPrimary(c)
    <2>1. held' \subseteq Holding
      <3>1. PICK main: held' = {IF r.by = call[c].set.by /\ r.position = main
                                THEN [r EXCEPT !.primary = TRUE] ELSE r: r \in held}
        BY <1>18 DEF SetPrimary
      <3>2. \A r \in held: [r EXCEPT !.primary = TRUE] \in Holding /\ r \in Holding
        BY <1>1, <1>6
      <3> QED
        BY <3>1, <3>2
    <2> QED
      BY <1>4, <1>5, <1>1, <1>18, <2>1 DEF SetPrimary, Return
  <1>19. CASE SetPositionsFails(c)
    BY <1>4, <1>5, <1>1, <1>19 DEF SetPositionsFails, Return, hiringVars
  <1> QED
    BY <1>7, <1>8, <1>9, <1>10, <1>11, <1>12, <1>15, <1>16, <1>17, <1>18, <1>19
-----------------------------------------------------------------------------
(* Types of attendance and sanctions: rows stay within the bounds, because every call in   *)
(* flight that will append one has its room                                                *)

\* the calls that will append a row of attendance, a sanction
Inserting == {c \in Clients: call[c].at = "save" /\ call[c].k = 0}
Applying == {c \in Clients: call[c].at = "apply"}

\* a row that was read stays in the table
PointsToRow(new) ==
  /\ new.at = "save" => new.k \in 0..Len(attendance)
  /\ new.at = "decide" => new.k \in 1..Len(sanction)

DisciplineTyped ==
  /\ DisciplineTypeOK
  /\ focus = "discipline" =>
       /\ \A c \in Clients: PointsToRow(call[c])
       /\ Len(attendance) + Cardinality(Inserting) <= MaxRows
       /\ Len(sanction) + Cardinality(Applying) <= MaxSanctions

LEMMA AttendanceFields ==
  ASSUME NEW row \in AttendanceRow
  PROVE  /\ \A x \in 0..Hours: [row EXCEPT !.arrival = x] \in AttendanceRow
         /\ \A x \in 0..Hours: [row EXCEPT !.departure = x] \in AttendanceRow
         /\ \A x \in {"present", "absent", "late", "early_leave"}:
              [row EXCEPT !.status = x] \in AttendanceRow
         /\ \A x \in BOOLEAN: [row EXCEPT !.justified = x] \in AttendanceRow
         /\ \A x \in BOOLEAN: [row EXCEPT !.estimated = x] \in AttendanceRow
  BY DEF AttendanceRow

LEMMA SanctionFields ==
  ASSUME NEW row \in Sanction
  PROVE  /\ \A x \in 1..Days: [row EXCEPT !.date = x] \in Sanction
         /\ \A x \in {"active", "served", "cancelled"}: [row EXCEPT !.status = x] \in Sanction
         /\ \A x \in BOOLEAN: [row EXCEPT !.approved = x] \in Sanction
  BY DEF Sanction

\* What repository.save may write of a row is a row.
LEMMA SavedTyped ==
  /\ \A row, read, new \in AttendanceRow: Saved(row, read, new) \subseteq AttendanceRow
  /\ \A row, read, new \in Sanction: Saved(row, read, new) \subseteq Sanction
  <1>1. ASSUME NEW row \in AttendanceRow, NEW read \in AttendanceRow, NEW new \in AttendanceRow
        PROVE  [f \in DOMAIN row |-> IF new[f] # read[f] THEN new[f] ELSE row[f]] \in AttendanceRow
    BY DEF AttendanceRow
  <1>2. ASSUME NEW row \in Sanction, NEW read \in Sanction, NEW new \in Sanction
        PROVE  [f \in DOMAIN row |-> IF new[f] # read[f] THEN new[f] ELSE row[f]] \in Sanction
    BY DEF Sanction
  <1> QED
    BY <1>1, <1>2 DEF Saved

\* The calls in flight are counted.
LEMMA CallsCounted ==
  ASSUME IsFiniteSet(Clients)
  PROVE  /\ \A S \in SUBSET Clients: IsFiniteSet(S) /\ Cardinality(S) \in Nat
         /\ \A S \in SUBSET Clients: \A T \in SUBSET S: Cardinality(T) <= Cardinality(S)
         /\ \A S \in SUBSET Clients: \A c \in Clients: \A T \in SUBSET (S \cup {c}):
              Cardinality(T) <= Cardinality(S) + 1
         /\ \A S \in SUBSET Clients: \A c \in S: \A T \in SUBSET (S \ {c}):
              Cardinality(T) + 1 <= Cardinality(S)
  <1>1. \A S \in SUBSET Clients: IsFiniteSet(S) /\ Cardinality(S) \in Nat
    BY FS_Subset, FS_CardinalityType
  <1>2. \A S \in SUBSET Clients: \A T \in SUBSET S: Cardinality(T) <= Cardinality(S)
    BY <1>1, FS_Subset
  <1>3. \A S \in SUBSET Clients: \A c \in Clients: \A T \in SUBSET (S \cup {c}):
          Cardinality(T) <= Cardinality(S) + 1
    BY <1>1, OneMore
  <1>4. ASSUME NEW S \in SUBSET Clients, NEW c \in S, NEW T \in SUBSET (S \ {c})
        PROVE  Cardinality(T) + 1 <= Cardinality(S)
    <2>1. Cardinality(S \ {c}) = Cardinality(S) - 1
      BY <1>1, FS_RemoveElement
    <2>2. (S \ {c}) \in SUBSET Clients
      OBVIOUS
    <2>3. Cardinality(T) <= Cardinality(S \ {c}) /\ Cardinality(T) \in Nat /\ Cardinality(S) \in Nat
      BY <1>1, <1>2, <2>2
    <2> QED
      BY <2>1, <2>3
  <1> QED
    BY <1>1, <1>2, <1>3, <1>4

\* A call that only reads on.
LEMMA ReadingTyped ==
  ASSUME IsFiniteSet(Clients), DisciplineTyped, focus = "discipline", UNCHANGED focus,
         NEW c \in Clients, NEW next \in DisciplineCall, Continue(c, next), PointsToRow(next),
         next.at = "save" /\ next.k = 0 => AttendanceLeft,
         next.at = "apply" => SanctionLeft
  PROVE  DisciplineTyped'
  <1>1. /\ call \in [Clients -> DisciplineCall] /\ Goto(c, next)
        /\ UNCHANGED <<clock, attendance, sanction>>
    BY DEF DisciplineTyped, DisciplineTypeOK, Continue, disciplineVars
  <1>2. /\ call' \in [Clients -> DisciplineCall] /\ call'[c] = next
        /\ \A d \in Clients \ {c}: call'[d] = call[d]
    BY <1>1 DEF Goto
  <1>3. \A d \in Clients: PointsToRow(call[d])'
    BY <1>1, <1>2 DEF DisciplineTyped, PointsToRow
  <1>4. Inserting \in SUBSET Clients /\ Inserting' \in SUBSET Clients
        /\ Applying \in SUBSET Clients /\ Applying' \in SUBSET Clients
    BY DEF Inserting, Applying
  <1>5. /\ Len(attendance) \in Nat /\ Len(sanction) \in Nat
        /\ MaxRows \in Nat /\ MaxSanctions \in Nat
        /\ Cardinality(Inserting) \in Nat /\ Cardinality(Inserting') \in Nat
        /\ Cardinality(Applying) \in Nat /\ Cardinality(Applying') \in Nat
    BY <1>4, CallsCounted, DisciplineAssumption DEF DisciplineTyped, DisciplineTypeOK
  <1>6. Len(attendance) + Cardinality(Inserting') <= MaxRows
    <2>1. CASE next.at = "save" /\ next.k = 0
      <3> DEFINE All == {d \in Clients: call[d].at = "save"}
      <3>1. Inserting \in SUBSET All /\ All \in SUBSET Clients /\ Inserting' \in SUBSET (Inserting \cup {c})
        BY <1>2 DEF Inserting
      <3>2. Len(attendance) + Cardinality(All) < MaxRows
        BY <2>1 DEF AttendanceLeft
      <3>3. Cardinality(Inserting') <= Cardinality(Inserting) + 1
        BY <1>4, <3>1, CallsCounted
      <3>4. Cardinality(Inserting) <= Cardinality(All) /\ Cardinality(All) \in Nat
        BY <3>1, CallsCounted
      <3> HIDE DEF All
      <3> QED
        BY <1>5, <3>2, <3>3, <3>4
    <2>2. CASE ~(next.at = "save" /\ next.k = 0)
      <3>1. Inserting' \in SUBSET Inserting
        BY <1>2, <2>2 DEF Inserting
      <3>2. Cardinality(Inserting') <= Cardinality(Inserting)
        BY <1>4, <3>1, CallsCounted
      <3> QED
        BY <1>5, <3>2 DEF DisciplineTyped
    <2> QED
      BY <2>1, <2>2
  <1>7. Len(sanction) + Cardinality(Applying') <= MaxSanctions
    <2>1. CASE next.at = "apply"
      <3>1. Len(sanction) + Cardinality(Applying) < MaxSanctions
        BY <2>1 DEF SanctionLeft, Applying
      <3>2. Applying' \in SUBSET (Applying \cup {c})
        BY <1>2 DEF Applying
      <3>3. Cardinality(Applying') <= Cardinality(Applying) + 1
        BY <1>4, <3>2, CallsCounted
      <3> QED
        BY <1>5, <3>1, <3>3
    <2>2. CASE next.at # "apply"
      <3>1. Applying' \in SUBSET Applying
        BY <1>2, <2>2 DEF Applying
      <3>2. Cardinality(Applying') <= Cardinality(Applying)
        BY <1>4, <3>1, CallsCounted
      <3> QED
        BY <1>5, <3>2 DEF DisciplineTyped
    <2> QED
      BY <2>1, <2>2
  <1> QED
    BY <1>1, <1>2, <1>3, <1>6, <1>7 DEF DisciplineTyped, DisciplineTypeOK

LEMMA RowsTyped ==
  ASSUME DisciplineTyped
  PROVE  /\ \A on \in 1..Days: \A k \in Found(on):
              ReadRow(k, on) \in AttendanceRow /\ k \in 0..Len(attendance)
         /\ \A k \in DOMAIN attendance: attendance[k] \in AttendanceRow /\ k \in 1..Len(attendance)
         /\ \A k \in DOMAIN sanction: sanction[k] \in Sanction /\ k \in 1..Len(sanction)
         /\ clock.day \in 1..Days /\ clock.hour \in 1..Hours
         /\ Len(attendance) \in Nat /\ Len(sanction) \in Nat
         /\ Len(attendance) <= MaxRows /\ Len(sanction) <= MaxSanctions
  <1>1. /\ attendance \in Seq(AttendanceRow) /\ sanction \in Seq(Sanction)
        /\ Len(attendance) <= MaxRows /\ Len(sanction) <= MaxSanctions
        /\ clock.day \in 1..Days /\ clock.hour \in 1..Hours
    BY DEF DisciplineTyped, DisciplineTypeOK
  <1>2. /\ \A k \in DOMAIN attendance: attendance[k] \in AttendanceRow /\ k \in 1..Len(attendance)
        /\ \A k \in DOMAIN sanction: sanction[k] \in Sanction /\ k \in 1..Len(sanction)
    BY <1>1
  <1>3. \A on \in 1..Days: NewRow(on, "present") \in AttendanceRow
    BY DisciplineAssumption DEF NewRow, AttendanceRow, Unset
  <1>4. \A on \in 1..Days: \A k \in Found(on): k = 0 \/ k \in DOMAIN attendance
    BY DEF Found
  <1>5. \A on \in 1..Days: \A k \in Found(on): ReadRow(k, on) \in AttendanceRow
    BY <1>2, <1>3, <1>4 DEF ReadRow
  <1> QED
    BY <1>1, <1>2, <1>4, <1>5
\* A call that read a row, or found none, and will save it.
LEMMA WillSaveTyped ==
  ASSUME IsFiniteSet(Clients), DisciplineTyped, focus = "discipline", UNCHANGED focus,
         NEW c \in Clients, NEW endpoint \in Endpoints, NEW k \in 0..Len(attendance),
         NEW read \in AttendanceRow, NEW new \in AttendanceRow, NEW check \in BOOLEAN,
         WillSave(c, endpoint, k, read, new, check)
  PROVE  DisciplineTyped'
  <1> DEFINE next == [at |-> "save", endpoint |-> endpoint, k |-> k, read |-> read, new |-> new,
                      check |-> check]
  <1>1. k \in 0..MaxRows
    BY RowsTyped, DisciplineAssumption
  <1>2. next \in DisciplineCall
    BY <1>1 DEF DisciplineCall
  <1>3. PointsToRow(next)
    BY DEF PointsToRow
  <1>4. Continue(c, next) /\ (next.at = "save" /\ next.k = 0 => AttendanceLeft) /\ next.at # "apply"
    BY DEF WillSave
  <1> HIDE DEF next
  <1> QED
    BY <1>2, <1>3, <1>4, ReadingTyped

LEMMA AttendanceReadsTyped ==
  ASSUME IsFiniteSet(Clients), DisciplineTyped, focus = "discipline", UNCHANGED focus,
         NEW c \in Clients, AttendanceStep(c), ~SaveRow(c)
  PROVE  DisciplineTyped'
  <1>1. /\ \A e \in {"checkIn", "checkOut", "completeCheckout", "justify", "manualEntry"}: e \in Endpoints
        /\ 1..Hours \subseteq 0..Hours /\ Today \in 1..Days /\ clock.hour \in 0..Hours
    BY DisciplineAssumption, RowsTyped DEF Endpoints, Today
  <1>2. \A row \in AttendanceRow: \A hour: DepartureStatus(row, hour) \in {"present", "absent", "late", "early_leave"}
    BY DEF DepartureStatus, AttendanceRow
  <1>3. \A k \in DOMAIN attendance: attendance[k] \in AttendanceRow /\ k \in 0..Len(attendance)
    BY RowsTyped
  <1>4. ASSUME NEW k \in Found(Today), BeginCheckIn(c, k)
        PROVE  DisciplineTyped'
    <2> DEFINE read == ReadRow(k, Today)
               status == ArrivalStatus(read)
               new == [read EXCEPT !.arrival = clock.hour, !.status = status]
               check == WorksToday /\ status = "late"
    <2>1. read \in AttendanceRow /\ k \in 0..Len(attendance)
      BY <1>1, RowsTyped
    <2>2. status \in {"present", "absent", "late", "early_leave"}
      BY DEF ArrivalStatus
    <2>3. check \in BOOLEAN
      BY DEF WorksToday
    <2>4. WillSave(c, "checkIn", k, read, new, check)
      BY <1>4 DEF BeginCheckIn
    <2> HIDE DEF read, status, check
    <2>5. [[read EXCEPT !.arrival = clock.hour] EXCEPT !.status = status] \in AttendanceRow
      BY <1>1, <2>1, <2>2, AttendanceFields
    <2>6. new \in AttendanceRow
      BY <2>5
    <2> HIDE DEF new
    <2> QED
      BY <1>1, <2>1, <2>3, <2>4, <2>6, WillSaveTyped
  <1>5. ASSUME NEW k \in DOMAIN attendance, BeginCheckOut(c, k)
        PROVE  DisciplineTyped'
    <2> DEFINE read == attendance[k]
               status == DepartureStatus(read, clock.hour)
               new == [read EXCEPT !.departure = clock.hour, !.status = status]
    <2>1. WillSave(c, "checkOut", k, read, new, FALSE)
      BY <1>5 DEF BeginCheckOut
    <2>2. read \in AttendanceRow /\ status \in {"present", "absent", "late", "early_leave"}
      BY <1>2, <1>3
    <2> HIDE DEF read, status
    <2>3. [[read EXCEPT !.departure = clock.hour] EXCEPT !.status = status] \in AttendanceRow
      BY <1>1, <2>2, AttendanceFields
    <2>4. new \in AttendanceRow
      BY <2>3
    <2> HIDE DEF new
    <2> QED
      BY <1>1, <1>3, <2>1, <2>2, <2>4, WillSaveTyped
  <1>6. ASSUME NEW k \in DOMAIN attendance, NEW hour \in 1..Hours, BeginCompleteCheckout(c, k, hour)
        PROVE  DisciplineTyped'
    <2> DEFINE read == attendance[k]
               status == DepartureStatus(read, hour)
               new == [read EXCEPT !.departure = hour, !.estimated = TRUE, !.status = status]
    <2>1. WillSave(c, "completeCheckout", k, read, new, FALSE)
      BY <1>6 DEF BeginCompleteCheckout
    <2>2. read \in AttendanceRow /\ status \in {"present", "absent", "late", "early_leave"}
      BY <1>2, <1>3
    <2> HIDE DEF read, status
    <2>3. [[[read EXCEPT !.departure = hour] EXCEPT !.estimated = TRUE] EXCEPT !.status = status]
            \in AttendanceRow
      BY <1>1, <2>2, AttendanceFields
    <2>4. new \in AttendanceRow
      BY <2>3
    <2> HIDE DEF new
    <2> QED
      BY <1>1, <1>3, <2>1, <2>2, <2>4, WillSaveTyped
  <1>7. ASSUME NEW k \in DOMAIN attendance, BeginJustify(c, k)
        PROVE  DisciplineTyped'
    <2>1. attendance[k] \in AttendanceRow
      BY <1>3
    <2>2. [attendance[k] EXCEPT !.justified = TRUE] \in AttendanceRow
      BY <2>1, AttendanceFields
    <2>3. WillSave(c, "justify", k, attendance[k], [attendance[k] EXCEPT !.justified = TRUE], FALSE)
      BY <1>7 DEF BeginJustify
    <2> QED
      BY <1>1, <1>3, <2>1, <2>2, <2>3, WillSaveTyped
  <1>8. ASSUME NEW on \in EntryDays, NEW arrival \in 1..Hours, NEW departure \in 0..Hours,
               NEW k \in Found(on), BeginManualEntry(c, k, on, arrival, departure)
        PROVE  DisciplineTyped'
    <2> DEFINE read == ReadRow(k, on)
               leaves == IF departure = Unset THEN read.departure ELSE departure
               status == IF arrival > Start THEN "late" ELSE "present"
               new == [read EXCEPT !.arrival = arrival,
                                   !.departure = IF departure = Unset THEN @ ELSE departure,
                                   !.status = status]
    <2>1. read \in AttendanceRow /\ k \in 0..Len(attendance)
      BY DisciplineAssumption, RowsTyped
    <2>2. WillSave(c, "manualEntry", k, read, new, FALSE)
      BY <1>8 DEF BeginManualEntry
    <2> HIDE DEF read
    <2>3. leaves \in 0..Hours
      BY <2>1 DEF AttendanceRow
    <2>4. new = [[[read EXCEPT !.arrival = arrival] EXCEPT !.departure = leaves] EXCEPT !.status = status]
      BY <2>1 DEF AttendanceRow
    <2>5. status \in {"present", "absent", "late", "early_leave"}
      OBVIOUS
    <2> HIDE DEF leaves, status, new
    <2>6. new \in AttendanceRow
      BY <1>1, <2>1, <2>3, <2>4, <2>5, AttendanceFields
    <2> QED
      BY <1>1, <2>1, <2>2, <2>6, WillSaveTyped
  <1> QED
    BY <1>4, <1>5, <1>6, <1>7, <1>8 DEF AttendanceStep

\* One step of a call writes a row, or adds it in the room the call had.
LEMMA RowWritten ==
  ASSUME DisciplineTyped, focus = "discipline", UNCHANGED focus,
         clock' \in [day: 1..Days, hour: 1..Hours],
         attendance' \in Seq(AttendanceRow), Len(attendance) <= Len(attendance'),
         sanction' \in Seq(Sanction), Len(sanction) <= Len(sanction'),
         call' \in [Clients -> DisciplineCall],
         \A c \in Clients: call'[c] = call[c] \/ call'[c].at \notin {"save", "decide"},
         Cardinality(Inserting') \in Nat, Cardinality(Applying') \in Nat,
         Len(attendance') + Cardinality(Inserting') <= MaxRows,
         Len(sanction') + Cardinality(Applying') <= MaxSanctions
  PROVE  DisciplineTyped'
  <1>1. /\ Len(attendance) \in Nat /\ Len(attendance') \in Nat
        /\ Len(sanction) \in Nat /\ Len(sanction') \in Nat
    BY LenProperties DEF DisciplineTyped, DisciplineTypeOK
  <1>2. MaxRows \in Nat /\ MaxSanctions \in Nat
    BY DisciplineAssumption
  <1>3. ASSUME NEW a \in Nat, NEW b \in Nat, NEW m \in Nat, a + b <= m
        PROVE  a <= m
    BY <1>3
  <1>4. Len(attendance') <= MaxRows /\ Len(sanction') <= MaxSanctions
    BY <1>1, <1>2, <1>3
  <1>5. ASSUME NEW a \in Nat, NEW b \in Nat, a <= b
        PROVE  0..a \subseteq 0..b /\ 1..a \subseteq 1..b
    BY <1>5
  <1>6. /\ 0..Len(attendance) \subseteq 0..Len(attendance')
        /\ 1..Len(sanction) \subseteq 1..Len(sanction')
    BY <1>1, <1>5
  <1>7. ASSUME NEW c \in Clients
        PROVE  PointsToRow(call[c])'
    <2>1. PointsToRow(call[c])
      BY DEF DisciplineTyped
    <2> QED
      BY <1>6, <2>1, Zenon DEF PointsToRow
  <1> QED
    BY <1>4, <1>7 DEF DisciplineTyped, DisciplineTypeOK

\* The numbers a step compares.
LEMMA BoundsAreNumbers ==
  ASSUME IsFiniteSet(Clients), DisciplineTyped
  PROVE  /\ Len(attendance) \in Nat /\ Len(sanction) \in Nat
         /\ MaxRows \in Nat /\ MaxSanctions \in Nat
         /\ Inserting \in SUBSET Clients /\ Inserting' \in SUBSET Clients
         /\ Applying \in SUBSET Clients /\ Applying' \in SUBSET Clients
         /\ Cardinality(Inserting) \in Nat /\ Cardinality(Inserting') \in Nat
         /\ Cardinality(Applying) \in Nat /\ Cardinality(Applying') \in Nat
  <1>1. Inserting \in SUBSET Clients /\ Inserting' \in SUBSET Clients
        /\ Applying \in SUBSET Clients /\ Applying' \in SUBSET Clients
    BY DEF Inserting, Applying
  <1> QED
    BY <1>1, CallsCounted, DisciplineAssumption, LenProperties DEF DisciplineTyped, DisciplineTypeOK

LEMMA MarkAbsentTyped ==
  ASSUME IsFiniteSet(Clients), DisciplineTyped, focus = "discipline", UNCHANGED focus,
         NEW on \in EntryDays, MarkAbsent(on)
  PROVE  DisciplineTyped'
  <1> DEFINE All == {d \in Clients: call[d].at = "save"}
  <1>1. NewRow(on, "absent") \in AttendanceRow
    BY DisciplineAssumption DEF NewRow, AttendanceRow, Unset
  <1>2. /\ attendance' = Append(attendance, NewRow(on, "absent"))
        /\ UNCHANGED <<clock, sanction, call>>
        /\ Len(attendance) + Cardinality(All) < MaxRows
    BY DEF MarkAbsent, AttendanceLeft
  <1>3. attendance \in Seq(AttendanceRow) /\ Len(sanction) + Cardinality(Applying) <= MaxSanctions
    BY DEF DisciplineTyped, DisciplineTypeOK
  <1>4. attendance' \in Seq(AttendanceRow) /\ Len(attendance') = Len(attendance) + 1
    BY <1>1, <1>2, <1>3, AppendProperties
  <1>5. Inserting' = Inserting /\ Applying' = Applying /\ Inserting \in SUBSET All
        /\ All \in SUBSET Clients
    BY <1>2 DEF Inserting, Applying
  <1>6. Cardinality(Inserting) <= Cardinality(All) /\ Cardinality(All) \in Nat
    BY <1>5, CallsCounted
  <1> HIDE DEF All
  <1>7. ASSUME NEW n \in Nat, NEW i \in Nat, NEW a \in Nat, NEW m \in Nat, i <= a, n + a < m
        PROVE  n + 1 + i <= m /\ n <= n + 1
    BY <1>7
  <1>8. Len(attendance') + Cardinality(Inserting') <= MaxRows /\ Len(attendance) <= Len(attendance')
    BY <1>2, <1>4, <1>5, <1>6, <1>7, BoundsAreNumbers
  <1>9. Len(sanction) <= Len(sanction') /\ Len(sanction') + Cardinality(Applying') <= MaxSanctions
    BY <1>2, <1>3, <1>5, BoundsAreNumbers
  <1>10. /\ clock' \in [day: 1..Days, hour: 1..Hours] /\ sanction' \in Seq(Sanction)
         /\ call' \in [Clients -> DisciplineCall] /\ \A d \in Clients: call'[d] = call[d]
    BY <1>2 DEF DisciplineTyped, DisciplineTypeOK
  <1> QED
    BY <1>4, <1>8, <1>9, <1>10, BoundsAreNumbers, RowWritten

LEMMA SaveRowTyped ==
  ASSUME IsFiniteSet(Clients), DisciplineTyped, focus = "discipline", UNCHANGED focus,
         NEW c \in Clients, SaveRow(c)
  PROVE  DisciplineTyped'
  <1> DEFINE at == call[c]
             next == IF at.check THEN [at |-> "count", rule |-> 1] ELSE Idle
  <1>1. /\ attendance \in Seq(AttendanceRow) /\ call \in [Clients -> DisciplineCall]
        /\ Len(attendance) + Cardinality(Inserting) <= MaxRows
        /\ Len(sanction) + Cardinality(Applying) <= MaxSanctions
        /\ PointsToRow(call[c])
    BY DEF DisciplineTyped, DisciplineTypeOK
  <1>2. at \in [at: {"save"}, endpoint: Endpoints, k: 0..MaxRows, read: AttendanceRow,
                new: AttendanceRow, check: BOOLEAN]
    BY <1>1 DEF SaveRow, DisciplineCall, Idle
  <1>3. next \in DisciplineCall /\ next.at \in {"count", "idle"}
    BY RulesAre DEF DisciplineCall, Idle
  <1>4. Goto(c, next) /\ UNCHANGED <<clock, sanction>>
    BY DEF SaveRow
  <1>5. at.k \in 0..Len(attendance)
    BY <1>1, <1>2 DEF PointsToRow
  <1>6. /\ at.k = 0 => attendance' = Append(attendance, at.new)
        /\ at.k # 0 => \E row \in Saved(attendance[at.k], at.read, at.new):
                         attendance' = [attendance EXCEPT ![at.k] = row]
    BY DEF SaveRow
  <1> HIDE DEF next
  <1>7. /\ call' \in [Clients -> DisciplineCall] /\ call'[c] = next
        /\ \A d \in Clients \ {c}: call'[d] = call[d]
    BY <1>1, <1>3, <1>4 DEF Goto
  <1>8. at.at = "save" /\ next.at \notin {"save", "decide", "apply"}
    BY <1>2, <1>3
  <1>9. Inserting' \in SUBSET (Inserting \ {c}) /\ Applying' \in SUBSET Applying
        /\ (at.k = 0 => c \in Inserting)
    BY <1>7, <1>8 DEF Inserting, Applying
  <1>10. Cardinality(Applying') <= Cardinality(Applying)
    BY <1>9, BoundsAreNumbers, CallsCounted
  <1>11. clock' \in [day: 1..Days, hour: 1..Hours] /\ sanction' \in Seq(Sanction)
         /\ Len(sanction') = Len(sanction)
    BY <1>4 DEF DisciplineTyped, DisciplineTypeOK
  <1>12. ASSUME NEW n \in Nat, NEW a \in Nat, NEW b \in Nat, NEW m \in Nat, n + a <= m, b <= a
         PROVE  n + b <= m /\ n <= n
    BY <1>12
  <1>13. Len(sanction) <= Len(sanction') /\ Len(sanction') + Cardinality(Applying') <= MaxSanctions
    BY <1>1, <1>10, <1>11, <1>12, BoundsAreNumbers
  <1>14. /\ attendance' \in Seq(AttendanceRow) /\ Len(attendance) <= Len(attendance')
         /\ Len(attendance') + Cardinality(Inserting') <= MaxRows
    <2>1. CASE at.k = 0
      <3>1. attendance' \in Seq(AttendanceRow) /\ Len(attendance') = Len(attendance) + 1
        BY <1>1, <1>2, <1>6, <2>1, AppendProperties
      <3>2. Cardinality(Inserting') + 1 <= Cardinality(Inserting)
        BY <1>9, <2>1, BoundsAreNumbers, CallsCounted
      <3>3. ASSUME NEW n \in Nat, NEW a \in Nat, NEW b \in Nat, NEW m \in Nat, n + a <= m, b + 1 <= a
            PROVE  n + 1 + b <= m /\ n <= n + 1
        BY <3>3
      <3> QED
        BY <1>1, <3>1, <3>2, <3>3, BoundsAreNumbers
    <2>2. CASE at.k # 0
      <3>1. PICK row \in Saved(attendance[at.k], at.read, at.new):
              attendance' = [attendance EXCEPT ![at.k] = row]
        BY <1>6, <2>2
      <3>2. at.k \in 1..Len(attendance)
        <4>1. \A n \in Nat: \A k \in 0..n: k # 0 => k \in 1..n
          OBVIOUS
        <4>2. Len(attendance) \in Nat
          BY BoundsAreNumbers
        <4> QED
          BY <1>5, <2>2, <4>1, <4>2
      <3>3. attendance[at.k] \in AttendanceRow
        BY <1>1, <3>2, LenProperties
      <3>4. row \in AttendanceRow
        BY <1>2, <3>1, <3>3, SavedTyped
      <3>5. attendance' \in Seq(AttendanceRow) /\ Len(attendance') = Len(attendance)
        BY <1>1, <3>1, <3>2, <3>4, ExceptSeq
      <3>6. Inserting' \in SUBSET Inserting
        BY <1>9
      <3>7. Cardinality(Inserting') <= Cardinality(Inserting)
        BY <3>6, BoundsAreNumbers, CallsCounted
      <3> QED
        BY <1>1, <1>12, <3>5, <3>7, BoundsAreNumbers
    <2> QED
      BY <2>1, <2>2
  <1>15. \A d \in Clients: call'[d] = call[d] \/ call'[d].at \notin {"save", "decide"}
    BY <1>7, <1>8
  <1> QED
    BY <1>7, <1>11, <1>13, <1>14, <1>15, BoundsAreNumbers, RowWritten
\* What an approval and a cancellation read.
LEMMA DecisionsRead ==
  ASSUME IsFiniteSet(Clients), DisciplineTyped, focus = "discipline", UNCHANGED focus,
         NEW c \in Clients, NEW k \in DOMAIN sanction,
         BeginApprove(c, k) \/ BeginCancelSanction(c, k)
  PROVE  DisciplineTyped'
  <1>1. /\ sanction[k] \in Sanction /\ k \in 1..Len(sanction) /\ Today \in 1..Days
        /\ Len(sanction) \in Nat /\ MaxSanctions \in Nat /\ Len(sanction) <= MaxSanctions
    BY RowsTyped, BoundsAreNumbers DEF Today
  <1>2. k \in 1..MaxSanctions
    <2>1. \A m, n \in Nat: m <= n => 1..m \subseteq 1..n
      OBVIOUS
    <2> QED
      BY <1>1, <2>1
  <1>3. ASSUME NEW endpoint \in {"approve", "cancel"}, NEW new \in Sanction,
               Continue(c, [at |-> "decide", endpoint |-> endpoint, k |-> k, read |-> sanction[k],
                            new |-> new])
        PROVE  DisciplineTyped'
    <2> DEFINE next == [at |-> "decide", endpoint |-> endpoint, k |-> k, read |-> sanction[k],
                        new |-> new]
    <2>1. next \in DisciplineCall
      BY <1>1, <1>2 DEF DisciplineCall, Endpoints
    <2>2. PointsToRow(next) /\ next.at # "save" /\ next.at # "apply"
      BY <1>1 DEF PointsToRow
    <2>3. Continue(c, next)
      BY <1>3
    <2> HIDE DEF next
    <2> QED
      BY <2>1, <2>2, <2>3, ReadingTyped
  <1>4. CASE BeginApprove(c, k)
    <2> DEFINE new == [sanction[k] EXCEPT !.approved = TRUE, !.date = Today, !.status = "served"]
    <2>1. [[[sanction[k] EXCEPT !.approved = TRUE] EXCEPT !.date = Today] EXCEPT !.status = "served"]
            \in Sanction
      BY <1>1, SanctionFields
    <2>2. new \in Sanction
      BY <2>1
    <2>3. Continue(c, [at |-> "decide", endpoint |-> "approve", k |-> k, read |-> sanction[k],
                       new |-> new])
      BY <1>4 DEF BeginApprove
    <2> HIDE DEF new
    <2> QED
      BY <1>3, <2>2, <2>3
  <1>5. CASE BeginCancelSanction(c, k)
    <2> DEFINE new == [sanction[k] EXCEPT !.status = "cancelled"]
    <2>1. new \in Sanction
      BY <1>1, SanctionFields
    <2>2. Continue(c, [at |-> "decide", endpoint |-> "cancel", k |-> k, read |-> sanction[k],
                       new |-> new])
      BY <1>5 DEF BeginCancelSanction
    <2> HIDE DEF new
    <2> QED
      BY <1>3, <2>1, <2>2
  <1> QED
    BY <1>4, <1>5

\* The background check goes on.
LEMMA CheckStepTyped ==
  ASSUME IsFiniteSet(Clients), DisciplineTyped, focus = "discipline", UNCHANGED focus,
         NEW c \in Clients, BeginCheck(c) \/ CountForRule(c) \/ LookForIssued(c)
  PROVE  DisciplineTyped'
  <1>1. call[c] \in DisciplineCall
    BY DEF DisciplineTyped, DisciplineTypeOK
  <1>2. ASSUME NEW next \in DisciplineCall, next.at \in {"idle", "count", "exists", "apply"},
               next.at = "apply" => SanctionLeft, Continue(c, next)
        PROVE  DisciplineTyped'
    BY <1>2, ReadingTyped DEF PointsToRow
  <1>3. \A at \in {"count", "exists", "apply"}: \A n \in DOMAIN SanctionRules:
          [at |-> at, rule |-> n] \in DisciplineCall
    BY DEF DisciplineCall
  <1>4. Idle \in DisciplineCall /\ Idle.at = "idle"
    BY DEF DisciplineCall, Idle
  <1>5. CASE BeginCheck(c)
    <2>1. Continue(c, [at |-> "count", rule |-> 1])
      BY <1>5 DEF BeginCheck
    <2>2. [at |-> "count", rule |-> 1] \in DisciplineCall
      BY <1>3, RulesAre
    <2> QED
      BY <1>2, <2>1, <2>2
  <1>6. \A n \in DOMAIN SanctionRules:
          NextRule(n) \in DisciplineCall /\ NextRule(n).at \in {"idle", "count"}
    <2>1. ASSUME NEW n \in 1..4, n # 4
          PROVE  n + 1 \in 1..4
      BY <2>1
    <2> QED
      BY <1>3, <1>4, <2>1, RulesAre DEF NextRule
  <1>7. CASE CountForRule(c)
    <2>1. call[c] \in [at: {"count", "exists", "apply"}, rule: DOMAIN SanctionRules]
      BY <1>1, <1>7 DEF CountForRule, DisciplineCall, Idle
    <2> DEFINE next == IF ShouldApply(call[c].rule) THEN [call[c] EXCEPT !.at = "exists"]
                       ELSE NextRule(call[c].rule)
    <2>2. Continue(c, next)
      BY <1>7 DEF CountForRule
    <2>3. [call[c] EXCEPT !.at = "exists"] = [at |-> "exists", rule |-> call[c].rule]
      BY <2>1
    <2>4. next \in DisciplineCall /\ next.at \in {"idle", "count", "exists"}
      BY <1>3, <1>6, <2>1, <2>3
    <2> HIDE DEF next
    <2> QED
      BY <1>2, <2>2, <2>4
  <1>8. CASE LookForIssued(c)
    <2>1. call[c] \in [at: {"count", "exists", "apply"}, rule: DOMAIN SanctionRules]
      BY <1>1, <1>8 DEF LookForIssued, DisciplineCall, Idle
    <2> DEFINE next == IF Issued(call[c].rule) THEN NextRule(call[c].rule)
                       ELSE IF SanctionLeft THEN [call[c] EXCEPT !.at = "apply"] ELSE Idle
    <2>2. Continue(c, next)
      BY <1>8 DEF LookForIssued
    <2>3. [call[c] EXCEPT !.at = "apply"] = [at |-> "apply", rule |-> call[c].rule]
      BY <2>1
    <2>4. /\ next \in DisciplineCall /\ next.at \in {"idle", "count", "apply"}
          /\ next.at = "apply" => SanctionLeft
      BY <1>3, <1>4, <1>6, <2>1, <2>3
    <2> HIDE DEF next
    <2> QED
      BY <1>2, <2>2, <2>4
  <1> QED
    BY <1>5, <1>7, <1>8

\* A call that ends with a row of employee_sanctions written.
LEMMA SanctionWrittenTyped ==
  ASSUME IsFiniteSet(Clients), DisciplineTyped, focus = "discipline", UNCHANGED focus,
         NEW c \in Clients, ApplySanction(c) \/ SaveSanction(c)
  PROVE  DisciplineTyped'
  <1>1. /\ sanction \in Seq(Sanction) /\ call \in [Clients -> DisciplineCall]
        /\ Len(attendance) + Cardinality(Inserting) <= MaxRows
        /\ Len(sanction) + Cardinality(Applying) <= MaxSanctions
        /\ PointsToRow(call[c])
    BY DEF DisciplineTyped, DisciplineTypeOK
  <1>2. Return(c) /\ UNCHANGED <<clock, attendance>>
    BY DEF ApplySanction, SaveSanction
  <1>3. Idle \in DisciplineCall /\ Idle.at \notin {"save", "decide", "apply"}
    BY DEF DisciplineCall, Idle
  <1>4. /\ call' \in [Clients -> DisciplineCall] /\ call'[c] = Idle
        /\ \A d \in Clients \ {c}: call'[d] = call[d]
    BY <1>1, <1>2, <1>3 DEF Return, Goto
  <1>5. Inserting' \in SUBSET Inserting /\ Applying' \in SUBSET (Applying \ {c})
        /\ (call[c].at = "apply" => c \in Applying)
    BY <1>2, <1>3, <1>4 DEF Inserting, Applying
  <1>6. Cardinality(Inserting') <= Cardinality(Inserting)
    BY <1>5, BoundsAreNumbers, CallsCounted
  <1>7. ASSUME NEW n \in Nat, NEW a \in Nat, NEW b \in Nat, NEW m \in Nat, n + a <= m, b <= a
        PROVE  n + b <= m /\ n <= n
    BY <1>7
  <1>8. /\ clock' \in [day: 1..Days, hour: 1..Hours] /\ attendance' \in Seq(AttendanceRow)
        /\ Len(attendance') = Len(attendance)
    BY <1>2 DEF DisciplineTyped, DisciplineTypeOK
  <1>9. Len(attendance) <= Len(attendance') /\ Len(attendance') + Cardinality(Inserting') <= MaxRows
    BY <1>1, <1>6, <1>7, <1>8, BoundsAreNumbers
  <1>10. /\ sanction' \in Seq(Sanction) /\ Len(sanction) <= Len(sanction')
         /\ Len(sanction') + Cardinality(Applying') <= MaxSanctions
    <2>1. CASE ApplySanction(c)
      <3> DEFINE row == [type |-> SanctionRules[call[c].rule], faultDay |-> Today, date |-> Today,
                         status |-> "active", approved |-> FALSE]
      <3>1. call[c].rule \in DOMAIN SanctionRules /\ call[c].at = "apply"
        BY <1>1, <2>1 DEF ApplySanction, DisciplineCall, Idle
      <3>2. SanctionRules[call[c].rule] \in SanctionTypes /\ Today \in 1..Days
        BY <3>1, RowsTyped DEF SanctionTypes, Today
      <3>3. row \in Sanction
        BY <3>2 DEF Sanction
      <3>4. sanction' = Append(sanction, row)
        BY <2>1 DEF ApplySanction
      <3> HIDE DEF row
      <3>5. sanction' \in Seq(Sanction) /\ Len(sanction') = Len(sanction) + 1
        BY <1>1, <3>3, <3>4, AppendProperties
      <3>6. Cardinality(Applying') + 1 <= Cardinality(Applying)
        BY <1>5, <3>1, BoundsAreNumbers, CallsCounted
      <3>7. ASSUME NEW n \in Nat, NEW a \in Nat, NEW b \in Nat, NEW m \in Nat, n + a <= m, b + 1 <= a
            PROVE  n + 1 + b <= m /\ n <= n + 1
        BY <3>7
      <3> QED
        BY <1>1, <3>5, <3>6, <3>7, BoundsAreNumbers
    <2>2. CASE SaveSanction(c)
      <3>1. call[c] \in [at: {"decide"}, endpoint: Endpoints, k: 1..MaxSanctions, read: Sanction,
                         new: Sanction]
        BY <1>1, <2>2 DEF SaveSanction, DisciplineCall, Idle
      <3>2. PICK row \in Saved(sanction[call[c].k], call[c].read, call[c].new):
              sanction' = [sanction EXCEPT ![call[c].k] = row]
        BY <2>2 DEF SaveSanction
      <3>3. call[c].k \in 1..Len(sanction)
        BY <1>1, <3>1 DEF PointsToRow
      <3>4. sanction[call[c].k] \in Sanction
        BY <1>1, <3>3, LenProperties
      <3>5. row \in Sanction
        BY <3>1, <3>2, <3>4, SavedTyped
      <3>6. sanction' \in Seq(Sanction) /\ Len(sanction') = Len(sanction)
        BY <1>1, <3>2, <3>3, <3>5, ExceptSeq
      <3>7. Applying' \in SUBSET Applying
        BY <1>5
      <3>8. Cardinality(Applying') <= Cardinality(Applying)
        BY <3>7, BoundsAreNumbers, CallsCounted
      <3> QED
        BY <1>1, <1>7, <3>6, <3>8, BoundsAreNumbers
    <2> QED
      BY <2>1, <2>2
  <1>11. \A d \in Clients: call'[d] = call[d] \/ call'[d].at \notin {"save", "decide"}
    BY <1>3, <1>4
  <1> QED
    BY <1>4, <1>8, <1>9, <1>10, <1>11, BoundsAreNumbers, RowWritten

LEMMA DisciplineStepTyped ==
  ASSUME IsFiniteSet(Clients), DisciplineTyped, focus = "discipline", UNCHANGED focus, DisciplineNext
  PROVE  DisciplineTyped'
  <1>1. CASE Tick
    <2>1. clock' \in [day: 1..Days, hour: 1..Hours]
      <3>1. clock \in [day: 1..Days, hour: 1..Hours] /\ clock # [day |-> Days, hour |-> Hours]
        BY <1>1 DEF Tick, DisciplineTyped, DisciplineTypeOK
      <3>2. /\ clock.day \in 1..Days /\ clock.hour \in 1..Hours
            /\ clock = [day |-> clock.day, hour |-> clock.hour]
        BY <3>1
      <3>3. Days \in Nat /\ Hours \in Nat \ {0}
        BY DisciplineAssumption
      <3>4. CASE clock.hour < Hours
        <4>1. clock' = [clock EXCEPT !.hour = @ + 1]
          BY <1>1, <3>4 DEF Tick
        <4>2. clock.hour + 1 \in 1..Hours
          BY <3>2, <3>3, <3>4
        <4> QED
          BY <3>1, <4>1, <4>2
      <3>5. CASE ~(clock.hour < Hours)
        <4>1. clock' = [day |-> clock.day + 1, hour |-> 1]
          BY <1>1, <3>5 DEF Tick
        <4>2. clock.hour = Hours
          BY <3>2, <3>3, <3>5
        <4>3. clock.day # Days
          BY <3>1, <3>2, <4>2
        <4>4. clock.day + 1 \in 1..Days /\ 1 \in 1..Hours
          BY <3>2, <3>3, <4>3
        <4> QED
          BY <4>1, <4>4
      <3> QED
        BY <3>4, <3>5
    <2>2. UNCHANGED <<attendance, sanction, call>>
      BY <1>1 DEF Tick
    <2> QED
      BY <2>1, <2>2 DEF DisciplineTyped, DisciplineTypeOK, PointsToRow, Inserting, Applying
  <1>2. ASSUME NEW on \in EntryDays, MarkAbsent(on)
        PROVE  DisciplineTyped'
    BY <1>2, MarkAbsentTyped
  <1>3. ASSUME NEW c \in Clients, AttendanceStep(c)
        PROVE  DisciplineTyped'
    BY <1>3, SaveRowTyped, AttendanceReadsTyped
  <1>4. ASSUME NEW c \in Clients, SanctionStep(c)
        PROVE  DisciplineTyped'
    BY <1>4, DecisionsRead, CheckStepTyped, SanctionWrittenTyped DEF SanctionStep
  <1> QED
    BY <1>1, <1>2, <1>3, <1>4 DEF DisciplineNext
\* One evaluation, or one review, is saved.
LEMMA ReviewStepTyped ==
  ASSUME EvaluationTypeOK, EvaluationNext, EvaluationInv'
  PROVE  EvaluationTypeOK'
  <1>1. review' \in [Rated -> ReviewStatus]
    <2>1. \A e \in Rated: \A status \in ReviewStatus:
            SetReview(e, status) => review' \in [Rated -> ReviewStatus]
      BY DEF SetReview, EvaluationTypeOK
    <2>2. "draft" \in ReviewStatus
      BY DEF ReviewStatus
    <2>3. EvaluationController => UNCHANGED review
      BY DEF EvaluationController, SetKpiWeight, CreateEvaluation, SubmitEvaluation,
             ValidateEvaluation, ContestEvaluation, SetStatus
    <2> QED
      BY <2>1, <2>2, <2>3
         DEF EvaluationNext, PerformanceReviewController, CreateReview, ChangeReview, EvaluationTypeOK
  <1> QED
    BY <1>1 DEF EvaluationInv, WeightsOK, EvaluationsOK, EvaluationTypeOK

StaffTyped ==
  /\ LeaveTypeOK /\ DisciplineTyped /\ FileTypeOK /\ RegulationTyped /\ EvaluationTypeOK
  /\ DeskTypeOK /\ RecordTypeOK /\ OvertimeTypeOK /\ HiringTypeOK /\ RemindersTyped

\* what the other invariants say of the types
StaffKept == ResultsInv /\ ReminderInv /\ JobsWait

LEMMA StaffTypedInitially ==
  ASSUME IsFiniteSet(Clients), StaffInit
  PROVE  StaffTyped
  <1>1. call = [c \in Clients |-> Idle]
    BY DEF StaffInit
  <1>2. ResultsInv
    BY ResultsInitially
  <1>3. LeaveTypeOK
    BY <1>1, LeaveTypedInitially DEF StaffInit
  <1>4. DisciplineTyped
    <2>1. clock \in [day: 1..Days, hour: 1..Hours]
      BY DisciplineAssumption DEF StaffInit, DisciplineInit
    <2>2. attendance = <<>> /\ sanction = <<>>
      BY DEF StaffInit, DisciplineInit
    <2>3. /\ attendance \in Seq(AttendanceRow) /\ Len(attendance) = 0
          /\ sanction \in Seq(Sanction) /\ Len(sanction) = 0
      BY <2>2
    <2>4. call \in [Clients -> DisciplineCall] /\ \A c \in Clients: call[c].at = "idle"
      BY <1>1 DEF DisciplineCall, Idle
    <2>5. Inserting = {} /\ Applying = {} /\ \A c \in Clients: PointsToRow(call[c])
      BY <2>4 DEF Inserting, Applying, PointsToRow
    <2>6. Cardinality(Inserting) = 0 /\ Cardinality(Applying) = 0
      BY <2>5, FS_EmptySet
    <2> QED
      BY <2>1, <2>3, <2>4, <2>5, <2>6, DisciplineAssumption DEF DisciplineTyped, DisciplineTypeOK
  <1>5. FileTypeOK
    BY <1>2 DEF ResultsInv, FileTypeOK, StaffInit, FileInit, DocumentRow
  <1>6. RegulationTyped
    BY <1>1 DEF StaffInit, RegulationInit, RegulationTyped, RegulationTypeOK, SheetsOnce,
                RegulationCall, CopyRow, PaperRow
  <1>7. EvaluationTypeOK
    BY <1>2 DEF ResultsInv, EvaluationInv, WeightsOK, EvaluationsOK, EvaluationTypeOK,
                StaffInit, EvaluationInit, ReviewStatus
  <1>8. DeskTypeOK
    <2>1. 0 \in 0..LastRitualDay
      BY DeskAssumption
    <2> QED
      BY <1>2, <2>1 DEF ResultsInv, EventsInv, EventsOK, DeskTypeOK, StaffInit, DeskInit, TicketRow,
                        OccurrenceStatus
  <1>9. RecordTypeOK
    <2>1. NoJournal \in JournalRow /\ 0 \in RecordDays
      BY RecordAssumption DEF NoJournal, JournalRow, RecordDays
    <2> QED
      BY <2>1 DEF StaffInit, RecordInit, RecordTypeOK
  <1>10. OvertimeTypeOK
    BY <1>2 DEF ResultsInv, TimesheetInv, OvertimeTypeOK
  <1>11. HiringTypeOK
    <2>1. 0 \in HiringDays
      BY HiringAssumption DEF HiringDays
    <2> QED
      BY <1>1, <2>1 DEF StaffInit, HiringInit, HiringTypeOK, HiringCall
  <1>12. RemindersTyped
    <2>1. 0 \in ReminderDays /\ 0 \in DueDates /\ 0 \in 0..Slots
      BY ReminderAssumption DEF ReminderDays, DueDates
    <2>2. due \in [DueTasks -> DueDates]
      BY <2>1 DEF StaffInit, ReminderInit
    <2>3. stored \in {"full", "short", "unset"} /\ onLeave \subseteq ReminderDays
      BY DEF StaffInit, ReminderInit
    <2>4. nudges = {} /\ IsFiniteSet(nudges)
      BY FS_EmptySet DEF StaffInit, ReminderInit
    <2>5. job \in [Servers -> JobState]
      BY DEF StaffInit, ReminderInit, JobState
    <2> QED
      BY <1>1, <2>1, <2>2, <2>3, <2>4, <2>5
         DEF StaffInit, ReminderInit, RemindersTyped, ReminderTypeOK, NudgeCall, Punch
  <1> QED
    BY <1>3, <1>4, <1>5, <1>6, <1>7, <1>8, <1>9, <1>10, <1>11, <1>12 DEF StaffTyped
\* The components that a step is not about keep their rows, and their calls are none.
LEMMA OthersTyped ==
  ASSUME StaffTyped, UNCHANGED focus
  PROVE  /\ UNCHANGED leaveVars /\ (focus # "leave" \/ UNCHANGED call) => LeaveTypeOK'
         /\ UNCHANGED disciplineVars /\ (focus # "discipline" \/ UNCHANGED call) => DisciplineTyped'
         /\ UNCHANGED fileVars => FileTypeOK'
         /\ UNCHANGED regulationVars /\ (focus \notin {"regulations", "papers"} \/ UNCHANGED call)
              => RegulationTyped'
         /\ UNCHANGED evaluationVars => EvaluationTypeOK'
         /\ UNCHANGED deskVars => DeskTypeOK'
         /\ UNCHANGED recordVars => RecordTypeOK'
         /\ UNCHANGED timesheet => OvertimeTypeOK'
         /\ UNCHANGED hiringVars /\ (focus \notin {"openings", "positions"} \/ UNCHANGED call)
              => HiringTypeOK'
         /\ UNCHANGED reminderVars /\ (focus \notin {"deadlines", "punches"} \/ UNCHANGED call)
              => RemindersTyped'
  <1>1. UNCHANGED leaveVars /\ (focus # "leave" \/ UNCHANGED call) => LeaveTypeOK'
    BY DEF StaffTyped, LeaveTypeOK, leaveVars
  <1>2. UNCHANGED disciplineVars /\ (focus # "discipline" \/ UNCHANGED call) => DisciplineTyped'
    BY DEF StaffTyped, DisciplineTyped, DisciplineTypeOK, PointsToRow, Inserting, Applying,
           disciplineVars
  <1>3. UNCHANGED fileVars => FileTypeOK'
    BY DEF StaffTyped, FileTypeOK, fileVars
  <1>4. UNCHANGED regulationVars /\ (focus \notin {"regulations", "papers"} \/ UNCHANGED call)
          => RegulationTyped'
    BY DEF StaffTyped, RegulationTyped, RegulationTypeOK, SheetsOnce, regulationVars
  <1>5. UNCHANGED evaluationVars => EvaluationTypeOK'
    BY DEF StaffTyped, EvaluationTypeOK, evaluationVars
  <1>6. UNCHANGED deskVars => DeskTypeOK'
    BY DEF StaffTyped, DeskTypeOK, deskVars, ticketVars, eventVars, ritualVars
  <1>7. UNCHANGED recordVars => RecordTypeOK'
    BY DEF StaffTyped, RecordTypeOK, recordVars
  <1>8. UNCHANGED timesheet => OvertimeTypeOK'
    BY DEF StaffTyped, OvertimeTypeOK
  <1>9. UNCHANGED hiringVars /\ (focus \notin {"openings", "positions"} \/ UNCHANGED call)
          => HiringTypeOK'
    BY DEF StaffTyped, HiringTypeOK, hiringVars
  <1>10. UNCHANGED reminderVars /\ (focus \notin {"deadlines", "punches"} \/ UNCHANGED call)
           => RemindersTyped'
    BY DEF StaffTyped, RemindersTyped, ReminderTypeOK, reminderVars, deadlineVars, punchVars
  <1> QED
    BY <1>1, <1>2, <1>3, <1>4, <1>5, <1>6, <1>7, <1>8, <1>9, <1>10

LEMMA ReminderStepTyped ==
  ASSUME RemindersTyped, RemindersOK', UNCHANGED focus, focus \in {"deadlines", "punches"},
         ReminderNext
  PROVE  RemindersTyped'
  BY DeadlineStepTyped, PunchStepTyped DEF ReminderNext, RemindersOK

LEMMA StaffStepTyped ==
  ASSUME IsFiniteSet(Clients), StaffTyped, StaffKept', [StaffNext]_<<staffVars, call, focus>>
  PROVE  StaffTyped'
  <1>1. UNCHANGED focus
    BY DEF StaffNext
  <1>2. CASE UNCHANGED <<staffVars, call>>
    BY <1>1, <1>2, OthersTyped DEF StaffTyped, staffVars
  <1>3. CASE /\ focus = "leave" /\ LeaveNext
             /\ UNCHANGED <<disciplineVars, fileVars, regulationVars, evaluationVars,
                            deskVars, recordVars, timesheet, hiringVars, reminderVars>>
    <2>1. LeaveTypeOK'
      BY <1>1, <1>3, LeaveStepTyped DEF StaffTyped
    <2> QED
      BY <1>1, <1>3, <2>1, OthersTyped DEF StaffTyped
  <1>4. CASE /\ focus = "discipline" /\ DisciplineNext
             /\ UNCHANGED <<leaveVars, fileVars, regulationVars, evaluationVars,
                            deskVars, recordVars, timesheet, hiringVars, reminderVars>>
    <2>1. DisciplineTyped'
      BY <1>1, <1>4, DisciplineStepTyped DEF StaffTyped
    <2> QED
      BY <1>1, <1>4, <2>1, OthersTyped DEF StaffTyped
  <1>5. CASE /\ focus \in {"initiations", "documents"} /\ FileNext
             /\ UNCHANGED <<leaveVars, disciplineVars, regulationVars, evaluationVars,
                            deskVars, recordVars, timesheet, hiringVars, reminderVars>>
    <2>1. FileTypeOK'
      BY <1>5, FileStepTyped DEF StaffTyped, StaffKept, ResultsInv
    <2> QED
      BY <1>1, <1>5, <2>1, OthersTyped DEF StaffTyped
  <1>6. CASE /\ focus \in {"regulations", "papers"} /\ RegulationNext
             /\ UNCHANGED <<leaveVars, disciplineVars, fileVars, evaluationVars,
                            deskVars, recordVars, timesheet, hiringVars, reminderVars>>
    <2>1. RegulationTyped'
      BY <1>1, <1>6, RegulationStepTyped DEF StaffTyped
    <2> QED
      BY <1>1, <1>6, <2>1, OthersTyped DEF StaffTyped
  <1>7. CASE /\ focus = "evaluations" /\ EvaluationNext
             /\ UNCHANGED <<leaveVars, disciplineVars, fileVars, regulationVars,
                            deskVars, recordVars, timesheet, hiringVars, reminderVars>>
    <2>1. EvaluationTypeOK'
      BY <1>7, ReviewStepTyped DEF StaffTyped, StaffKept, ResultsInv
    <2> QED
      BY <1>1, <1>7, <2>1, OthersTyped DEF StaffTyped
  <1>8. CASE /\ focus \in {"tickets", "events", "rituals"} /\ DeskNext
             /\ UNCHANGED <<leaveVars, disciplineVars, fileVars, regulationVars,
                            evaluationVars, recordVars, timesheet, hiringVars, reminderVars>>
    <2>1. DeskTypeOK'
      BY <1>8, DeskStepTyped DEF StaffTyped, StaffKept, ResultsInv, EventsInv, EventsOK
    <2> QED
      BY <1>1, <1>8, <2>1, OthersTyped DEF StaffTyped
  <1>9. CASE /\ focus = "records" /\ RecordNext
             /\ UNCHANGED <<leaveVars, disciplineVars, fileVars, regulationVars,
                            evaluationVars, deskVars, timesheet, hiringVars, reminderVars>>
    <2>1. RecordTypeOK'
      BY <1>9, RecordStepTyped DEF StaffTyped
    <2> QED
      BY <1>1, <1>9, <2>1, OthersTyped DEF StaffTyped
  <1>10. CASE /\ focus \in {"openings", "positions"} /\ HiringNext
              /\ UNCHANGED <<leaveVars, disciplineVars, fileVars, regulationVars,
                             evaluationVars, deskVars, recordVars, timesheet, reminderVars>>
    <2>1. HiringTypeOK'
      BY <1>1, <1>10, OpeningStepTyped, ApplicationStepTyped, PositionStepTyped
         DEF HiringNext, StaffTyped
    <2> QED
      BY <1>1, <1>10, <2>1, OthersTyped DEF StaffTyped
  <1>11. CASE /\ focus \in {"deadlines", "punches"} /\ ReminderNext
              /\ UNCHANGED <<leaveVars, disciplineVars, fileVars, regulationVars,
                             evaluationVars, deskVars, recordVars, timesheet, hiringVars>>
    <2>1. RemindersTyped'
      BY <1>1, <1>11, ReminderStepTyped DEF StaffTyped, StaffKept, ReminderInv
    <2> QED
      BY <1>1, <1>11, <2>1, OthersTyped DEF StaffTyped
  <1>12. \/ StaffNext \/ UNCHANGED <<staffVars, call>>
    OBVIOUS
  <1> QED
    BY <1>2, <1>3, <1>4, <1>5, <1>6, <1>7, <1>8, <1>9, <1>10, <1>11, <1>12, Zenon DEF StaffNext

LEMMA StaffKeptBySteps ==
  ASSUME StaffKept, [StaffNext]_<<staffVars, call, focus>>
  PROVE  StaffKept'
  <1>1. ResultsInv'
    BY ResultsStepKeeps DEF StaffKept
  <1>2. (ReminderInv /\ JobsWait)'
    <2>1. CASE ReminderNext /\ UNCHANGED focus
      BY <2>1, ReminderStepKeeps, JobsKeepWaiting DEF StaffKept, ReminderInv
    <2>2. CASE UNCHANGED reminderVars /\ UNCHANGED focus
      BY <2>2 DEF StaffKept, reminderVars, deadlineVars, ReminderInv, RemindersOK, NoneForgotten,
                  JobsWait, Expected, Untouched, Told
    <2> QED
      BY <2>1, <2>2 DEF StaffNext, staffVars
  <1> QED
    BY <1>1, <1>2 DEF StaffKept

\* Every row that the services of core/hr and the reminders save, and whatever a call that
\* overlaps others holds on to between its awaits, is well formed, and the tables that only
\* grow stay within their bounds, for any finite number of callers.
THEOREM StaffIsTyped ==
  ASSUME IsFiniteSet(Clients)
  PROVE  StaffSpec => []StaffTypeOK
  <1>1. StaffInit => StaffKept /\ StaffTyped
    BY StaffTypedInitially, ResultsInitially, RemindersInitially
       DEF StaffInit, StaffKept, JobsWait, ReminderInit
  <1>2. StaffKept /\ StaffTyped /\ [StaffNext]_<<staffVars, call, focus>>
          => (StaffKept /\ StaffTyped)'
    BY StaffKeptBySteps, StaffStepTyped
  <1>3. StaffTyped => StaffTypeOK
    BY DEF StaffTyped, StaffTypeOK, DisciplineTyped, RegulationTyped, RemindersTyped
  <1> QED
    BY <1>1, <1>2, <1>3, PTL DEF StaffSpec
=============================================================================
