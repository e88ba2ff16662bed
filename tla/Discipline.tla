----------------------------- MODULE Discipline -----------------------------
(***************************************************************************)
(* The attendance of one employee and the sanctions it leads to            *)
(* (core/hr/services/attendance.service.ts, automatic-sanction.service.ts  *)
(* and their controllers).                                                 *)
(*                                                                         *)
(* A handler reads a row, decides, and saves it in a later await.  The     *)
(* check that a late arrival starts runs in the background, after its      *)
(* answer: call[c] goes from the save straight to the check.               *)
(*                                                                         *)
(* Left out: geofencing (a refusal is no step), the tasks ticked at a      *)
(* departure, the notifications and the announced thresholds.              *)
(***************************************************************************)
EXTENDS Callers, Integers, Sequences, FiniteSets, FiniteSetsExt

CONSTANTS AttendanceCalls,  \* the endpoints used, of those named in Endpoints
          Days,        \* the days 1..Days of the run
          Hours,       \* the hours 1..Hours of a day
          Start,       \* workStartTime of the employee
          FullDay,     \* hours below which a departure is early
          WorkDays,    \* days the employee works
          WeekOf, MonthOf, YearOf, \* the calendar: functions on 1..Days
          LatesPerWeek,       \* SANCTION_RULES: 3
          LatesPerMonth,      \* 4
          WarningsPerYear,    \* 3
          SuspensionsPerYear, \* 2
          EntryDays,    \* bound: days HR marks as absent or enters by hand
          MaxRows,      \* bound on the rows of office_attendances
          MaxSanctions  \* bound on the rows of employee_sanctions

ASSUME DisciplineAssumption ==
  /\ Days \in Nat \ {0} /\ Hours \in Nat \ {0} /\ EntryDays \subseteq 1..Days
  /\ WarningsPerYear \in Nat /\ SuspensionsPerYear \in Nat
  /\ MaxRows \in Nat /\ MaxSanctions \in Nat

Endpoints == {"checkIn", "checkOut", "completeCheckout", "justify", "markAbsent",
              "manualEntry", "check", "approve", "cancel"}

VARIABLES clock, attendance, sanction

disciplineVars == <<clock, attendance, sanction>>

-----------------------------------------------------------------------------
(* Rows and calls *)

Unset == 0 \* a time that is not set

AttendanceRow == [day: 1..Days, arrival: 0..Hours, departure: 0..Hours,
        status: {"present", "absent", "late", "early_leave"},
        justified: BOOLEAN, estimated: BOOLEAN]

NewRow(day, status) ==
  [day |-> day, arrival |-> Unset, departure |-> Unset, status |-> status,
   justified |-> FALSE, estimated |-> FALSE]

\* SANCTION_RULES, in the order they are looked at
SanctionRules == <<"warning_letter", "formal_warning", "suspension", "termination">>
SanctionTypes == {SanctionRules[i]: i \in DOMAIN SanctionRules}

\* faultDay never changes, date is the day of the approval once there is one
Sanction == [type: SanctionTypes, faultDay: 1..Days, date: 1..Days,
             status: {"active", "served", "cancelled"}, approved: BOOLEAN]

\* "save": row number k (0: a new one) was read as read and is saved as new
DisciplineCall ==
  {Idle}
  \cup [at: {"save"}, endpoint: Endpoints, k: 0..MaxRows, read: AttendanceRow, new: AttendanceRow, check: BOOLEAN]
  \cup [at: {"decide"}, endpoint: Endpoints, k: 1..MaxSanctions, read: Sanction, new: Sanction]
  \cup [at: {"count", "exists", "apply"}, rule: DOMAIN SanctionRules]

DisciplineTypeOK ==
  /\ clock \in [day: 1..Days, hour: 1..Hours]
  /\ attendance \in Seq(AttendanceRow) /\ Len(attendance) <= MaxRows
  /\ sanction \in Seq(Sanction) /\ Len(sanction) <= MaxSanctions
  /\ focus = "discipline" => call \in [Clients -> DisciplineCall]

DisciplineInit ==
  /\ clock = [day |-> 1, hour |-> 1]
  /\ attendance = <<>>
  /\ sanction = <<>>

-----------------------------------------------------------------------------
(* What the services compute *)

Today == clock.day
WorksToday == Today \in WorkDays

\* findOne by employee and day, without an order: any of the rows of that day
Found(day) ==
  LET rows == {k \in DOMAIN attendance: attendance[k].day = day}
  IN  IF rows = {} THEN {0} ELSE rows

\* the row found, or the one to create
ReadRow(k, day) == IF k = 0 THEN NewRow(day, "present") ELSE attendance[k]

\* status of checkIn: late after the start of a work day, or when marked absent
ArrivalStatus(row) ==
  IF WorksToday /\ (row.status = "absent" \/ clock.hour > Start) THEN "late" ELSE "present"

\* status of a departure: an early one replaces what the arrival said
DepartureStatus(row, hour) ==
  IF hour - row.arrival < FullDay THEN "early_leave" ELSE row.status

\* repository.save: it reads the row again and writes what differs from the entity, which
\* is all of it, or only what the handler changed when the other write lands in between
Saved(row, read, new) ==
  {new, [f \in DOMAIN row |-> IF new[f] # read[f] THEN new[f] ELSE row[f]]}

\* the days of the period of a rule that have come
Period(rule) ==
  LET of == CASE SanctionRules[rule] = "warning_letter" -> WeekOf
              [] SanctionRules[rule] = "formal_warning" -> MonthOf
              [] OTHER -> YearOf
  IN  {d \in 1..Today: of[d] = of[Today]}

LatesIn(days) ==
  Cardinality({k \in DOMAIN attendance: attendance[k].status = "late"
                                        /\ attendance[k].day \in days})

\* (mutant) cancelled sanctions count
SanctionsEverIn(type, days) ==
  Cardinality({k \in DOMAIN sanction: sanction[k].type = type /\ sanction[k].date \in days})

SanctionsIn(type, days) ==
  Cardinality({k \in DOMAIN sanction: /\ sanction[k].type = type
                                      /\ sanction[k].status # "cancelled"
                                      /\ sanction[k].date \in days})

ShouldApply(rule) ==
  CASE SanctionRules[rule] = "warning_letter" -> LatesIn(Period(rule)) >= LatesPerWeek
    [] SanctionRules[rule] = "formal_warning" -> LatesIn(Period(rule)) >= LatesPerMonth
    [] SanctionRules[rule] = "suspension" ->
         SanctionsIn("formal_warning", Period(rule)) >= WarningsPerYear
    [] SanctionRules[rule] = "termination" ->
         SanctionsIn("suspension", Period(rule)) >= SuspensionsPerYear

\* (mutant) a cancelled sanction of today does not count as issued
IssuedStanding(rule) ==
  \E k \in DOMAIN sanction: /\ sanction[k].type = SanctionRules[rule] /\ sanction[k].date = Today
                            /\ sanction[k].status # "cancelled"

Issued(rule) ==
  \E k \in DOMAIN sanction: sanction[k].type = SanctionRules[rule] /\ sanction[k].date = Today

-----------------------------------------------------------------------------
(* Beginning and end of a call *)

MayCall(c, endpoint) == MayStart(c, "discipline") /\ endpoint \in AttendanceCalls

Continue(c, next) == Goto(c, next) /\ UNCHANGED disciplineVars

\* bound: room for one more row next to those in flight
AttendanceLeft ==
  Len(attendance) + Cardinality({c \in Clients: call[c].at = "save"}) < MaxRows

WillSave(c, endpoint, k, read, new, check) ==
  /\ k = 0 => AttendanceLeft
  /\ Continue(c, [at |-> "save", endpoint |-> endpoint, k |-> k, read |-> read, new |-> new,
                  check |-> check])

-----------------------------------------------------------------------------
(* AttendanceService *)

BeginCheckIn(c, k) ==
  LET read == ReadRow(k, Today)
      status == ArrivalStatus(read)
  IN  /\ MayCall(c, "checkIn")
      /\ read.arrival = Unset
      /\ WillSave(c, "checkIn", k, read,
                  [read EXCEPT !.arrival = clock.hour, !.status = status],
                  WorksToday /\ status = "late")

\* (mutant) a departure may be entered again
BeginCheckOutAgain(c, k) ==
  LET read == attendance[k]
  IN  /\ MayCall(c, "checkOut")
      /\ read.arrival # Unset
      /\ WillSave(c, "checkOut", k, read,
                  [read EXCEPT !.departure = clock.hour,
                               !.status = DepartureStatus(read, clock.hour)], FALSE)

\* checkOut: on any day
BeginCheckOut(c, k) ==
  LET read == attendance[k]
  IN  /\ MayCall(c, "checkOut")
      /\ read.arrival # Unset
      /\ read.departure = Unset
      /\ WillSave(c, "checkOut", k, read,
                  [read EXCEPT !.departure = clock.hour,
                               !.status = DepartureStatus(read, clock.hour)], FALSE)

BeginCompleteCheckout(c, k, hour) ==
  LET read == attendance[k]
  IN  /\ MayCall(c, "completeCheckout")
      /\ read.departure = Unset
      /\ read.arrival # Unset
      /\ read.day < Today
      /\ hour > read.arrival
      /\ WillSave(c, "completeCheckout", k, read,
                  [read EXCEPT !.departure = hour, !.estimated = TRUE,
                               !.status = DepartureStatus(read, hour)], FALSE)

BeginJustify(c, k) ==
  /\ MayCall(c, "justify")
  /\ WillSave(c, "justify", k, attendance[k], [attendance[k] EXCEPT !.justified = TRUE], FALSE)

\* markAsAbsent looks at nothing
MarkAbsent(day) ==
  /\ MayRun("discipline") /\ "markAbsent" \in AttendanceCalls
  /\ AttendanceLeft
  /\ attendance' = Append(attendance, NewRow(day, "absent"))
  /\ UNCHANGED <<clock, sanction, call>>

\* createManualEntry: a departure that is not given is kept
BeginManualEntry(c, k, day, arrival, departure) ==
  LET read == ReadRow(k, day)
  IN  /\ MayCall(c, "manualEntry")
      /\ WillSave(c, "manualEntry", k, read,
                  [read EXCEPT !.arrival = arrival,
                               !.departure = IF departure = Unset THEN @ ELSE departure,
                               !.status = IF arrival > Start THEN "late" ELSE "present"],
                  FALSE)

SaveRow(c) ==
  LET at == call[c]
  IN  /\ at.at = "save"
      /\ IF at.k = 0 THEN attendance' = Append(attendance, at.new)
         ELSE \E row \in Saved(attendance[at.k], at.read, at.new):
                attendance' = [attendance EXCEPT ![at.k] = row]
      /\ Goto(c, IF at.check THEN [at |-> "count", rule |-> 1] ELSE Idle)
      /\ UNCHANGED <<clock, sanction>>

-----------------------------------------------------------------------------
(* AutomaticSanctionService *)

\* bound: every check in flight may apply a sanction
SanctionLeft ==
  Len(sanction) + Cardinality({c \in Clients: call[c].at = "apply"}) < MaxSanctions

BeginCheck(c) ==
  /\ MayCall(c, "check")
  /\ Continue(c, [at |-> "count", rule |-> 1])

NextRule(rule) ==
  IF rule = Len(SanctionRules) THEN Idle ELSE [at |-> "count", rule |-> rule + 1]

CountForRule(c) ==
  /\ call[c].at = "count"
  /\ Continue(c, IF ShouldApply(call[c].rule) THEN [call[c] EXCEPT !.at = "exists"]
                 ELSE NextRule(call[c].rule))

\* an issued rule gives way to the next one; the bound may end the check here
LookForIssued(c) ==
  /\ call[c].at = "exists"
  /\ Continue(c, IF Issued(call[c].rule) THEN NextRule(call[c].rule)
                 ELSE IF SanctionLeft THEN [call[c] EXCEPT !.at = "apply"] ELSE Idle)

ApplySanction(c) ==
  /\ call[c].at = "apply"
  /\ sanction' = Append(sanction, [type |-> SanctionRules[call[c].rule], faultDay |-> Today,
                                   date |-> Today, status |-> "active", approved |-> FALSE])
  /\ Return(c)
  /\ UNCHANGED <<clock, attendance>>

BeginApprove(c, k) ==
  /\ MayCall(c, "approve")
  /\ sanction[k].status # "cancelled"
  /\ ~sanction[k].approved
  /\ Continue(c, [at |-> "decide", endpoint |-> "approve", k |-> k, read |-> sanction[k],
                  new |-> [sanction[k] EXCEPT !.approved = TRUE, !.date = Today,
                                              !.status = "served"]])

\* cancelSanction: whatever the status
BeginCancelSanction(c, k) ==
  /\ MayCall(c, "cancel")
  /\ Continue(c, [at |-> "decide", endpoint |-> "cancel", k |-> k, read |-> sanction[k],
                  new |-> [sanction[k] EXCEPT !.status = "cancelled"]])

SaveSanction(c) ==
  LET at == call[c]
  IN  /\ at.at = "decide"
      /\ \E row \in Saved(sanction[at.k], at.read, at.new):
           sanction' = [sanction EXCEPT ![at.k] = row]
      /\ Return(c)
      /\ UNCHANGED <<clock, attendance>>

-----------------------------------------------------------------------------
Tick ==
  /\ focus = "discipline"
  /\ clock # [day |-> Days, hour |-> Hours]
  /\ clock' = IF clock.hour < Hours THEN [clock EXCEPT !.hour = @ + 1]
              ELSE [day |-> clock.day + 1, hour |-> 1]
  /\ UNCHANGED <<attendance, sanction, call>>

AttendanceStep(c) ==
  \/ \E k \in Found(Today): BeginCheckIn(c, k)
  \/ \E k \in DOMAIN attendance:
       \/ BeginCheckOut(c, k)
       \/ \E hour \in 1..Hours: BeginCompleteCheckout(c, k, hour)
       \/ BeginJustify(c, k)
  \/ \E day \in EntryDays, arrival \in 1..Hours, departure \in 0..Hours:
       \E k \in Found(day): BeginManualEntry(c, k, day, arrival, departure)
  \/ SaveRow(c)

SanctionStep(c) ==
  \/ BeginCheck(c)
  \/ CountForRule(c)
  \/ LookForIssued(c)
  \/ ApplySanction(c)
  \/ \E k \in DOMAIN sanction: BeginApprove(c, k) \/ BeginCancelSanction(c, k)
  \/ SaveSanction(c)

DisciplineNext ==
  \/ Tick
  \/ \E day \in EntryDays: MarkAbsent(day)
  \/ \E c \in Clients: AttendanceStep(c) \/ SanctionStep(c)

-----------------------------------------------------------------------------
(* Properties *)

\* No employee is punished twice for one day: a type of sanction is issued at most once
\* for a fault day, whatever HR approves or cancels in the meantime.
OneSanctionPerDay ==
  \A i, j \in DOMAIN sanction:
    (i # j /\ sanction[i].type = sanction[j].type)
      => sanction[i].faultDay # sanction[j].faultDay

\* Sanctions grow by degrees: a suspension rests on enough formal warnings, a termination
\* on enough suspensions, that stand and are for faults of as many different days.
FaultDays(type) ==
  {sanction[k].faultDay: k \in {i \in DOMAIN sanction: sanction[i].type = type
                                                      /\ sanction[i].status # "cancelled"}}

EscalationIsGradual ==
  [][Len(sanction') > Len(sanction) =>
       LET issued == sanction'[Len(sanction')].type
       IN  /\ issued = "suspension" =>
                Cardinality(FaultDays("formal_warning")) >= WarningsPerYear
           /\ issued = "termination" =>
                Cardinality(FaultDays("suspension")) >= SuspensionsPerYear]_<<disciplineVars, call>>

\* A departure is not written over: once a row has one, only a manual entry changes it.
DepartureKept ==
  [][\A k \in DOMAIN attendance:
       (attendance[k].departure # Unset
          /\ attendance'[k].departure # attendance[k].departure)
         => \E c \in Clients: call[c].at = "save" /\ call[c].endpoint = "manualEntry"
                              /\ call'[c] = Idle]_<<disciplineVars, call>>

\* An attendance on a day off never counts as late.
LateOnlyOnWorkDays ==
  \A k \in DOMAIN attendance: attendance[k].status = "late" => attendance[k].day \in WorkDays
=============================================================================
