------------------------------ MODULE Overtime ------------------------------
(***************************************************************************)
(* The month of an employee as human resources read it: minutes over and   *)
(* under the schedule, minutes of late arrival, days that cannot be        *)
(* measured (core/hr/services/overtime.service.ts).                        *)
(*                                                                         *)
(* A behaviour is one timesheet: the schedule of the employee and the rows *)
(* of attendance of the month.  The computation only reads.                *)
(*                                                                         *)
(* Left out: the days of the week by name (a row says whether its day is   *)
(* worked), the list of the days, and the monthly notification.            *)
(***************************************************************************)
EXTENDS Callers, Integers, FiniteSets, Functions

CONSTANTS SheetDays,   \* rows of attendance of the month
          Times        \* minutes of the day at which one may check in or out

ASSUME SheetAssumption == IsFiniteSet(SheetDays) /\ Times \subseteq Nat

VARIABLE timesheet

NoTime == -1
Punches == Times \cup {NoTime}

Timesheet == [start: Punches, end: Punches,
              rows: [SheetDays -> [worked: BOOLEAN, in: Punches, out: Punches]]]

OvertimeTypeOK == timesheet \in Timesheet

\* a departure is never recorded without an arrival
OvertimeInit ==
  IF focus # "overtime"
  THEN timesheet = [start |-> NoTime, end |-> NoTime,
                    rows |-> [d \in SheetDays |-> [worked |-> FALSE, in |-> NoTime, out |-> NoTime]]]
  ELSE timesheet \in {t \in Timesheet: \A d \in SheetDays: t.rows[d].out # NoTime => t.rows[d].in # NoTime}

NotNegative(x) == IF x < 0 THEN 0 ELSE x

HasSchedule == timesheet.start # NoTime /\ timesheet.end # NoTime

ScheduledDay == IF HasSchedule THEN NotNegative(timesheet.end - timesheet.start) ELSE 0

Row(d) == timesheet.rows[d]

\* everything worked on a day of rest is over the schedule
Scheduled(d) == IF Row(d).worked THEN ScheduledDay ELSE 0

Complete(d) == Row(d).in # NoTime /\ Row(d).out # NoTime
Absent(d) == Row(d).in = NoTime /\ Row(d).out = NoTime

Incomplete(d) == Row(d).in # NoTime /\ Row(d).out = NoTime

Worked(d) == IF Complete(d) THEN NotNegative(Row(d).out - Row(d).in) ELSE 0

\* over or under the schedule; zero for a day that has nothing to be compared with
Diff(d) ==
  IF Complete(d) /\ (HasSchedule \/ ~Row(d).worked) THEN Worked(d) - Scheduled(d)
  ELSE IF Absent(d) /\ Row(d).worked /\ HasSchedule THEN 0 - Scheduled(d)
  ELSE 0

TotalOvertime  == SumFunction([d \in SheetDays |-> NotNegative(Diff(d))])
TotalDeficit   == SumFunction([d \in SheetDays |-> NotNegative(0 - Diff(d))])
TotalWorked    == SumFunction([d \in SheetDays |-> Worked(d)])
TotalScheduled == SumFunction([d \in SheetDays |-> Scheduled(d)])
IncompleteDays == Cardinality({d \in SheetDays: Incomplete(d)})

LateMinutes(d) ==
  IF Row(d).worked /\ timesheet.start # NoTime /\ Row(d).in # NoTime
  THEN NotNegative(Row(d).in - timesheet.start) ELSE 0

-----------------------------------------------------------------------------
(* Properties *)

\* Of an employee with a schedule, minutes over less minutes under are the minutes worked
\* less those that were due, once the days left without a departure are set aside; and an
\* absence weighs as much as the day it misses (overtime.service.ts:180-225).
OvertimeBalances ==
  LET setAside == SumFunction([d \in SheetDays |-> IF Incomplete(d) THEN Scheduled(d) ELSE 0])
  IN  HasSchedule => TotalOvertime - TotalDeficit = TotalWorked - (TotalScheduled - setAside)
=============================================================================
