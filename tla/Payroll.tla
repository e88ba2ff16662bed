------------------------------- MODULE Payroll ------------------------------
(***************************************************************************)
(* Salaries: the entries of the salary history, the schedules that say     *)
(* when an employee is paid, and the payments generated from them month by *)
(* month (core/hr/services/salary.service.ts and                           *)
(* salary-schedule.service.ts).                                            *)
(*                                                                         *)
(* The generation of a month reads the active schedules, then looks for a  *)
(* payment and inserts one, schedule after schedule, one await each.       *)
(*                                                                         *)
(* The finders of these services write  deletedAt: null  in their          *)
(* conditions; TypeORM leaves a null condition out (external), so they     *)
(* also find deleted rows, and  validTo: null  finds closed ones.          *)
(*                                                                         *)
(* Left out: currencies, components, bonuses, the effective dates and the  *)
(* frequency of a schedule (the generation does not read them), the        *)
(* calendar and the statistics, which only read.                           *)
(***************************************************************************)
EXTENDS Callers, Integers, Sequences, FiniteSets

CONSTANTS Staff,          \* employees
          Schedules,      \* rows the table may come to hold
          OfEmployee,     \* OfEmployee[s]: employee of a schedule
          PayDays,        \* days sent as the day of pay
          LastDayOf,      \* LastDayOf[m]: length of month m, for the months paid
          Amounts,        \* salaries entered
          MaxPayments, MaxEntries   \* bounds

\* the day of pay is checked to be between 1 and 31
ASSUME PayrollAssumption ==
  /\ OfEmployee \in [Schedules -> Staff]
  /\ PayDays \subseteq Nat \ {0} /\ PayDays # {}
  /\ \A m \in DOMAIN LastDayOf: LastDayOf[m] \in Nat \ {0}
  /\ MaxPayments \in Nat /\ MaxEntries \in Nat

VARIABLES schedule,     \* salary_schedules
          payments,     \* salary_payments, in order of insertion
          salary,       \* base salary on the row of the employee
          entries       \* employee_salary_history

payrollVars == <<schedule, payments, salary, entries>>

Months == DOMAIN LastDayOf

ScheduleRow == [exists: BOOLEAN, active: BOOLEAN, deleted: BOOLEAN, payDay: PayDays]

PaymentRow == [employee: Staff, month: Months, day: Nat, amount: Amounts \cup {0},
               status: {"scheduled", "paid"}]

EntryRow == [employee: Staff, amount: Amounts, open: BOOLEAN, deleted: BOOLEAN]

\* of: what the list of schedules held when it was read
PayrollCall ==
  {Idle}
  \cup [at: {"generate"}, month: Months, todo: SUBSET Schedules, of: [Staff -> Amounts \cup {0}]]
  \cup [at: {"insert"}, month: Months, todo: SUBSET Schedules, of: [Staff -> Amounts \cup {0}],
        schedule: Schedules, day: Nat]
  \cup [at: {"raise"}, employee: Staff, amount: Amounts]

PayrollTypeOK ==
  /\ schedule \in [Schedules -> ScheduleRow]
  /\ payments \in Seq(PaymentRow) /\ Len(payments) <= MaxPayments
  /\ salary \in [Staff -> Amounts \cup {0}]
  /\ entries \in Seq(EntryRow) /\ Len(entries) <= MaxEntries
  /\ focus = "payroll" => call \in [Clients -> PayrollCall]

PayrollInit ==
  /\ schedule = [s \in Schedules |-> [exists |-> FALSE, active |-> FALSE, deleted |-> FALSE,
                                      payDay |-> CHOOSE d \in PayDays: TRUE]]
  /\ payments = <<>>
  /\ salary = [e \in Staff |-> 0]
  /\ entries = <<>>

-----------------------------------------------------------------------------
(* SalaryScheduleService *)

\* the schedules of the employee that were active are closed
CreateSchedule(s, day) ==
  /\ MayRun("payroll")
  /\ ~schedule[s].exists
  /\ schedule' = [x \in Schedules |->
       IF x = s THEN [exists |-> TRUE, active |-> TRUE, deleted |-> FALSE, payDay |-> day]
       ELSE IF OfEmployee[x] = OfEmployee[s] THEN [schedule[x] EXCEPT !.active = FALSE]
       ELSE schedule[x]]
  /\ UNCHANGED <<payments, salary, entries, call>>

\* a deleted schedule is found too, and may be activated again
UpdateSchedule(s, day, active) ==
  /\ MayRun("payroll")
  /\ schedule[s].exists
  /\ schedule' = [schedule EXCEPT ![s].payDay = day, ![s].active = active]
  /\ UNCHANGED <<payments, salary, entries, call>>

DeleteSchedule(s) ==
  /\ MayRun("payroll")
  /\ schedule[s].exists
  /\ schedule' = [schedule EXCEPT ![s].deleted = TRUE, ![s].active = FALSE]
  /\ UNCHANGED <<payments, salary, entries, call>>

BeginGenerate(c, m) ==
  /\ MayStart(c, "payroll")
  /\ Goto(c, [at |-> "generate", month |-> m, of |-> salary,
              todo |-> {s \in Schedules: schedule[s].exists /\ schedule[s].active}])
  /\ UNCHANGED payrollVars

\* the day of pay, or the last of a shorter month
PayDay(s, m) == IF schedule[s].payDay < LastDayOf[m] THEN schedule[s].payDay ELSE LastDayOf[m]

\* a payment of the employee on that date, whatever schedule it came from
AlreadyPlanned(s, m, day) ==
  \E i \in DOMAIN payments: /\ payments[i].employee = OfEmployee[s]
                            /\ payments[i].month = m /\ payments[i].day = day

LookForPayment(c, s) ==
  /\ call[c].at = "generate" /\ s \in call[c].todo
  /\ LET m    == call[c].month
         day  == PayDay(s, m)
         rest == [at |-> "generate", month |-> m, of |-> call[c].of, todo |-> call[c].todo \ {s}]
     IN IF AlreadyPlanned(s, m, day)
        THEN Goto(c, rest)
        ELSE Goto(c, [at |-> "insert", month |-> m, of |-> call[c].of, todo |-> rest.todo,
                      schedule |-> s, day |-> day])
  /\ UNCHANGED payrollVars

InsertPayment(c) ==
  /\ call[c].at = "insert" /\ Len(payments) < MaxPayments
  /\ LET e == OfEmployee[call[c].schedule]
     IN payments' = Append(payments, [employee |-> e, month |-> call[c].month,
                                      day |-> call[c].day, amount |-> call[c].of[e],
                                      status |-> "scheduled"])
  /\ Goto(c, [at |-> "generate", month |-> call[c].month, of |-> call[c].of,
              todo |-> call[c].todo])
  /\ UNCHANGED <<schedule, salary, entries>>

EndGenerate(c) ==
  /\ call[c].at = "generate" /\ call[c].todo = {}
  /\ Return(c)
  /\ UNCHANGED payrollVars

\* whatever its status
MarkPaymentPaid(i) ==
  /\ MayRun("payroll")
  /\ payments' = [payments EXCEPT ![i].status = "paid"]
  /\ UNCHANGED <<schedule, salary, entries, call>>

-----------------------------------------------------------------------------
(* SalaryService *)

\* one entry of the employee is closed, whichever the table returns first
BeginRaise(c, e, amount) ==
  /\ MayStart(c, "payroll") /\ Len(entries) < MaxEntries
  /\ LET mine == {i \in DOMAIN entries: entries[i].employee = e}
     IN \/ mine = {} /\ UNCHANGED entries
        \/ \E i \in mine: entries' = [entries EXCEPT ![i].open = FALSE]
  /\ Goto(c, [at |-> "raise", employee |-> e, amount |-> amount])
  /\ UNCHANGED <<schedule, payments, salary>>

FinishRaise(c) ==
  /\ call[c].at = "raise" /\ Len(entries) < MaxEntries
  /\ entries' = Append(entries, [employee |-> call[c].employee, amount |-> call[c].amount,
                                 open |-> TRUE, deleted |-> FALSE])
  /\ salary' = [salary EXCEPT ![call[c].employee] = call[c].amount]
  /\ Return(c)
  /\ UNCHANGED <<schedule, payments>>

\* the row of the employee keeps its salary
UpdateEntry(i, amount, open) ==
  /\ MayRun("payroll")
  /\ entries' = [entries EXCEPT ![i].amount = amount, ![i].open = open]
  /\ UNCHANGED <<schedule, payments, salary, call>>

DeleteEntry(i) ==
  /\ MayRun("payroll")
  /\ entries' = [entries EXCEPT ![i].deleted = TRUE]
  /\ UNCHANGED <<schedule, payments, salary, call>>

-----------------------------------------------------------------------------
PayrollNext ==
  \/ \E s \in Schedules:
       \/ \E day \in PayDays: CreateSchedule(s, day)
       \/ \E day \in PayDays, active \in BOOLEAN: UpdateSchedule(s, day, active)
       \/ DeleteSchedule(s)
  \/ \E c \in Clients:
       \/ \E m \in Months: BeginGenerate(c, m)
       \/ \E s \in Schedules: LookForPayment(c, s)
       \/ InsertPayment(c) \/ EndGenerate(c)
       \/ \E e \in Staff, amount \in Amounts: BeginRaise(c, e, amount)
       \/ FinishRaise(c)
  \/ \E i \in DOMAIN payments: MarkPaymentPaid(i)
  \/ \E i \in DOMAIN entries:
       \/ \E amount \in Amounts, open \in BOOLEAN: UpdateEntry(i, amount, open)
       \/ DeleteEntry(i)

-----------------------------------------------------------------------------
(* Properties *)

\* However schedules are replaced, moved, deleted and revived between the generations,
\* an employee has one payment on a date, and the date lies in the month it was generated
\* for (salary-schedule.service.ts:179-191).
OnePaymentPerDate ==
  \A i, j \in DOMAIN payments:
    /\ payments[i].day \in 1..LastDayOf[payments[i].month]
    /\ i # j => <<payments[i].employee, payments[i].month, payments[i].day>>
                  # <<payments[j].employee, payments[j].month, payments[j].day>>
=============================================================================
