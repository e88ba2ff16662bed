------------------------------- MODULE HrDesk -------------------------------
(***************************************************************************)
(* The desk of the HR department: the tickets employees open               *)
(* (core/hr/services/hr-ticket.service.ts), the events of the company      *)
(* (internal-event.service.ts) and its rituals                             *)
(* (company-ritual.service.ts).                                            *)
(*                                                                         *)
(* Left out: categories and their delays, texts, the participants of a     *)
(* ritual, dashboards, and the birthdays and contracts shown with the      *)
(* events, which only read.                                                *)
(***************************************************************************)
EXTENDS Callers, Integers, FiniteSets

CONSTANTS Tickets,        \* rows hr_tickets may come to hold
          Events,         \* rows internal_events may come to hold
          EventDays,      \* days an event may start or end on
          Rituals,        \* daily or monthly: RitualDay[r] is 0 or the day of the month
          RitualDay, MonthLength, DaysAhead, LastRitualDay

ASSUME DeskAssumption ==
  /\ MonthLength \in Nat \ {0} /\ DaysAhead \in Nat /\ EventDays # {}
  /\ LastRitualDay \in Nat

VARIABLES ticket,       \* hr_tickets
          event,        \* internal_events
          ritualDay,        \* day on which the desk works
          occurrence    \* ritual_occurrences: occurrence[r][d] is a status

ticketVars == ticket
eventVars == event
ritualVars == <<ritualDay, occurrence>>
deskVars == <<ticketVars, eventVars, ritualVars>>

TicketStatus == {"open", "in_progress", "waiting_employee", "resolved", "closed"}

TicketRow == [status: TicketStatus \cup {"none"}, assigned: BOOLEAN, answered: BOOLEAN,
              resolvedBy: BOOLEAN, rated: BOOLEAN]

\* announced: those it is meant for have been told of it
EventRow == [status: {"none", "DRAFT", "PUBLISHED", "CANCELLED", "COMPLETED"},
             start: EventDays, end: EventDays, announced: BOOLEAN, deleted: BOOLEAN]

RitualDays == 0..LastRitualDay + DaysAhead + MonthLength

OccurrenceStatus == {"none", "scheduled", "in_progress", "completed"}

DeskTypeOK ==
  /\ ticket \in [Tickets -> TicketRow]
  /\ event \in [Events -> EventRow]
  /\ ritualDay \in 0..LastRitualDay
  /\ occurrence \in [Rituals -> [RitualDays -> OccurrenceStatus]]

DeskInit ==
  /\ ticket = [t \in Tickets |-> [status |-> "none", assigned |-> FALSE, answered |-> FALSE,
                                  resolvedBy |-> FALSE, rated |-> FALSE]]
  /\ event = [v \in Events |->
       [status |-> "none", start |-> CHOOSE d \in EventDays: TRUE,
        end |-> CHOOSE d \in EventDays: TRUE,
        announced |-> FALSE, deleted |-> FALSE]]
  /\ ritualDay = 0
  /\ occurrence = [r \in Rituals |-> [d \in RitualDays |-> "none"]]

-----------------------------------------------------------------------------
(* HrTicketService *)

SaveTicket(t, row) ==
  /\ MayRun("tickets")
  /\ ticket' = [ticket EXCEPT ![t] = row]
  /\ UNCHANGED <<eventVars, ritualVars, call>>

CreateTicket(t, autoAssigned) ==
  /\ ticket[t].status = "none"
  /\ SaveTicket(t, [ticket[t] EXCEPT !.status = "open", !.assigned = autoAssigned])

Opened(t) == ticket[t].status # "none"

AssignTicket(t) ==
  /\ Opened(t)
  /\ SaveTicket(t, [ticket[t] EXCEPT !.assigned = TRUE,
                                     !.status = IF @ = "open" THEN "in_progress" ELSE @])

\* any status from any other; its comment is public, and counts as an answer
UpdateStatus(t, status) ==
  /\ Opened(t)
  /\ SaveTicket(t, [ticket[t] EXCEPT !.status = status, !.answered = TRUE,
                                     !.resolvedBy = @ \/ status = "resolved"])

\* a comment may set the status too, and then records no resolution
AddComment(t, isInternal, status) ==
  /\ Opened(t)
  /\ SaveTicket(t, [ticket[t] EXCEPT !.status = status, !.answered = @ \/ ~isInternal])

RateTicket(t) ==
  /\ ticket[t].status \in {"resolved", "closed"}
  /\ SaveTicket(t, [ticket[t] EXCEPT !.rated = TRUE])

TicketNext ==
  \E t \in Tickets:
    \/ \E autoAssigned \in BOOLEAN: CreateTicket(t, autoAssigned)
    \/ AssignTicket(t) \/ RateTicket(t)
    \/ \E status \in TicketStatus: UpdateStatus(t, status)
    \/ \E status \in TicketStatus, isInternal \in BOOLEAN: AddComment(t, isInternal, status)

-----------------------------------------------------------------------------
(* InternalEventService.  Its finders write  deletedAt: null , which TypeORM *)
(* leaves out: a deleted event is found and may be changed.                  *)

SaveEvent(v, row) ==
  /\ MayRun("events")
  /\ event' = [event EXCEPT ![v] = row]
  /\ UNCHANGED <<ticketVars, ritualVars, call>>

\* one created as published is announced to nobody
CreateEvent(v, status, start, end) ==
  /\ event[v].status = "none" /\ start < end
  /\ SaveEvent(v, [event[v] EXCEPT !.status = status, !.start = start, !.end = end])

Known(v) == event[v].status # "none"

\* the dates sent, with the ones the row has for those that are not
UpdateEvent(v, start, end) ==
  /\ Known(v) /\ start < end
  /\ SaveEvent(v, [event[v] EXCEPT !.start = start, !.end = end])

UpdateEventStatus(v, status) == Known(v) /\ SaveEvent(v, [event[v] EXCEPT !.status = status])

\* participants are told, unless the event is published already
NotifyParticipants(row) == [row EXCEPT !.announced = @ \/ row.status # "PUBLISHED"]

PublishEvent(v) ==
  /\ Known(v)
  /\ SaveEvent(v, [NotifyParticipants(event[v]) EXCEPT !.status = "PUBLISHED"])

CancelEvent(v) == Known(v) /\ SaveEvent(v, [event[v] EXCEPT !.status = "CANCELLED"])

CompleteEvent(v) == Known(v) /\ SaveEvent(v, [event[v] EXCEPT !.status = "COMPLETED"])

DeleteEvent(v) == Known(v) /\ SaveEvent(v, [event[v] EXCEPT !.deleted = TRUE])

EventNext ==
  \E v \in Events:
    \/ \E status \in {"DRAFT", "PUBLISHED"}, start, end \in EventDays:
         CreateEvent(v, status, start, end)
    \/ \E start, end \in EventDays: UpdateEvent(v, start, end)
    \/ \E status \in {"DRAFT", "PUBLISHED"}: UpdateEventStatus(v, status)
    \/ PublishEvent(v) \/ CancelEvent(v) \/ CompleteEvent(v) \/ DeleteEvent(v)

-----------------------------------------------------------------------------
(* CompanyRitualService *)

DayPasses ==
  /\ MayRun("rituals") /\ ritualDay < LastRitualDay
  /\ ritualDay' = ritualDay + 1
  /\ UNCHANGED <<ticketVars, eventVars, occurrence, call>>

\* working days, or the day of the next month when it is not too far
OccurrenceDates(r) ==
  IF RitualDay[r] = 0
  THEN {d \in ritualDay..ritualDay + DaysAhead: d % 7 \notin {0, 6}}
  ELSE LET next == (ritualDay \div MonthLength + 1) * MonthLength + RitualDay[r]
       IN {d \in {next}: d <= ritualDay + DaysAhead}

\* those that exist already keep their status
GenerateOccurrences ==
  /\ MayRun("rituals")
  /\ occurrence' = [r \in Rituals |-> [d \in RitualDays |->
       IF d \in OccurrenceDates(r) /\ occurrence[r][d] = "none" THEN "scheduled"
       ELSE occurrence[r][d]]]
  /\ UNCHANGED <<ticketVars, eventVars, ritualDay, call>>

\* from any status, in any order
SetOccurrence(r, d, status) ==
  /\ MayRun("rituals") /\ occurrence[r][d] # "none"
  /\ occurrence' = [occurrence EXCEPT ![r][d] = status]
  /\ UNCHANGED <<ticketVars, eventVars, ritualDay, call>>

RitualNext ==
  \/ DayPasses \/ GenerateOccurrences
  \/ \E r \in Rituals, d \in RitualDays, status \in {"in_progress", "completed"}:
       d = ritualDay /\ SetOccurrence(r, d, status)

-----------------------------------------------------------------------------
DeskNext == TicketNext \/ EventNext \/ RitualNext

(* Properties *)

\* An event lasts, whichever of its dates later changes send
\* (internal-event.service.ts:131-138).
EventsLast == \A v \in Events: Known(v) => event[v].start < event[v].end
=============================================================================
