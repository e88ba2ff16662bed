------------------------------ MODULE Academy -------------------------------
(***************************************************************************)
(* The academy: courses, their sessions and the enrolments of learners     *)
(* (core/academy/services/course.service.ts, course-session.service.ts,    *)
(* enrollment.service.ts), and the nightly job that closes past sessions.  *)
(*                                                                         *)
(* An enrolment is made in two steps, what it checks and the row it        *)
(* inserts; so is the "Terminé" of a learner.  The other handlers read one *)
(* row and write it, and are one action each.                              *)
(*                                                                         *)
(* Left out: titles, codes, costs and categories, and the search of the    *)
(* lists.                                                                  *)
(***************************************************************************)
EXTENDS Callers, Integers, FiniteSets

CONSTANTS Courses, Sessions, Enrollments,   \* rows the three tables may come to hold
          Learners,      \* users of the organization
          Employed,      \* those of them who have an employee row
          SentStatuses,  \* statuses an administrator sends to update
          LastDay        \* bound: the days of a behaviour are 1..LastDay

VARIABLES course, session, enrollment, day

academyVars == <<course, session, enrollment, day>>

NoDate == 0
Dates == {NoDate} \cup (1..LastDay)
Nobody == "nobody"
CoursesOrNone == Courses \cup {"none"}

ActiveStatuses == {"planned", "in_progress"}   \* "open" is no longer written

EnrollmentStatuses == {"invited", "enrolled", "in_progress", "completed",
                       "cancelled", "failed"}

ASSUME AcademyAssumption ==
  /\ LastDay \in Nat \ {0}
  /\ SentStatuses \subseteq EnrollmentStatuses   \* as the DTO validates

CourseRow == [exists: BOOLEAN, deleted: BOOLEAN,
              status: {"draft", "published", "archived"}]

\* a session need not be attached to a course
SessionRow == [exists: BOOLEAN, deleted: BOOLEAN, course: CoursesOrNone,
               start: Dates, end: Dates,
               status: ActiveStatuses \cup {"completed", "cancelled"}]

\* The entity says that a row has one of the two ids and that a CHECK of the database
\* guarantees it (course-enrollment.entity.ts:54), but selfEnroll is given both
\* (my-enrollments.controller.ts:37) and stores both.  The CHECK is not in the
\* repository; it is taken to ask for at least one.
EnrollmentRow == [exists: BOOLEAN, deleted: BOOLEAN, course: CoursesOrNone,
                  session: Sessions \cup {"none"}, employee: Learners \cup {Nobody},
                  user: Learners \cup {Nobody}, status: EnrollmentStatuses]

AcademyCall ==
  {Idle}
  \cup [at: {"enroll"}, course: CoursesOrNone, session: Sessions \cup {"none"},
        employee: Learners \cup {Nobody}, user: Learners \cup {Nobody},
        status: EnrollmentStatuses]
  \cup [at: {"complete"}, enrollment: Enrollments]

AcademyTypeOK ==
  /\ course \in [Courses -> CourseRow]
  /\ session \in [Sessions -> SessionRow]
  /\ enrollment \in [Enrollments -> EnrollmentRow]
  /\ day \in 1..LastDay
  /\ focus = "academy" => call \in [Clients -> AcademyCall]

AcademyInit ==
  /\ course = [c \in Courses |-> [exists |-> FALSE, deleted |-> FALSE, status |-> "draft"]]
  /\ session = [s \in Sessions |-> [exists |-> FALSE, deleted |-> FALSE, course |-> "none",
                                    start |-> NoDate, end |-> NoDate, status |-> "planned"]]
  /\ enrollment = [e \in Enrollments |->
                     [exists |-> FALSE, deleted |-> FALSE, course |-> "none", session |-> "none",
                      employee |-> Nobody, user |-> Nobody, status |-> "enrolled"]]
  /\ day = 1

LiveCourse(c) == course[c].exists /\ ~course[c].deleted
LiveSession(s) == session[s].exists /\ ~session[s].deleted
LiveEnrollment(e) == enrollment[e].exists /\ ~enrollment[e].deleted

-----------------------------------------------------------------------------
(* CourseService *)

CreateCourse(c) ==
  /\ MayRun("academy")
  /\ ~course[c].exists
  /\ course' = [course EXCEPT ![c].exists = TRUE]
  /\ UNCHANGED <<session, enrollment, day, call>>

\* publish, archive, unarchive
SetCourseStatus(c, from, to) ==
  /\ MayRun("academy")
  /\ LiveCourse(c) /\ course[c].status \in from
  /\ course' = [course EXCEPT ![c].status = to]
  /\ UNCHANGED <<session, enrollment, day, call>>

DeleteCourse(c) ==
  /\ MayRun("academy")
  /\ LiveCourse(c) /\ course[c].status # "published"
  /\ course' = [course EXCEPT ![c].deleted = TRUE]
  /\ UNCHANGED <<session, enrollment, day, call>>

-----------------------------------------------------------------------------
(* CourseSessionService *)

computePhase(start, end) ==
  IF start = NoDate \/ start > day THEN "planned"
  ELSE IF end # NoDate /\ end < day THEN "completed"
  ELSE "in_progress"

InOrder(start, end) == start # NoDate /\ end # NoDate => start <= end

CreateSession(s, c, start, end) ==
  /\ MayRun("academy")
  /\ ~session[s].exists
  /\ InOrder(start, end)
  /\ session' = [session EXCEPT ![s] = [exists |-> TRUE, deleted |-> FALSE, course |-> c,
                                        start |-> start, end |-> end,
                                        status |-> computePhase(start, end)]]
  /\ UNCHANGED <<course, enrollment, day, call>>

\* update loads the session with its course, and TypeORM's save takes the id of a loaded
\* relation from the related entity: a session that has a course keeps it
SavedCourse(loaded, c) == IF loaded = "none" THEN c ELSE loaded

\* a course or a date left out of the request keeps its value; the status is recomputed
\* whatever the request changes, unless it cancels
UpdateSession(s, c, start, end, cancel) ==
  /\ MayRun("academy")
  /\ LiveSession(s)
  /\ InOrder(start, end)
  /\ session' = [session EXCEPT
       ![s] = [@ EXCEPT !.course = SavedCourse(session[s].course, c),
                        !.start = start, !.end = end,
                        !.status = IF cancel THEN "cancelled" ELSE computePhase(start, end)]]
  /\ UNCHANGED <<course, enrollment, day, call>>

DeleteSession(s) ==
  /\ MayRun("academy")
  /\ LiveSession(s)
  /\ session' = [session EXCEPT ![s].deleted = TRUE]
  /\ UNCHANGED <<course, enrollment, day, call>>

Overdue(s) ==
  /\ LiveSession(s)
  /\ session[s].end # NoDate /\ session[s].end < day
  /\ session[s].status \in ActiveStatuses

\* (mutant) a session in progress is left to itself
AutoCompletePlanned ==
  /\ focus = "academy"
  /\ session' = [s \in Sessions |-> IF Overdue(s) /\ session[s].status = "planned"
                                    THEN [session[s] EXCEPT !.status = "completed"]
                                    ELSE session[s]]
  /\ UNCHANGED <<course, enrollment, day, call>>

\* the job of 1 AM
AutoCompletePastSessions ==
  /\ focus = "academy"
  /\ \E s \in Sessions: Overdue(s)
  /\ session' = [s \in Sessions |-> IF Overdue(s) THEN [session[s] EXCEPT !.status = "completed"]
                                    ELSE session[s]]
  /\ UNCHANGED <<course, enrollment, day, call>>

NextDay ==
  /\ focus = "academy"
  /\ day < LastDay
  /\ day' = day + 1
  /\ UNCHANGED <<course, session, enrollment, call>>

-----------------------------------------------------------------------------
(* EnrollmentService *)

\* not cancelled, not past its end
Enrollable(s) ==
  /\ LiveSession(s)
  /\ session[s].status # "cancelled"
  /\ session[s].end = NoDate \/ session[s].end >= day

Published(c) == LiveCourse(c) /\ course[c].status = "published"

\* the row is the learner's: by employee id when it has one, else by user id
OfLearner(e, employee, user) ==
  IF employee # Nobody THEN enrollment[e].employee = employee
  ELSE enrollment[e].user = user

\* (mutant) an enrolment in the session of a course is not looked for
AlreadyInCourse(c, s, employee, user) ==
  \E e \in Enrollments: /\ LiveEnrollment(e) /\ OfLearner(e, employee, user)
                        /\ enrollment[e].course = c /\ enrollment[e].session = "none"

\* the anti-doublon of selfEnroll: by session, or by course without session
AlreadyEnrolled(c, s, employee, user) ==
  \E e \in Enrollments: /\ LiveEnrollment(e) /\ OfLearner(e, employee, user)
                        /\ IF s # "none" THEN enrollment[e].session = s
                           ELSE enrollment[e].course = c /\ enrollment[e].session = "none"

\* the course is the session's when it has one, else the one that was asked for, and
\* only a session may go without
BeginSelfEnroll(k, p, c, s) ==
  /\ MayStart(k, "academy")
  /\ IF s = "none" THEN c # "none"
     ELSE Enrollable(s) /\ session[s].course \in {"none", c}
  /\ c # "none" => Published(c)
  /\ LET employee == IF p \in Employed THEN p ELSE Nobody
     IN  /\ ~AlreadyEnrolled(c, s, employee, p)
         /\ Goto(k, [at |-> "enroll", course |-> c, session |-> s, employee |-> employee,
                     user |-> p, status |-> "enrolled"])
  /\ UNCHANGED academyVars

\* create, by an administrator: exactly one of the two ids, any enrolment in the course
BeginCreateEnrollment(k, p, asEmployee, c, status) ==
  /\ MayStart(k, "academy")
  /\ asEmployee => p \in Employed
  /\ Published(c)
  /\ LET employee == IF asEmployee THEN p ELSE Nobody
         user     == IF asEmployee THEN Nobody ELSE p
     IN  /\ ~\E e \in Enrollments: LiveEnrollment(e) /\ OfLearner(e, employee, user)
                                   /\ enrollment[e].course = c
         /\ Goto(k, [at |-> "enroll", course |-> c, session |-> "none", employee |-> employee,
                     user |-> user, status |-> status])
  /\ UNCHANGED academyVars

\* the row that is inserted is a new one, the first that is left
InsertEnrollment(k) ==
  /\ call[k].at = "enroll"
  /\ \E e \in Enrollments: ~enrollment[e].exists
  /\ enrollment' = [enrollment EXCEPT
       ![CHOOSE e \in Enrollments: ~enrollment[e].exists] =
         [exists |-> TRUE, deleted |-> FALSE, course |-> call[k].course,
          session |-> call[k].session, employee |-> call[k].employee,
          user |-> call[k].user, status |-> call[k].status]]
  /\ Return(k)
  /\ UNCHANGED <<course, session, day>>

\* deleted_at is not among the columns findOne loads (select: false): the row is
\* found, deleted or not, and only its status is looked at
BeginCompleteMine(k, p, e) ==
  /\ MayStart(k, "academy")
  /\ enrollment[e].exists
  /\ p \in {enrollment[e].employee, enrollment[e].user}
  /\ enrollment[e].status \notin {"cancelled", "failed", "completed"}
  /\ Goto(k, [at |-> "complete", enrollment |-> e])
  /\ UNCHANGED academyVars

CompleteMine(k) ==
  /\ call[k].at = "complete"
  /\ enrollment' = [enrollment EXCEPT ![call[k].enrollment].status = "completed"]
  /\ Return(k)
  /\ UNCHANGED <<course, session, day>>

UpdateEnrollment(e, status) ==
  /\ MayRun("academy")
  /\ LiveEnrollment(e)
  /\ enrollment' = [enrollment EXCEPT ![e].status = status]
  /\ UNCHANGED <<course, session, day, call>>

DeleteEnrollment(e) ==
  /\ MayRun("academy")
  /\ LiveEnrollment(e)
  /\ enrollment' = [enrollment EXCEPT ![e].deleted = TRUE, ![e].status = "cancelled"]
  /\ UNCHANGED <<course, session, day, call>>

-----------------------------------------------------------------------------
AcademyEndpoints ==
  \/ \E c \in Courses:
       \/ CreateCourse(c)
       \/ SetCourseStatus(c, {"draft"}, "published")
       \/ SetCourseStatus(c, {"draft", "published"}, "archived")
       \/ SetCourseStatus(c, {"archived"}, "draft")
       \/ DeleteCourse(c)
  \/ \E s \in Sessions:
       \/ \E c \in CoursesOrNone, start, end \in Dates:
            \/ CreateSession(s, c, start, end)
            \/ \E cancel \in BOOLEAN: UpdateSession(s, c, start, end, cancel)
       \/ DeleteSession(s)
  \/ \E k \in Clients, p \in Learners:
       \/ \E c \in CoursesOrNone, s \in Sessions \cup {"none"}: BeginSelfEnroll(k, p, c, s)
       \/ \E c \in Courses, asEmployee \in BOOLEAN, status \in {"invited"}:
            BeginCreateEnrollment(k, p, asEmployee, c, status)
  \/ \E k \in Clients, p \in Learners, e \in Enrollments: BeginCompleteMine(k, p, e)
  \/ \E k \in Clients: InsertEnrollment(k) \/ CompleteMine(k)
  \/ \E e \in Enrollments:
       \/ \E status \in SentStatuses: UpdateEnrollment(e, status)
       \/ DeleteEnrollment(e)

AcademyNext == AcademyEndpoints \/ AutoCompletePastSessions \/ NextDay

\* the scheduler starts the job every night the server is up; clients promise nothing
AcademyFairness == WF_<<academyVars, call>>(AutoCompletePastSessions)

-----------------------------------------------------------------------------
(* Properties *)

SamePlace(d, e) ==
  \/ enrollment[d].session # "none" /\ enrollment[d].session = enrollment[e].session
  \/ /\ enrollment[d].session = "none" /\ enrollment[e].session = "none"
     /\ enrollment[d].course = enrollment[e].course

ByAccount(e) == enrollment[e].employee = Nobody
LearnerOf(e) == IF ByAccount(e) THEN enrollment[e].user ELSE enrollment[e].employee

\* Enrolled by herself or by an administrator, one call after the other, a learner
\* holds one live enrolment in a session, and one in a course outside its sessions
\* (enrollment.service.ts:126 and 265, "Anti-doublon").  The searches go by one id
\* only, so there is an exception: beside the enrolment under her employee id, an
\* employee may hold one that an administrator made under her account.
SecondPlaceOnlyByAccount ==
  \A d, e \in Enrollments:
    /\ d # e /\ LiveEnrollment(d) /\ LiveEnrollment(e)
    /\ LearnerOf(d) = LearnerOf(e) /\ SamePlace(d, e)
    => ByAccount(d) # ByAccount(e)

\* The nightly job closes every session whose end has passed, unless someone moves,
\* cancels or deletes it first (course-session.service.ts:203).
PastSessionsClose == \A s \in Sessions: Overdue(s) ~> ~Overdue(s)
=============================================================================
