------------------------------- MODULE Hiring -------------------------------
(***************************************************************************)
(* Job openings and the applications that arrive through the public site   *)
(* (hr/services/job-opening.service.ts, candidate.service.ts and           *)
(* public/careers), focus "openings"; the positions employees hold         *)
(* (hr/services/job-position.service.ts), focus "positions".               *)
(*                                                                         *)
(* One organisation, and one address applications come from.  Left out:    *)
(* the slug of an opening, the trap for robots, the file of an applicant,  *)
(* and the fields of openings, candidates and positions.                   *)
(***************************************************************************)
EXTENDS Callers, FiniteSets

CONSTANTS Openings,       \* job openings that may be created
          Emails,         \* addresses applicants give
          PerDay,         \* 10: applications from one address of the network in 24 hours
          LastHiringDay,  \* bound on the days
          Positions,      \* job positions that may be created
          Holders         \* employees

ASSUME HiringAssumption == LastHiringDay \in Nat

VARIABLES opening,        \* opening[o]: its row in job_openings
          candidates,     \* e-mail addresses of the rows in candidates
          applications,   \* rows of job_applications
          hiringDay,      \* the day it is
          position,       \* position[p]: "none", "live" or "deleted"
          held            \* rows of employee_positions that are not ended

hiringVars == <<opening, candidates, applications, hiringDay, position, held>>

OpeningStatuses == {"draft", "published", "filled", "other"}   \* "other": the other four
NoOpening == [row |-> "none"]
HiringDays == 0..LastHiringDay
NoClosing == LastHiringDay + 1   \* closing_date is null

OpeningRow == [status: OpeningStatuses, public: BOOLEAN, closing: 0..NoClosing]
Application == [email: Emails, opening: Openings, day: HiringDays]
Holding == [by: Holders, position: Positions, primary: BOOLEAN]

ApplyCall == [email: Emails, opening: Openings]
HoldCall == [by: Holders, wanted: SUBSET Positions, first: Positions \cup {"none"},
             current: SUBSET Positions]

HiringCall ==
  {Idle}
  \cup [at: {"candidate", "duplicate", "insert"}, form: ApplyCall]
  \cup [at: {"current", "end", "open", "clear", "primary"}, set: HoldCall]
  \cup [at: {"delete"}, position: Positions]

HiringTypeOK ==
  /\ opening \in [Openings -> OpeningRow \cup {NoOpening}]
  /\ candidates \subseteq Emails
  /\ applications \subseteq Application
  /\ hiringDay \in HiringDays
  /\ position \in [Positions -> {"none", "live", "deleted"}]
  /\ held \subseteq Holding
  /\ focus \in {"openings", "positions"} => call \in [Clients -> HiringCall]

HiringInit ==
  /\ opening = [o \in Openings |-> NoOpening]
  /\ candidates = {}
  /\ applications = {}
  /\ hiringDay = 0
  /\ position = [p \in Positions |-> "none"]
  /\ held = {}

-----------------------------------------------------------------------------
(* JobOpeningService *)

CreateOpening(c, o, closing) ==
  /\ MayStart(c, "openings")
  /\ opening[o] = NoOpening
  /\ opening' = [opening EXCEPT ![o] = [status |-> "draft", public |-> FALSE,
                                        closing |-> closing]]
  /\ UNCHANGED <<candidates, applications, hiringDay, position, held, call>>

WriteOpening(c, o, row) ==
  /\ MayStart(c, "openings")
  /\ opening[o] # NoOpening
  /\ opening' = [opening EXCEPT ![o] = row]
  /\ UNCHANGED <<candidates, applications, hiringDay, position, held, call>>

\* update sends any status, and leaves what the public sees as it was
UpdateOpening(c, o, status, closing) ==
  WriteOpening(c, o, [opening[o] EXCEPT !.status = status, !.closing = closing])

PublishOpening(c, o) ==
  WriteOpening(c, o, [opening[o] EXCEPT !.status = "published", !.public = TRUE])

UnpublishOpening(c, o) == WriteOpening(c, o, [opening[o] EXCEPT !.public = FALSE])

CloseOpening(c, o) == WriteOpening(c, o, [opening[o] EXCEPT !.status = "filled"])

\* the foreign key of applications refuses
DeleteOpening(c, o) ==
  /\ \A a \in applications: a.opening # o
  /\ WriteOpening(c, o, NoOpening)

-----------------------------------------------------------------------------
(* PublicCareersService.applyToJobBySlug *)

\* what it asks of the opening: a closing date is over when its day begins
TakesApplications(o) ==
  /\ opening[o] # NoOpening
  /\ opening[o].public
  /\ hiringDay < opening[o].closing

\* those of the last 24 hours
Recent == {a \in applications: a.day = hiringDay}

BeginApplication(c, form) ==
  /\ MayStart(c, "openings")
  /\ TakesApplications(form.opening)
  /\ Cardinality(Recent) < PerDay
  /\ Goto(c, [at |-> "candidate", form |-> form])
  /\ UNCHANGED hiringVars

\* a candidate who is not known is inserted
KnowCandidate(c) ==
  /\ call[c].at = "candidate"
  /\ candidates' = candidates \cup {call[c].form.email}
  /\ Goto(c, [at |-> "duplicate", form |-> call[c].form])
  /\ UNCHANGED <<opening, applications, hiringDay, position, held>>

AlreadyApplied(form) ==
  \E a \in applications: a.email = form.email /\ a.opening = form.opening

LookForDuplicate(c) ==
  /\ call[c].at = "duplicate"
  /\ IF AlreadyApplied(call[c].form) THEN Return(c)
     ELSE Goto(c, [at |-> "insert", form |-> call[c].form])
  /\ UNCHANGED hiringVars

\* the opening may have been taken back in between
InsertApplication(c) ==
  /\ call[c].at = "insert"
  /\ opening[call[c].form.opening] # NoOpening
  /\ applications' = applications \cup {[email |-> call[c].form.email,
                                         opening |-> call[c].form.opening, day |-> hiringDay]}
  /\ Return(c)
  /\ UNCHANGED <<opening, candidates, hiringDay, position, held>>

\* CandidateService: create, delete (refused by the foreign key of the applications)
CreateCandidate(c, email) ==
  /\ MayStart(c, "openings")
  /\ candidates' = candidates \cup {email}
  /\ UNCHANGED <<opening, applications, hiringDay, position, held, call>>

DeleteCandidate(c, email) ==
  /\ MayStart(c, "openings")
  /\ \A a \in applications: a.email # email
  /\ candidates' = candidates \ {email}
  /\ UNCHANGED <<opening, applications, hiringDay, position, held, call>>

NextHiringDay ==
  /\ MayRun("openings")
  /\ hiringDay < LastHiringDay
  /\ hiringDay' = hiringDay + 1
  /\ UNCHANGED <<opening, candidates, applications, position, held, call>>

-----------------------------------------------------------------------------
(* JobPositionService *)

Current(h) == {r \in held: r.by = h}
HeldBy(h) == {r.position: r \in Current(h)}

CreatePosition(c, p) ==
  /\ MayStart(c, "positions")
  /\ position[p] = "none"
  /\ position' = [position EXCEPT ![p] = "live"]
  /\ UNCHANGED <<opening, candidates, applications, hiringDay, held, call>>

\* delete counts the holders, then marks the position; one deleted before is as good
BeginDeletePosition(c, p) ==
  /\ MayStart(c, "positions")
  /\ position[p] # "none"
  /\ \A r \in held: r.position # p
  /\ Goto(c, [at |-> "delete", position |-> p])
  /\ UNCHANGED hiringVars

DeletePosition(c) ==
  /\ call[c].at = "delete"
  /\ position' = [position EXCEPT ![call[c].position] = "deleted"]
  /\ Return(c)
  /\ UNCHANGED <<opening, candidates, applications, hiringDay, held>>

\* setForEmployee: six awaits and no transaction
BeginSetPositions(c, h, wanted, first) ==
  /\ MayStart(c, "positions")
  /\ \A p \in wanted: position[p] = "live"
  /\ Goto(c, [at |-> "current", set |-> [by |-> h, wanted |-> wanted, first |-> first,
                                         current |-> {}]])
  /\ UNCHANGED hiringVars

SetStep(c, at, next) == call[c].at = at /\ Goto(c, [at |-> next, set |-> call[c].set])

ReadPositions(c) ==
  /\ call[c].at = "current"
  /\ Goto(c, [at |-> "end", set |-> [call[c].set EXCEPT !.current = HeldBy(call[c].set.by)]])
  /\ UNCHANGED hiringVars

EndPositions(c) ==
  /\ SetStep(c, "end", "open")
  /\ LET set == call[c].set
     IN  held' = {r \in held: r.by = set.by => r.position \notin set.current \ set.wanted}
  /\ UNCHANGED <<opening, candidates, applications, hiringDay, position>>

OpenPositions(c) ==
  /\ SetStep(c, "open", "clear")
  /\ LET set == call[c].set
     IN  held' = held \cup [by: {set.by}, position: set.wanted \ set.current, primary: {FALSE}]
  /\ UNCHANGED <<opening, candidates, applications, hiringDay, position>>

\* (mutant) the ones that were kept are taken to be cleared
NoneCleared(rows, h) == rows

Cleared(rows, h) == {IF r.by = h THEN [r EXCEPT !.primary = FALSE] ELSE r: r \in rows}

ClearPrimary(c) ==
  /\ SetStep(c, "clear", "primary")
  /\ held' = Cleared(held, call[c].set.by)
  /\ UNCHANGED <<opening, candidates, applications, hiringDay, position>>

\* the one asked for, or the first of the list
SetPrimary(c) ==
  /\ call[c].at = "primary"
  /\ LET set == call[c].set
     IN  \E main \in IF set.first \in set.wanted \/ set.wanted = {} THEN {set.first}
                     ELSE set.wanted:
           held' = {IF r.by = set.by /\ r.position = main THEN [r EXCEPT !.primary = TRUE]
                    ELSE r: r \in held}
  /\ Return(c)
  /\ UNCHANGED <<opening, candidates, applications, hiringDay, position>>

\* an await that fails ends the call where it stands
SetPositionsFails(c) ==
  /\ focus = "positions"
  /\ call[c].at \in {"end", "open", "clear", "primary"}
  /\ Return(c)
  /\ UNCHANGED hiringVars

JobOpeningController ==
  \E c \in Clients, o \in Openings:
    \/ \E closing \in 0..NoClosing:
         \/ CreateOpening(c, o, closing)
         \/ \E status \in OpeningStatuses: UpdateOpening(c, o, status, closing)
    \/ PublishOpening(c, o) \/ UnpublishOpening(c, o) \/ CloseOpening(c, o) \/ DeleteOpening(c, o)

PublicCareersController ==
  \E c \in Clients:
    \/ \E form \in ApplyCall: BeginApplication(c, form)
    \/ KnowCandidate(c) \/ LookForDuplicate(c) \/ InsertApplication(c)

CandidateController ==
  \E c \in Clients, email \in Emails: CreateCandidate(c, email) \/ DeleteCandidate(c, email)

JobPositionController ==
  \E c \in Clients:
    \/ \E p \in Positions: CreatePosition(c, p) \/ BeginDeletePosition(c, p)
    \/ DeletePosition(c)
    \/ \E h \in Holders, wanted \in SUBSET Positions, first \in Positions \cup {"none"}:
         BeginSetPositions(c, h, wanted, first)
    \/ ReadPositions(c) \/ EndPositions(c) \/ OpenPositions(c) \/ ClearPrimary(c)
    \/ SetPrimary(c) \/ SetPositionsFails(c)

HiringNext ==
  \/ JobOpeningController \/ PublicCareersController \/ CandidateController
  \/ JobPositionController \/ NextHiringDay

-----------------------------------------------------------------------------
(* Properties *)

\* A person applies for an opening once, on whichever day and whatever became of the
\* opening and of the row of the candidate in between, while one application is handled
\* at a time (public-careers.service.ts:222, "un seul postulat par (email, offre)").
OneApplicationEach ==
  \A a, b \in applications: a.email = b.email /\ a.opening = b.opening => a = b

\* An employee has one main position at most, and holds no position that was deleted,
\* wherever an earlier change of the positions was broken off
\* (job-position.service.ts:271, "Un seul poste principal").
OneMainPosition ==
  /\ \A r, s \in held: r.by = s.by /\ r.primary /\ s.primary => r = s
  /\ \A r \in held: position[r.position] = "live"
=============================================================================
