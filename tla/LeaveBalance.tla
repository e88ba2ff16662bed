---------------------------- MODULE LeaveBalance ----------------------------
(***************************************************************************)
(* The leave of one employee: the requests                                 *)
(* (core/hr/services/leave-request.service.ts and its controller) and the  *)
(* deductions the HR department applies to the balance                     *)
(* (core/hr/hr.service.ts: getLeaveUsage, applyLeaveDeduction,             *)
(* cancelLeaveDeduction).                                                  *)
(*                                                                         *)
(* Every handler decides on what it read in one await and writes in a      *)
(* later one: two actions, with call[c] in between.  The transaction of a  *)
(* deduction runs at READ COMMITTED: its SELECT locks nothing, and from    *)
(* its UPDATE on it holds the rows, so the rest of it is one action.       *)
(*                                                                         *)
(* Left out: the choice of a leave type and the 14 days of notice, which   *)
(* look at the body of the request only, the balances the history repeats, *)
(* and the notifications.                                                  *)
(***************************************************************************)
EXTENDS Callers, Integers, Sequences, FiniteSets, FiniteSetsExt, SequencesExt

CONSTANTS Requests,    \* rows leave_requests may come to hold
          Absences,    \* attendance rows that count as leave, one day each
          Annual,      \* ANNUAL_LEAVE_DAYS (30)
          PerRequest,  \* MAX_LEAVE_DAYS_PER_REQUEST (7)
          JokerMax,    \* JOKER_MAX_PER_WEEK (1)
          Lengths,     \* lengths a client asks for
          OneDay,      \* a whole day, in the unit lengths are given in
          Years,       \* years a request may start in; the current one is ThisYear
          ThisYear,
          Weeks,       \* the weeks 1..Weeks of the run
          MaxHistory   \* bound on the rows of leave_deduction_histories

\* Requests and absences are rows of two tables.  The controller takes any number of days
\* (leave-request.controller.ts:57 has @IsNumber and no @Min, the service looks at the upper
\* limits only), a negative one or a fraction too: lengths are integers, in tenths of a day
\* (the scale of total_days; the limits are whole days, so rounding a length that passed the
\* checks to a tenth keeps it within them).  Left out is a text of a multipart form that
\* parseFloat makes NaN of.
ASSUME LeaveAssumption ==
  /\ IsFiniteSet(Requests) /\ IsFiniteSet(Absences) /\ Requests \cap Absences = {}
  /\ Lengths \subseteq Int /\ OneDay \in Nat \ {0} /\ Annual \in Nat /\ JokerMax \in Nat
  /\ ThisYear \in Years /\ Weeks \in Nat \ {0}

VARIABLES request, deducted, history, week

leaveVars == <<request, deducted, history, week>>

-----------------------------------------------------------------------------
(* Rows and calls *)

LeaveStatuses == {"pending", "approved", "rejected", "cancelled"}

\* status "none" is a row not inserted yet, "deleted" one physically deleted: an id is
\* never used again
RequestRow == [status: LeaveStatuses \cup {"none", "deleted"}, days: Int, year: Years,
               joker: BOOLEAN, week: 1..Weeks]
NoRequest == [status |-> "none", days |-> 0, year |-> ThisYear, joker |-> FALSE, week |-> 1]

Records == Absences \cup Requests

LeaveEntry == [record: Records, days: Int, cancels: BOOLEAN]

LeaveCall ==
  {Idle}
  \cup [at: {"create"}, days: Lengths, year: Years, joker: BOOLEAN]
  \cup [at: {"approve", "reject", "cancel"}, request: Requests]
  \cup [at: {"apply"}, records: SUBSET Records]
  \cup [at: {"undo"}, record: Records, days: Int]

LeaveTypeOK ==
  /\ request \in [Requests -> RequestRow]
  /\ deducted \subseteq Records
  /\ history \in Seq(LeaveEntry)
  /\ week \in 1..Weeks
  /\ focus = "leave" => call \in [Clients -> LeaveCall]

LeaveInit ==
  /\ request = [r \in Requests |-> NoRequest]
  /\ deducted = {}
  /\ history = <<>>
  /\ week = 1

-----------------------------------------------------------------------------
(* What the services compute *)

\* the row is in the table
Exists(r) == request[r].status \in LeaveStatuses

\* the sum of the days of these requests
DaysOf(S) == SumFunction([r \in Requests |-> IF r \in S THEN request[r].days ELSE 0])

\* (mutant) requests still waiting for a decision are not counted
AskedApproved(year) ==
  DaysOf({r \in Requests: request[r].status = "approved" /\ request[r].year = year})

\* days asked for or granted in a year, as assertLeaveVolumePolicy sums them
Asked(year) ==
  DaysOf({r \in Requests:
            request[r].status \in {"pending", "approved"} /\ request[r].year = year})

\* getJokerUsage: jokers asked for this week, whatever became of them
JokersUsed ==
  Cardinality({r \in Requests: Exists(r) /\ request[r].joker /\ request[r].week = week})

\* an absence counts one day, a leave request its own
DaysOfRecord(r) == IF r \in Absences THEN OneDay ELSE request[r].days

\* (mutant) what was deducted may be deducted again
EligibleAgain(records) ==
  {r \in records: r \in Absences \/ request[r].status = "approved"}

\* records applyLeaveDeduction selects for deduction
Eligible(records) ==
  {r \in records: /\ r \notin deducted
                  /\ r \in Absences \/ request[r].status = "approved"}

\* days of the last application of record r, 0 when there is none
LastAppliedDays(r) ==
  LET applied == {k \in DOMAIN history: history[k].record = r /\ ~history[k].cancels}
  IN  IF applied = {} THEN 0 ELSE history[Max(applied)].days

\* the rows a deduction of these records, one after the other, appends
Entries(records) ==
  LET order == SetToSeq(records)
  IN  [k \in DOMAIN order |-> [record  |-> order[k], days |-> DaysOfRecord(order[k]),
                               cancels |-> FALSE]]

-----------------------------------------------------------------------------
(* LeaveRequestService *)

\* bound: a row is left for every creation in flight
RequestLeft ==
  Cardinality({r \in Requests: request[r].status = "none"})
    > Cardinality({c \in Clients: call[c].at = "create"})

BeginCreate(c, days, year, joker) ==
  /\ MayStart(c, "leave")
  /\ RequestLeft
  /\ days <= PerRequest
  /\ Asked(year) + days <= Annual
  /\ joker => JokersUsed < JokerMax
  /\ Goto(c, [at |-> "create", days |-> days, year |-> year, joker |-> joker])
  /\ UNCHANGED leaveVars

InsertRequest(c, r) ==
  /\ call[c].at = "create"
  /\ request[r].status = "none"
  /\ request' = [request EXCEPT ![r] = [status |-> "pending", days |-> call[c].days,
                                        year |-> call[c].year, joker |-> call[c].joker,
                                        week |-> week]]
  /\ Return(c)
  /\ UNCHANGED <<deducted, history, week>>

\* approve and reject: assertCanApproveLeave looks at the row the controller read
BeginDecide(c, r, decision) ==
  /\ MayStart(c, "leave")
  /\ request[r].status = "pending"
  /\ Goto(c, [at |-> decision, request |-> r])
  /\ UNCHANGED leaveVars

\* cancel: the owner, whatever the status
BeginCancelLeave(c, r) ==
  /\ MayStart(c, "leave")
  /\ Exists(r)
  /\ Goto(c, [at |-> "cancel", request |-> r])
  /\ UNCHANGED leaveVars

\* (mutant) the name of the endpoint is written as the status
StatusAsCalled(endpoint) == endpoint

StatusAfter(endpoint) ==
  CASE endpoint = "approve" -> "approved"
    [] endpoint = "reject"  -> "rejected"
    [] endpoint = "cancel"  -> "cancelled"

\* UPDATE by id: no effect on a row deleted in between, and no look at the status
WriteStatus(c) ==
  LET r == call[c].request
  IN  /\ call[c].at \in {"approve", "reject", "cancel"}
      /\ request' = IF Exists(r)
                    THEN [request EXCEPT ![r].status = StatusAfter(call[c].at)]
                    ELSE request
      /\ Return(c)
      /\ UNCHANGED <<deducted, history, week>>

\* a physical deletion, in any status: the rows of the history that name the request stay
DeleteRequest(r) ==
  /\ MayRun("leave")
  /\ Exists(r)
  /\ request' = [request EXCEPT ![r].status = "deleted"]
  /\ deducted' = deducted \ {r}
  /\ UNCHANGED <<history, week, call>>

-----------------------------------------------------------------------------
(* HrService *)

\* bound: room for the rows all deductions in flight may append
Room(n) ==
  Len(history) + n
    + MapThenSumSet(LAMBDA d: IF call[d].at = "apply" THEN Cardinality(call[d].records)
                              ELSE IF call[d].at = "undo" THEN 1 ELSE 0, Clients)
    <= MaxHistory

\* applyLeaveDeduction selects the records that were not deducted yet (attendance rows
\* first, then requests, in the code: the two selections look at different tables) ...
BeginApply(c, records) ==
  /\ MayStart(c, "leave")
  /\ Eligible(records) # {}
  /\ Room(Cardinality(Eligible(records)))
  /\ Goto(c, [at |-> "apply", records |-> Eligible(records)])
  /\ UNCHANGED leaveVars

\* ... and marks them by id, with a row of history for each
WriteDeduction(c) ==
  /\ call[c].at = "apply"
  /\ deducted' = deducted \cup {r \in call[c].records:
                                  r \in Absences \/ Exists(r)}
  /\ history' = history \o Entries(call[c].records)
  /\ Return(c)
  /\ UNCHANGED <<request, week>>

\* cancelLeaveDeduction reads the last application of the record ...
BeginUndo(c, r) ==
  /\ MayStart(c, "leave")
  /\ Room(1)
  /\ Goto(c, [at |-> "undo", record |-> r, days |-> LastAppliedDays(r)])
  /\ UNCHANGED leaveVars

\* length of what manager.query returns for UPDATE ... RETURNING: the driver of TypeORM
\* 0.3 gives the pair of the rows and their number, whether a row was found or not
ReturnedLength(found) == 2

\* ... and adds its row of history unless the result of its UPDATE is empty
WriteUndo(c) ==
  LET r == call[c].record
  IN  /\ call[c].at = "undo"
      /\ deducted' = deducted \ {r}
      /\ history' = IF ReturnedLength(r \in deducted) = 0 THEN history
                    ELSE Append(history, [record  |-> r,
                                          days    |-> - call[c].days,
                                          cancels |-> TRUE])
      /\ Return(c)
      /\ UNCHANGED <<request, week>>

-----------------------------------------------------------------------------
NextWeek ==
  /\ focus = "leave"
  /\ week < Weeks
  /\ week' = week + 1
  /\ UNCHANGED <<request, deducted, history, call>>

RequestStep(c) ==
  \/ \E days \in Lengths, year \in Years, joker \in BOOLEAN: BeginCreate(c, days, year, joker)
  \/ \E r \in Requests:
       \/ InsertRequest(c, r)
       \/ \E decision \in {"approve", "reject"}: BeginDecide(c, r, decision)
       \/ BeginCancelLeave(c, r)
  \/ WriteStatus(c)

DeductionStep(c) ==
  \/ \E records \in SUBSET Records: BeginApply(c, records)
  \/ WriteDeduction(c)
  \/ \E r \in Records: BeginUndo(c, r)
  \/ WriteUndo(c)

LeaveNext ==
  \/ NextWeek
  \/ \E r \in Requests: DeleteRequest(r)
  \/ \E c \in Clients: RequestStep(c) \/ DeductionStep(c)

\* the component by itself
LeaveSpec ==
  /\ LeaveInit
  /\ call = [c \in Clients |-> Idle]
  /\ [][LeaveNext]_<<leaveVars, call>>

-----------------------------------------------------------------------------
(* Properties *)

\* days requests of a negative length had added to the right of a year before they were
\* refused, cancelled or deleted
Lent(year) ==
  - DaysOf({r \in Requests: /\ request[r].status \in {"rejected", "cancelled", "deleted"}
                            /\ request[r].year = year /\ request[r].days < 0})

AnnualRight == \A year \in Years: Asked(year) <= Annual + Lent(year)

JokerQuota ==
  \A w \in 1..Weeks:
    Cardinality({r \in Requests: Exists(r) /\ request[r].joker /\ request[r].week = w})
      <= JokerMax

\* The days an employee asked for and was granted in a year stay within the annual
\* right, so that it cannot be spent several times while requests wait for a decision,
\* and the jokers of a week within their quota, refused and cancelled ones included
\* (leave-request.service.ts:209 and 264).  The service refuses no negative length: what
\* such a request, withdrawn since, had lent is all the right can be exceeded by.
LeaveQuotas == AnnualRight /\ JokerQuota

\* No record is deducted twice: between two applications of a record the history holds
\* its cancellation, and what is deducted now has its application in the history.
NeverAppliedTwice ==
  /\ \A i, j \in DOMAIN history:
       (i < j /\ history[i].record = history[j].record
              /\ ~history[i].cancels /\ ~history[j].cancels)
         => \E k \in i..j: history[k].record = history[i].record /\ history[k].cancels
  /\ \A r \in deducted:
       \E k \in DOMAIN history:
         history[k].record = r /\ ~history[k].cancels

\* The history is an account of the deductions: what its rows say of a record adds up
\* to the days of the record when it is deducted now and to nothing otherwise, so the
\* balance can be reconstituted from the history alone.
HistoryAccounts ==
  \A r \in Absences \cup {q \in Requests: Exists(q)}:
    MapThenSumSet(LAMBDA k: IF history[k].record = r THEN history[k].days ELSE 0,
                  DOMAIN history)
      = IF r \in deducted THEN DaysOfRecord(r) ELSE 0
=============================================================================
