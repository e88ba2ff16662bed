------------------------ MODULE LeaveBalance_proofs -------------------------
(***************************************************************************)
(* Proofs about LeaveBalance, for any requests and absences, when the      *)
(* calls about leave are made one after the other.                         *)
(***************************************************************************)
EXTENDS LeaveBalance, Callers_proofs, FiniteSetTheorems

-----------------------------------------------------------------------------
(* Sums of days and orders of records *)

LEMMA SubsetsAreFinite ==
  ASSUME NEW S \in SUBSET Requests
  PROVE  IsFiniteSet(S) /\ Cardinality(S) \in Nat
  BY LeaveAssumption, FS_Subset, FS_CardinalityType

\* A set that gains at most one member.
LEMMA OneMore ==
  ASSUME NEW S, IsFiniteSet(S), NEW x, NEW T \in SUBSET (S \cup {x})
  PROVE  /\ IsFiniteSet(T)
         /\ Cardinality(T) \in Nat
         /\ Cardinality(T) <= Cardinality(S) + 1
  <1>0. Cardinality(S) \in Nat
    BY FS_CardinalityType
  <1>1. IsFiniteSet(S \cup {x}) /\ Cardinality(S \cup {x}) <= Cardinality(S) + 1
    <2>1. IsFiniteSet(S \cup {x})
      BY FS_AddElement
    <2>2. Cardinality(S \cup {x}) = IF x \in S THEN Cardinality(S) ELSE Cardinality(S) + 1
      BY FS_AddElement
    <2> QED
      BY <1>0, <2>1, <2>2
  <1> QED
    BY <1>0, <1>1, FS_Subset, FS_CardinalityType

\* A sum of which one term changes, changes as much.
LEMMA OneTermChanges ==
  ASSUME NEW D, IsFiniteSet(D), NEW f \in [D -> Int], NEW g \in [D -> Int], NEW x \in D,
         \A d \in D \ {x}: g[d] = f[d]
  PROVE  SumFunction(g) = SumFunction(f) - f[x] + g[x]
  <1> DEFINE rest == SumFunction([d \in D \ {x} |-> f[d]])
  <1>1. [d \in D \ {x} |-> g[d]] = [d \in D \ {x} |-> f[d]]
    OBVIOUS
  <1>2. rest \in Int
    <2>1. IsFiniteSet(D \ {x})
      BY FS_Subset
    <2>2. [d \in D \ {x} |-> f[d]] \in [D \ {x} -> Int]
      OBVIOUS
    <2> QED
      BY <2>1, <2>2, SumIsInteger
  <1>3. SumFunction(f) = rest + f[x]
    BY SumWithout
  <1>4. SumFunction(g) = rest + g[x]
    <2>1. SumFunction(g) = SumFunction([d \in D \ {x} |-> g[d]]) + g[x]
      BY SumWithout
    <2> QED
      BY <1>1, <2>1
  <1>5. f[x] \in Int /\ g[x] \in Int
    OBVIOUS
  <1> HIDE DEF rest
  <1> QED
    BY <1>2, <1>3, <1>4, <1>5

\* An order of a finite set names each of its members once.
LEMMA OrderOfSet ==
  ASSUME NEW S, IsFiniteSet(S)
  PROVE  /\ SetToSeq(S) \in [1..Cardinality(S) -> S]
         /\ Cardinality(S) \in Nat
         /\ \A i, j \in 1..Cardinality(S): SetToSeq(S)[i] = SetToSeq(S)[j] => i = j
         /\ \A x \in S: \E i \in 1..Cardinality(S): SetToSeq(S)[i] = x
  <1> DEFINE n == Cardinality(S)
             order == SetToSeq(S)
  <1>1. n \in Nat /\ ExistsBijection(1..n, S)
    BY FS_CardinalityType
  <1>2. \E f \in [1..n -> S]: IsInjective(f)
    BY <1>1 DEF ExistsBijection, Bijection, Injection, IsInjective
  <1>3. order \in [1..n -> S] /\ IsInjective(order)
    BY <1>2 DEF SetToSeq
  <1> HIDE DEF order
  <1>4. order \in Injection(1..n, S)
    BY <1>3 DEF Injection
  <1>5. Cardinality(1..n) = n
    BY <1>1, FS_Interval
  <1>6. order \in Surjection(1..n, S)
    BY <1>4, <1>5, FS_Injection
  <1> QED
    BY <1>1, <1>3, <1>6 DEF order, IsInjective, Surjection
-----------------------------------------------------------------------------
(* The quotas *)

Counts(requests, r, year) ==
  requests[r].status \in {"pending", "approved"} /\ requests[r].year = year

\* withdrawn, of a negative length
Lends(requests, r, year) ==
  /\ requests[r].status \in {"rejected", "cancelled", "deleted"}
  /\ requests[r].year = year /\ requests[r].days < 0

\* what each request takes from the annual right: its days while it counts, and from then on
\* if it takes less than nothing
Charges(requests, year) ==
  [r \in Requests |-> IF Counts(requests, r, year) \/ Lends(requests, r, year)
                      THEN requests[r].days ELSE 0]

Charged(requests, year) == SumFunction(Charges(requests, year))

\* the requests JokersUsed counts
JokersIn(requests, w) ==
  {r \in Requests: /\ requests[r].status \in LeaveStatuses
                   /\ requests[r].joker /\ requests[r].week = w}

LEMMA ChargesAreIntegers ==
  ASSUME NEW requests \in [Requests -> RequestRow]
  PROVE  \A year: Charges(requests, year) \in [Requests -> Int] /\ Charged(requests, year) \in Int
  <1>1. \A year: Charges(requests, year) \in [Requests -> Int]
    BY DEF Charges, RequestRow
  <1> QED
    BY <1>1, LeaveAssumption, SumIsInteger DEF Charged

\* What is charged is what is asked for, less what was lent.
LEMMA AskedAndLent ==
  ASSUME request \in [Requests -> RequestRow], NEW year
  PROVE  /\ Asked(year) \in Int /\ Lent(year) \in Int
         /\ Charged(request, year) = Asked(year) - Lent(year)
         /\ Charged(request, year) <= Asked(year)
  <1> DEFINE S == {r \in Requests: Counts(request, r, year)}
             T == {r \in Requests: Lends(request, r, year)}
             f == [r \in Requests |-> IF r \in S THEN request[r].days ELSE 0]
             g == [r \in Requests |-> IF r \in T THEN request[r].days ELSE 0]
             h == Charges(request, year)
  <1>1. Asked(year) = SumFunction(f) /\ Lent(year) = - SumFunction(g)
    BY DEF Asked, Lent, DaysOf, Counts, Lends
  <1>2. f \in [Requests -> Int] /\ g \in [Requests -> Int] /\ h \in [Requests -> Int]
    BY ChargesAreIntegers DEF RequestRow
  <1>3. \A r \in Requests: h[r] = f[r] + g[r] /\ h[r] <= f[r]
    BY DEF Charges, Counts, Lends, RequestRow
  <1> HIDE DEF f, g, h
  <1>4. SumFunction(h) = SumFunction(f) + SumFunction(g)
    BY <1>2, <1>3, LeaveAssumption, SumsAddUp
  <1>5. SumFunction(h) <= SumFunction(f)
    BY <1>2, <1>3, LeaveAssumption, SumsCompare
  <1>6. SumFunction(f) \in Int /\ SumFunction(g) \in Int
    BY <1>2, LeaveAssumption, SumIsInteger
  <1>7. Charged(request, year) = SumFunction(h)
    BY DEF Charged, h
  <1> QED
    BY <1>1, <1>4, <1>5, <1>6, <1>7

QuotasIn(requests) ==
  /\ \A year \in Years: Charged(requests, year) <= Annual
  /\ \A w \in 1..Weeks: Cardinality(JokersIn(requests, w)) <= JokerMax

LEMMA QuotasAre ==
  ASSUME request \in [Requests -> RequestRow]
  PROVE  QuotasIn(request) <=> LeaveQuotas
  <1>1. (\A year \in Years: Charged(request, year) <= Annual) <=> AnnualRight
    BY AskedAndLent, LeaveAssumption DEF AnnualRight
  <1>2. (\A w \in 1..Weeks: Cardinality(JokersIn(request, w)) <= JokerMax) <=> JokerQuota
    BY DEF JokersIn, JokerQuota, Exists
  <1> QED
    BY <1>1, <1>2 DEF QuotasIn, LeaveQuotas

RequestsOK ==
  /\ request \in [Requests -> RequestRow]
  /\ week \in 1..Weeks
  /\ \A r \in Requests: request[r].week <= week

\* the quotas leave room for what client c is to insert
Fits(c) ==
  /\ call[c].days \in Int /\ call[c].year \in Years /\ call[c].joker \in BOOLEAN
  /\ Charged(request, call[c].year) + call[c].days <= Annual
  /\ call[c].joker => Cardinality(JokersIn(request, week)) < JokerMax

\* A request that is to be inserted still fits, and one that is to be decided still waits.
CallsFit ==
  \A c \in Clients:
    /\ call[c].at = "create" => Fits(c)
    /\ call[c].at \in {"approve", "reject", "cancel"} => call[c].request \in Requests
    /\ call[c].at \in {"approve", "reject"} => request[call[c].request].status = "pending"

QuotaInv == OneCall /\ RequestsOK /\ CallsFit /\ QuotasIn(request)

\* No call is in flight after this step, or it is one about deductions.
CallsElsewhere ==
  \A c \in Clients:
    /\ call[c].at # "create"
    /\ call[c].at \notin {"approve", "reject", "cancel"}

LEMMA NothingFits ==
  ASSUME CallsElsewhere PROVE CallsFit
  <1>1. ASSUME NEW c \in Clients
        PROVE  call[c].at # "create" /\ call[c].at \notin {"approve", "reject", "cancel"}
    BY DEF CallsElsewhere
  <1>2. ASSUME NEW at, at \notin {"approve", "reject", "cancel"}
        PROVE  at \notin {"approve", "reject"}
    BY <1>2
  <1> QED
    BY <1>1, <1>2, Zenon DEF CallsFit

LEMMA CountsAreNaturals ==
  ASSUME NEW requests \in [Requests -> RequestRow]
  PROVE  \A w: Cardinality(JokersIn(requests, w)) \in Nat
  <1>1. \A w: JokersIn(requests, w) \in SUBSET Requests
    BY DEF JokersIn
  <1> QED
    BY <1>1, SubsetsAreFinite

\* A change that makes no request charge more, and none a joker, keeps the quotas.
LEMMA NoneMoreFits ==
  ASSUME NEW old \in [Requests -> RequestRow], NEW new \in [Requests -> RequestRow],
         QuotasIn(old),
         \A year: \A r \in Requests: Charges(new, year)[r] <= Charges(old, year)[r],
         \A w: JokersIn(new, w) \subseteq JokersIn(old, w)
  PROVE  QuotasIn(new)
  <1>1. ASSUME NEW year \in Years
        PROVE  Charged(new, year) <= Annual
    <2>1. Charged(new, year) <= Charged(old, year)
      BY ChargesAreIntegers, LeaveAssumption, SumsCompare DEF Charged
    <2> QED
      BY <2>1, ChargesAreIntegers, LeaveAssumption DEF QuotasIn
  <1>2. ASSUME NEW w \in 1..Weeks
        PROVE  Cardinality(JokersIn(new, w)) <= JokerMax
    <2>1. JokersIn(old, w) \in SUBSET Requests
      BY DEF JokersIn
    <2>2. Cardinality(JokersIn(new, w)) <= Cardinality(JokersIn(old, w))
      BY <2>1, SubsetsAreFinite, FS_Subset
    <2> QED
      BY <2>2, CountsAreNaturals, LeaveAssumption DEF QuotasIn
  <1> QED
    BY <1>1, <1>2 DEF QuotasIn

\* Such is a change of status that lets no request wait or be granted that did not, and
\* inserts none.
LEMMA StatusFits ==
  ASSUME RequestsOK, QuotasIn(request), NEW r \in Requests,
         NEW s \in LeaveStatuses \cup {"deleted"}, Exists(r),
         s \in {"pending", "approved"} => request[r].status \in {"pending", "approved"},
         request' = [request EXCEPT ![r].status = s], UNCHANGED week
  PROVE  RequestsOK' /\ QuotasIn(request')
  <1>1. request' \in [Requests -> RequestRow]
    BY DEF RequestsOK, RequestRow
  <1>2. \A q \in Requests: /\ request'[q].days = request[q].days
                           /\ request'[q].year = request[q].year
                           /\ request'[q].joker = request[q].joker
                           /\ request'[q].week = request[q].week
                           /\ q # r => request'[q].status = request[q].status
    BY DEF RequestsOK, RequestRow
  <1>3. request'[r].status = s
    BY DEF RequestsOK, RequestRow
  <1>4. \A year: \A q \in Requests: Charges(request', year)[q] <= Charges(request, year)[q]
    <2> SUFFICES ASSUME NEW year, NEW q \in Requests
                 PROVE  Charges(request', year)[q] <= Charges(request, year)[q]
      OBVIOUS
    <2>1. request[q].days \in Int
      BY DEF RequestsOK, RequestRow
    <2>2. CASE q # r
      BY <1>2, <2>1, <2>2 DEF Charges, Counts, Lends
    <2>3. CASE q = r
      <3>1. request[r].status \in LeaveStatuses
        BY DEF Exists
      <3> QED
        BY <1>2, <1>3, <2>1, <2>3, <3>1 DEF Charges, Counts, Lends, LeaveStatuses
    <2> QED
      BY <2>2, <2>3
  <1>5. \A w: JokersIn(request', w) \subseteq JokersIn(request, w)
    BY <1>2, <1>3 DEF JokersIn, Exists
  <1>6. QuotasIn(request')
    <2>1. request \in [Requests -> RequestRow]
      BY DEF RequestsOK
    <2> QED
      BY ONLY <1>1, <2>1, <1>4, <1>5, QuotasIn(request), NoneMoreFits
  <1> QED
    BY <1>1, <1>2, <1>6 DEF RequestsOK

LEMMA QuotasInitially ==
  LeaveInit /\ call = [c \in Clients |-> Idle] => QuotaInv
  <1> SUFFICES ASSUME LeaveInit, call = [c \in Clients |-> Idle]
               PROVE  QuotaInv
    OBVIOUS
  <1>1. NoRequest \in RequestRow
    BY LeaveAssumption DEF NoRequest, RequestRow
  <1>2. RequestsOK
    BY <1>1, LeaveAssumption DEF LeaveInit, RequestsOK, NoRequest
  <1>3. \A w: JokersIn(request, w) = {}
    BY DEF LeaveInit, JokersIn, NoRequest, LeaveStatuses
  <1>4. ASSUME NEW year
        PROVE  Charged(request, year) = 0
    <2> DEFINE none == Charges(request, year)
    <2>1. none \in [Requests -> Int] /\ \A r \in Requests: none[r] = 0 * none[r]
      BY DEF LeaveInit, NoRequest, Charges
    <2> HIDE DEF none
    <2>2. SumFunction(none) = 0 * SumFunction(none) /\ SumFunction(none) \in Int
      BY <2>1, LeaveAssumption, SumIsScaled, SumIsInteger
    <2> QED
      BY <2>2 DEF Charged, none
  <1>5. QuotasIn(request)
    BY <1>3, <1>4, FS_EmptySet, LeaveAssumption DEF QuotasIn
  <1>6. OneCall /\ CallsElsewhere
    BY DEF OneCall, CallsElsewhere, Idle
  <1> QED
    BY <1>2, <1>5, <1>6, NothingFits DEF QuotaInv
\* A call that starts finds no other in flight.
LEMMA StartsAlone ==
  ASSUME "leave" \notin Overlapping, NEW c \in Clients, MayStart(c, "leave")
  PROVE  Quiet
  BY DEF MayStart, MayRun

\* A call that goes on to something other than a request, or returns, leaves nothing to fit.
LEMMA GoesElsewhere ==
  ASSUME OneCall, NEW c \in Clients, NEW next, Goto(c, next), Quiet \/ call[c] # Idle,
         next.at \notin {"create", "approve", "reject", "cancel"}
  PROVE  OneCall' /\ CallsFit'
  <1>1. /\ OneCall'
        /\ call'[c] = next
        /\ \A d \in Clients \ {c}: call'[d] = Idle
    BY AloneOrNone
  <1>2. ASSUME NEW d \in Clients
        PROVE  call'[d].at # "create" /\ call'[d].at \notin {"approve", "reject", "cancel"}
    BY <1>1 DEF Idle
  <1>3. ASSUME NEW at, at \notin {"approve", "reject", "cancel"}
        PROVE  at \notin {"approve", "reject"}
    BY <1>3
  <1>4. CallsFit'
    BY <1>2, <1>3, Zenon DEF CallsFit
  <1> QED
    BY <1>1, <1>4

LEMMA CreationFits ==
  ASSUME "leave" \notin Overlapping, QuotaInv, NEW c \in Clients,
         NEW days \in Lengths, NEW year \in Years, NEW joker \in BOOLEAN,
         BeginCreate(c, days, year, joker)
  PROVE  QuotaInv'
  <1> DEFINE next == [at |-> "create", days |-> days, year |-> year, joker |-> joker]
  <1>1. /\ Quiet /\ Goto(c, next) /\ UNCHANGED <<request, week>>
        /\ Asked(year) + days <= Annual
        /\ joker => JokersUsed < JokerMax
    BY StartsAlone DEF BeginCreate, leaveVars
  <1>2. /\ OneCall'
        /\ call'[c] = next
        /\ \A d \in Clients \ {c}: call'[d] = Idle
    BY <1>1, AloneOrNone DEF QuotaInv
  <1>3. /\ call'[c].at = "create" /\ call'[c].days = days
        /\ call'[c].year = year /\ call'[c].joker = joker
    BY <1>2
  <1> HIDE DEF next
  <1>4. Fits(c)'
    <2>1. request \in [Requests -> RequestRow]
      BY DEF QuotaInv, RequestsOK
    <2>2. Charged(request, year) + days <= Annual
      BY <1>1, <2>1, AskedAndLent, ChargesAreIntegers, LeaveAssumption
    <2>3. JokersUsed = Cardinality(JokersIn(request, week))
      BY DEF JokersUsed, JokersIn, Exists
    <2> QED
      BY <1>1, <1>3, <2>2, <2>3, LeaveAssumption DEF Fits
  <1>5. CallsFit'
    <2> SUFFICES ASSUME NEW d \in Clients
                 PROVE  /\ call'[d].at = "create" => Fits(d)'
                        /\ call'[d].at \notin {"approve", "reject", "cancel"}
                        /\ call'[d].at \notin {"approve", "reject"}
      BY Zenon DEF CallsFit
    <2>1. CASE d = c
      BY <1>3, <1>4, <2>1
    <2>2. CASE d # c
      BY <1>2, <2>2 DEF Idle
    <2> QED
      BY <2>1, <2>2
  <1> QED
    BY <1>1, <1>2, <1>5 DEF QuotaInv, RequestsOK

LEMMA InsertionFits ==
  ASSUME QuotaInv, NEW c \in Clients, NEW r \in Requests, InsertRequest(c, r)
  PROVE  QuotaInv'
  <1> DEFINE row == [status |-> "pending", days |-> call[c].days, year |-> call[c].year,
                     joker |-> call[c].joker, week |-> week]
  <1>1. /\ call[c].at = "create" /\ call[c] # Idle
        /\ request[r].status = "none"
        /\ request' = [request EXCEPT ![r] = row]
        /\ Goto(c, Idle) /\ UNCHANGED week
    BY DEF InsertRequest, Return, Idle
  <1>2. /\ call[c].days \in Int /\ call[c].year \in Years /\ call[c].joker \in BOOLEAN
        /\ Charged(request, call[c].year) + call[c].days <= Annual
        /\ call[c].joker => Cardinality(JokersIn(request, week)) < JokerMax
    BY <1>1 DEF QuotaInv, CallsFit, Fits
  <1>3. OneCall' /\ CallsFit'
    BY <1>1, GoesElsewhere DEF QuotaInv, Idle
  <1>4. /\ request \in [Requests -> RequestRow] /\ week \in 1..Weeks
        /\ \A q \in Requests: request[q].week <= week
    BY DEF QuotaInv, RequestsOK
  <1>5. /\ row \in RequestRow
        /\ row.days = call[c].days /\ row.year = call[c].year
        /\ row.joker = call[c].joker /\ row.week = week
    BY <1>2, <1>4 DEF RequestRow, LeaveStatuses
  <1> HIDE DEF row
  <1>6. /\ request' \in [Requests -> RequestRow]
        /\ request'[r] = row
        /\ \A q \in Requests \ {r}: request'[q] = request[q]
    BY <1>1, <1>4, <1>5
  <1>7. RequestsOK'
    <2>1. \A q \in Requests: request'[q].week <= week
      BY <1>4, <1>5, <1>6
    <2> QED
      BY <1>1, <1>4, <1>6, <2>1 DEF RequestsOK
  <1>8. ASSUME NEW year \in Years
        PROVE  Charged(request', year) <= Annual
    <2> DEFINE f == Charges(request, year)
               g == Charges(request', year)
    <2>1. /\ f \in [Requests -> Int] /\ g \in [Requests -> Int]
          /\ Charged(request, year) \in Int /\ Charged(request, year) <= Annual
      BY <1>4, <1>6, ChargesAreIntegers DEF QuotaInv, QuotasIn
    <2>2. \A q \in Requests \ {r}: g[q] = f[q]
      BY <1>6 DEF Charges, Counts, Lends
    <2>3. f[r] = 0
      BY <1>1 DEF Charges, Counts, Lends
    <2>4. g[r] = IF call[c].year = year THEN call[c].days ELSE 0
      BY <1>5, <1>6 DEF Charges, Counts, Lends, row
    <2>5. SumFunction(g) = SumFunction(f) - f[r] + g[r]
      <3> HIDE DEF f, g
      <3> QED
        BY <2>1, <2>2, LeaveAssumption, OneTermChanges
    <2> QED
      BY <1>2, <2>1, <2>3, <2>4, <2>5, LeaveAssumption DEF Charged
  <1>9. ASSUME NEW w \in 1..Weeks
        PROVE  Cardinality(JokersIn(request', w)) <= JokerMax
    <2> DEFINE S == JokersIn(request, w)
               T == JokersIn(request', w)
    <2>0. /\ S \in SUBSET Requests
          /\ T \subseteq S \cup {r}
      BY <1>6 DEF JokersIn
    <2>1. /\ Cardinality(T) \in Nat /\ Cardinality(S) \in Nat
          /\ Cardinality(S) <= JokerMax
      BY <1>4, <1>6, CountsAreNaturals DEF QuotaInv, QuotasIn
    <2>2. CASE w = week /\ call[c].joker = TRUE
      <3>1. Cardinality(T) <= Cardinality(S) + 1
        BY <2>0, SubsetsAreFinite, OneMore
      <3>2. Cardinality(S) < JokerMax
        BY <1>2, <2>2
      <3> QED
        BY <2>1, <3>1, <3>2, LeaveAssumption
    <2>3. CASE ~(w = week /\ call[c].joker = TRUE)
      <3>1. T \in SUBSET S
        BY <1>2, <1>5, <1>6, <2>3 DEF JokersIn
      <3>2. Cardinality(T) <= Cardinality(S)
        BY <2>0, <3>1, SubsetsAreFinite, FS_Subset
      <3> QED
        BY <2>1, <3>2, LeaveAssumption
    <2> QED
      BY <2>2, <2>3
  <1>10. QuotasIn(request')
    BY <1>8, <1>9 DEF QuotasIn
  <1>11. QuotasIn(request)'
    BY <1>10
  <1> QED
    BY <1>3, <1>7, <1>11 DEF QuotaInv
LEMMA DecisionFits ==
  ASSUME "leave" \notin Overlapping, QuotaInv, NEW c \in Clients, NEW r \in Requests,
         NEW endpoint \in {"approve", "reject", "cancel"},
         Goto(c, [at |-> endpoint, request |-> r]), Quiet, UNCHANGED <<request, week>>,
         endpoint # "cancel" => request[r].status = "pending"
  PROVE  QuotaInv'
  <1> DEFINE next == [at |-> endpoint, request |-> r]
  <1>1. /\ OneCall'
        /\ call'[c] = next
        /\ \A d \in Clients \ {c}: call'[d] = Idle
    BY AloneOrNone DEF QuotaInv
  <1>2. call'[c].at = endpoint /\ call'[c].request = r
    BY <1>1
  <1> HIDE DEF next
  <1>3. CallsFit'
    <2> SUFFICES ASSUME NEW d \in Clients
                 PROVE  /\ call'[d].at # "create"
                        /\ call'[d].at \in {"approve", "reject", "cancel"} =>
                             call'[d].request \in Requests
                        /\ call'[d].at \in {"approve", "reject"} =>
                             request'[call'[d].request].status = "pending"
      BY Zenon DEF CallsFit
    <2>1. CASE d = c
      BY <1>2, <2>1
    <2>2. CASE d # c
      BY <1>1, <2>2 DEF Idle
    <2> QED
      BY <2>1, <2>2
  <1> QED
    BY <1>1, <1>3 DEF QuotaInv, RequestsOK

LEMMA WriteStatusFits ==
  ASSUME QuotaInv, NEW c \in Clients, WriteStatus(c)
  PROVE  QuotaInv'
  <1> DEFINE r == call[c].request
             s == StatusAfter(call[c].at)
  <1>1. /\ call[c].at \in {"approve", "reject", "cancel"} /\ call[c] # Idle
        /\ Goto(c, Idle) /\ UNCHANGED week
        /\ request' = IF Exists(r) THEN [request EXCEPT ![r].status = s] ELSE request
    BY DEF WriteStatus, Return, Idle
  <1>2. /\ r \in Requests
        /\ call[c].at \in {"approve", "reject"} => request[r].status = "pending"
    BY <1>1 DEF QuotaInv, CallsFit
  <1>3. OneCall' /\ CallsFit'
    BY <1>1, GoesElsewhere DEF QuotaInv, Idle
  <1>4. /\ s \in LeaveStatuses \cup {"deleted"}
        /\ s \in {"pending", "approved"} => call[c].at = "approve"
    BY <1>1 DEF StatusAfter, LeaveStatuses
  <1>5. RequestsOK' /\ QuotasIn(request')
    <2>1. CASE Exists(r)
      BY <1>1, <1>2, <1>4, <2>1, StatusFits DEF QuotaInv
    <2>2. CASE ~Exists(r)
      BY <1>1, <2>2 DEF QuotaInv, RequestsOK
    <2> QED
      BY <2>1, <2>2
  <1>6. QuotasIn(request)'
    BY <1>5
  <1> QED
    BY <1>3, <1>5, <1>6 DEF QuotaInv

LEMMA DeletionFits ==
  ASSUME "leave" \notin Overlapping, QuotaInv, NEW r \in Requests, DeleteRequest(r)
  PROVE  QuotaInv'
  <1>1. /\ Quiet /\ Exists(r) /\ UNCHANGED <<call, week>>
        /\ request' = [request EXCEPT ![r].status = "deleted"]
    BY DEF DeleteRequest, MayRun
  <1>2. RequestsOK' /\ QuotasIn(request')
    BY <1>1, StatusFits DEF QuotaInv, LeaveStatuses
  <1>3. ASSUME NEW c \in Clients
        PROVE  call'[c].at # "create" /\ call'[c].at \notin {"approve", "reject", "cancel"}
    BY <1>1 DEF Quiet, Idle
  <1>4. ASSUME NEW at, at \notin {"approve", "reject", "cancel"}
        PROVE  at \notin {"approve", "reject"}
    BY <1>4
  <1>5. CallsFit'
    BY <1>3, <1>4, Zenon DEF CallsFit
  <1>6. QuotasIn(request)'
    BY <1>2
  <1> QED
    BY <1>1, <1>2, <1>5, <1>6 DEF QuotaInv, OneCall

\* A new week has no jokers yet, and a quota that let one through is not 0.
LEMMA NewWeekFits ==
  ASSUME QuotaInv, NextWeek
  PROVE  QuotaInv'
  <1>1. /\ UNCHANGED <<request, call>> /\ week' = week + 1 /\ week' \in 1..Weeks
    BY LeaveAssumption DEF NextWeek, QuotaInv, RequestsOK
  <1>2. RequestsOK'
    <2>1. week \in Nat /\ \A r \in Requests: request[r].week \in Nat /\ request[r].week <= week
      BY LeaveAssumption DEF QuotaInv, RequestsOK, RequestRow
    <2>2. \A r \in Requests: request[r].week <= week + 1
      BY <2>1
    <2> QED
      BY <1>1, <2>2 DEF QuotaInv, RequestsOK
  <1>3. JokersIn(request', week') = {}
    BY <1>1 DEF QuotaInv, RequestsOK, JokersIn
  <1>4. \A w: Cardinality(JokersIn(request, w)) \in Nat
    BY CountsAreNaturals DEF QuotaInv, RequestsOK
  <1>5. ASSUME NEW c \in Clients, Fits(c)
        PROVE  Fits(c)'
    <2>1. Cardinality(JokersIn(request', week')) = 0
      BY <1>3, FS_EmptySet
    <2>2. call[c].joker => 0 < JokerMax
      BY <1>4, <1>5, LeaveAssumption DEF Fits
    <2> QED
      BY <1>1, <1>5, <2>1, <2>2 DEF Fits
  <1>6. CallsFit'
    <2>1. ASSUME NEW c \in Clients
          PROVE  /\ call'[c].at = "create" => Fits(c)'
                 /\ call'[c].at \in {"approve", "reject", "cancel"} => call'[c].request \in Requests
                 /\ call'[c].at \in {"approve", "reject"} =>
                      request'[call'[c].request].status = "pending"
      BY <1>1, <1>5 DEF QuotaInv, CallsFit
    <2> QED
      BY <2>1, Zenon DEF CallsFit
  <1> QED
    BY <1>1, <1>2, <1>6 DEF QuotaInv, OneCall

LEMMA QuotasStep ==
  ASSUME "leave" \notin Overlapping, QuotaInv, LeaveNext
  PROVE  QuotaInv'
  <1>1. CASE NextWeek
    BY <1>1, NewWeekFits
  <1>2. ASSUME NEW r \in Requests, DeleteRequest(r)
        PROVE  QuotaInv'
    BY <1>2, DeletionFits
  <1>3. ASSUME NEW c \in Clients, RequestStep(c)
        PROVE  QuotaInv'
    <2>1. ASSUME NEW days \in Lengths, NEW year \in Years, NEW joker \in BOOLEAN,
                 BeginCreate(c, days, year, joker)
          PROVE  QuotaInv'
      BY <2>1, CreationFits
    <2>2. ASSUME NEW r \in Requests, InsertRequest(c, r)
          PROVE  QuotaInv'
      BY <2>2, InsertionFits
    <2>3. ASSUME NEW r \in Requests, NEW decision \in {"approve", "reject"},
                 BeginDecide(c, r, decision)
          PROVE  QuotaInv'
      <3>1. /\ Quiet /\ Goto(c, [at |-> decision, request |-> r])
            /\ UNCHANGED <<request, week>> /\ request[r].status = "pending"
        BY <2>3, StartsAlone DEF BeginDecide, leaveVars
      <3> QED
        BY <3>1, DecisionFits
    <2>4. ASSUME NEW r \in Requests, BeginCancelLeave(c, r)
          PROVE  QuotaInv'
      <3>1. /\ Quiet /\ Goto(c, [at |-> "cancel", request |-> r])
            /\ UNCHANGED <<request, week>>
        BY <2>4, StartsAlone DEF BeginCancelLeave, leaveVars
      <3> QED
        BY <3>1, DecisionFits
    <2>5. CASE WriteStatus(c)
      BY <2>5, WriteStatusFits
    <2> QED
      BY <1>3, <2>1, <2>2, <2>3, <2>4, <2>5 DEF RequestStep
  <1>4. ASSUME NEW c \in Clients, DeductionStep(c)
        PROVE  QuotaInv'
    <2>1. \E next: /\ Goto(c, next) /\ (Quiet \/ call[c] # Idle)
                   /\ next.at \notin {"create", "approve", "reject", "cancel"}
      <3>1. ASSUME NEW records \in SUBSET Records, BeginApply(c, records)
            PROVE  Quiet /\ Goto(c, [at |-> "apply", records |-> Eligible(records)])
        BY <3>1, StartsAlone DEF BeginApply
      <3>2. ASSUME NEW r \in Records, BeginUndo(c, r)
            PROVE  Quiet /\ Goto(c, [at |-> "undo", record |-> r, days |-> LastAppliedDays(r)])
        BY <3>2, StartsAlone DEF BeginUndo
      <3>3. ASSUME WriteDeduction(c) \/ WriteUndo(c)
            PROVE  call[c] # Idle /\ Goto(c, Idle)
        BY <3>3 DEF WriteDeduction, WriteUndo, Return, Idle
      <3>4. /\ Idle.at \notin {"create", "approve", "reject", "cancel"}
            /\ \A x, y: [at |-> "undo", record |-> x, days |-> y].at
                          \notin {"create", "approve", "reject", "cancel"}
            /\ \A x: [at |-> "apply", records |-> x].at
                          \notin {"create", "approve", "reject", "cancel"}
        BY DEF Idle
      <3> QED
        BY <1>4, <3>1, <3>2, <3>3, <3>4, Zenon DEF DeductionStep
    <2>2. UNCHANGED <<request, week>>
      BY <1>4 DEF DeductionStep, BeginApply, WriteDeduction, BeginUndo, WriteUndo, leaveVars
    <2>3. OneCall' /\ CallsFit'
      BY <2>1, GoesElsewhere DEF QuotaInv
    <2> QED
      BY <2>2, <2>3 DEF QuotaInv, RequestsOK
  <1> QED
    BY <1>1, <1>2, <1>3, <1>4 DEF LeaveNext

\* The requests of an employee and their jokers, made and decided one call at a time, stay
\* within the annual right and the weekly quota, however many requests there are, whatever
\* their lengths and whatever is cancelled, deleted or asked for at the turn of a week: the
\* right is exceeded by no more than requests of a negative length, withdrawn since, had
\* lent: by nothing, when no length is negative.
THEOREM QuotasHold ==
  ASSUME "leave" \notin Overlapping
  PROVE  LeaveSpec => []LeaveQuotas
  <1>1. LeaveInit /\ call = [c \in Clients |-> Idle] => QuotaInv
    BY QuotasInitially
  <1>2. QuotaInv /\ [LeaveNext]_<<leaveVars, call>> => QuotaInv'
    <2>1. CASE UNCHANGED <<leaveVars, call>>
      BY <2>1 DEF leaveVars, QuotaInv, OneCall, RequestsOK, CallsFit, Fits
    <2> QED
      BY <2>1, QuotasStep
  <1>3. QuotaInv => LeaveQuotas
    BY QuotasAre DEF QuotaInv, RequestsOK
  <1> QED
    BY <1>1, <1>2, <1>3, PTL DEF LeaveSpec
-----------------------------------------------------------------------------
(* The history *)

\* row k of the history cancels the deduction that row i applied
Cancels(rows, i, k) == i < k /\ rows[k].record = rows[i].record /\ rows[k].cancels

\* Between two applications of a record is its cancellation.
Alternates(rows) ==
  \A i, j \in DOMAIN rows:
    (i < j /\ rows[i].record = rows[j].record /\ ~rows[i].cancels /\ ~rows[j].cancels)
      => \E k \in DOMAIN rows: Cancels(rows, i, k) /\ k < j

\* An application that was not cancelled is of a record that is deducted, or gone for good.
Stands(rows, requests, now) ==
  \A i \in DOMAIN rows:
    \/ rows[i].cancels
    \/ \E k \in DOMAIN rows: Cancels(rows, i, k)
    \/ rows[i].record \in now
    \/ rows[i].record \in Requests /\ requests[rows[i].record].status = "deleted"

\* What is deducted was applied.
Recorded(rows, now) ==
  \A r \in now: \E k \in DOMAIN rows: rows[k].record = r /\ ~rows[k].cancels

HistoryOK ==
  /\ deducted \subseteq Records
  /\ history \in Seq(LeaveEntry)
  /\ Alternates(history)
  /\ Stands(history, request, deducted)
  /\ Recorded(history, deducted)

\* what a deduction in flight selected may still be deducted
Selected(c) ==
  /\ call[c].records \subseteq Records
  /\ \A r \in call[c].records:
       r \notin deducted /\ (r \in Absences \/ request[r].status = "approved")

CallsDeduct ==
  \A c \in Clients:
    /\ call[c].at = "apply" => Selected(c)
    /\ call[c].at = "undo" => call[c].record \in Records /\ call[c].days \in Int

DeductionInv == QuotaInv /\ HistoryOK /\ CallsDeduct

LEMMA LastIsThere ==
  ASSUME NEW n \in Nat, NEW S \in SUBSET (1..n), S # {}
  PROVE  Max(S) \in S
  <1> DEFINE Bounds == {m \in Nat: \A k \in S: k <= m}
  <1>1. n \in Bounds
    OBVIOUS
  <1>2. PICK m \in Bounds: \A k \in Bounds: m <= k
    BY <1>1, LeastNatural
  <1>3. m \in S
    <2>1. SUFFICES ASSUME m \notin S
                   PROVE  FALSE
      OBVIOUS
    <2>2. \A k \in S: k \in Nat /\ k <= m /\ k # m /\ 1 <= k
      BY <2>1
    <2>3. PICK x \in S: TRUE
      OBVIOUS
    <2>4. m \in Nat /\ x \in Nat /\ 1 <= x /\ x <= m
      BY <2>2, <2>3
    <2>5. \A k \in S: k <= m - 1
      BY <2>2, <2>4
    <2>6. m - 1 \in Bounds
      BY <2>4, <2>5
    <2> HIDE DEF Bounds
    <2> QED
      BY <1>2, <2>4, <2>6
  <1>4. \E x \in S: \A y \in S: x >= y
    BY <1>3
  <1> QED
    BY <1>4 DEF Max

LEMMA LastAppliedIsInt ==
  ASSUME history \in Seq(LeaveEntry), NEW r
  PROVE  LastAppliedDays(r) \in Int
  <1> DEFINE applied == {k \in DOMAIN history: history[k].record = r /\ ~history[k].cancels}
  <1>1. applied \in SUBSET (1..Len(history)) /\ Len(history) \in Nat
    OBVIOUS
  <1>2. ASSUME applied # {}
        PROVE  history[Max(applied)].days \in Int
    <2>1. Max(applied) \in 1..Len(history)
      BY <1>1, <1>2, LastIsThere
    <2>2. \A k \in 1..Len(history): history[k] \in LeaveEntry
      OBVIOUS
    <2>3. \A e \in LeaveEntry: e.days \in Int
      BY DEF LeaveEntry
    <2> HIDE DEF applied
    <2> QED
      BY <2>1, <2>2, <2>3
  <1> QED
    BY <1>2 DEF LastAppliedDays

\* A deduction appends one application of each record it selected.
LEMMA EntriesOfRecords ==
  ASSUME request \in [Requests -> RequestRow], NEW records \in SUBSET Records
  PROVE  /\ Entries(records) \in Seq(LeaveEntry)
         /\ Len(Entries(records)) \in Nat
         /\ \A k \in 1..Len(Entries(records)):
              /\ Entries(records)[k].record \in records
              /\ Entries(records)[k].cancels = FALSE
         /\ \A i, j \in 1..Len(Entries(records)):
              Entries(records)[i].record = Entries(records)[j].record => i = j
         /\ \A r \in records: \E k \in 1..Len(Entries(records)): Entries(records)[k].record = r
  <1> DEFINE order == SetToSeq(records)
             n == Cardinality(records)
             rows == [k \in DOMAIN order |-> [record  |-> order[k], days |-> DaysOfRecord(order[k]),
                                              cancels |-> FALSE]]
  <1>1. IsFiniteSet(records)
    <2>1. IsFiniteSet(Records)
      BY LeaveAssumption, FS_Union DEF Records
    <2> QED
      BY <2>1, FS_Subset
  <1>2. /\ order \in [1..n -> records] /\ n \in Nat
        /\ \A i, j \in 1..n: order[i] = order[j] => i = j
        /\ \A r \in records: \E k \in 1..n: order[k] = r
    BY <1>1, OrderOfSet
  <1>3. \A r \in records: DaysOfRecord(r) \in Int
    BY LeaveAssumption DEF DaysOfRecord, Records, RequestRow
  <1> HIDE DEF order, n
  <1>4. \A k \in 1..n: [record |-> order[k], days |-> DaysOfRecord(order[k]), cancels |-> FALSE]
                          \in LeaveEntry
    BY <1>2, <1>3 DEF LeaveEntry
  <1>5. rows \in [1..n -> LeaveEntry]
    BY <1>2, <1>4
  <1>6. \A k \in 1..n: rows[k].record = order[k] /\ rows[k].cancels = FALSE
    BY <1>2
  <1>7. Entries(records) = rows
    BY DEF Entries, order
  <1> HIDE DEF rows
  <1>8. rows \in Seq(LeaveEntry) /\ Len(rows) = n
    BY <1>2, <1>5
  <1> QED
    BY <1>2, <1>6, <1>7, <1>8
\* What is deducted or gone stays so: the history may stay as it is.
LEMMA HistoryKept ==
  ASSUME HistoryOK, UNCHANGED <<deducted, history>>,
         \A r \in Requests: request[r].status = "deleted" => request'[r].status = "deleted"
  PROVE  HistoryOK'
  <1>1. Stands(history, request', deducted)
    BY DEF HistoryOK, Stands
  <1>2. Stands(history, request, deducted)'
    BY <1>1
  <1> QED
    BY <1>2 DEF HistoryOK

\* The steps of LeaveRequestService but the deletion leave the deleted rows deleted.
LEMMA DeletedStays ==
  ASSUME QuotaInv, NEW c \in Clients, RequestStep(c)
  PROVE  /\ UNCHANGED <<deducted, history>>
         /\ \A r \in Requests: request[r].status = "deleted" => request'[r].status = "deleted"
  <1>1. UNCHANGED <<deducted, history>>
    BY DEF RequestStep, BeginCreate, InsertRequest, BeginDecide, BeginCancelLeave, WriteStatus,
           leaveVars
  <1>2. request \in [Requests -> RequestRow]
    BY DEF QuotaInv, RequestsOK
  <1>3. ASSUME NEW r \in Requests, InsertRequest(c, r), NEW q \in Requests,
               request[q].status = "deleted"
        PROVE  request'[q].status = "deleted"
    <2>1. q # r
      BY <1>3 DEF InsertRequest
    <2> QED
      BY <1>2, <1>3, <2>1 DEF InsertRequest
  <1>4. ASSUME WriteStatus(c), NEW q \in Requests, request[q].status = "deleted"
        PROVE  request'[q].status = "deleted"
    <2>1. ~Exists(q)
      BY <1>4 DEF Exists, LeaveStatuses
    <2> QED
      BY <1>2, <1>4, <2>1 DEF WriteStatus
  <1>5. \/ UNCHANGED request
        \/ \E r \in Requests: InsertRequest(c, r)
        \/ WriteStatus(c)
    BY DEF RequestStep, BeginCreate, BeginDecide, BeginCancelLeave, leaveVars
  <1> QED
    BY <1>1, <1>3, <1>4, <1>5

\* The call of a step of LeaveRequestService is none about deductions before or after it.
LEMMA RequestCalls ==
  ASSUME "leave" \notin Overlapping, QuotaInv, NEW c \in Clients, RequestStep(c)
  PROVE  CallsDeduct'
  <1> DEFINE Goes == \E next: /\ Goto(c, next) /\ (Quiet \/ call[c] # Idle)
                              /\ next.at # "apply" /\ next.at # "undo"
  <1>1. Goes
    <2>1. ASSUME NEW days \in Lengths, NEW year \in Years, NEW joker \in BOOLEAN,
                 BeginCreate(c, days, year, joker)
          PROVE  Goes
      <3> DEFINE next == [at |-> "create", days |-> days, year |-> year, joker |-> joker]
      <3>1. Quiet /\ Goto(c, next) /\ next.at # "apply" /\ next.at # "undo"
        BY <2>1, StartsAlone DEF BeginCreate
      <3> HIDE DEF next
      <3> QED
        BY <3>1
    <2>2. ASSUME NEW r \in Requests, NEW endpoint \in {"approve", "reject", "cancel"},
                 \/ BeginDecide(c, r, endpoint) /\ endpoint # "cancel"
                 \/ BeginCancelLeave(c, r) /\ endpoint = "cancel"
          PROVE  Goes
      <3> DEFINE next == [at |-> endpoint, request |-> r]
      <3>1. Quiet /\ Goto(c, next) /\ next.at # "apply" /\ next.at # "undo"
        BY <2>2, StartsAlone DEF BeginDecide, BeginCancelLeave
      <3> HIDE DEF next
      <3> QED
        BY <3>1
    <2>3. ASSUME WriteStatus(c) \/ \E r \in Requests: InsertRequest(c, r)
          PROVE  Goes
      <3>1. call[c] # Idle /\ Goto(c, Idle) /\ Idle.at # "apply" /\ Idle.at # "undo"
        BY <2>3 DEF WriteStatus, InsertRequest, Return, Idle
      <3> QED
        BY <3>1
    <2> HIDE DEF Goes
    <2> QED
      BY <2>1, <2>2, <2>3 DEF RequestStep
  <1>2. PICK next: /\ Goto(c, next) /\ (Quiet \/ call[c] # Idle)
                   /\ next.at # "apply" /\ next.at # "undo"
    BY <1>1
  <1>3. /\ call'[c] = next
        /\ \A d \in Clients \ {c}: call'[d] = Idle
    BY <1>2, AloneOrNone DEF QuotaInv
  <1>4. ASSUME NEW d \in Clients
        PROVE  call'[d].at # "apply" /\ call'[d].at # "undo"
    BY <1>2, <1>3 DEF Idle
  <1> QED
    BY <1>4 DEF CallsDeduct
\* A deduction applies records that are not deducted: the last application of each, if it
\* has one, was cancelled.
LEMMA DeductionKeeps ==
  ASSUME DeductionInv, NEW c \in Clients, WriteDeduction(c)
  PROVE  HistoryOK'
  <1> DEFINE records == call[c].records
             new == Entries(records)
             L == Len(history)
             n == Len(new)
  <1>0. call[c].at = "apply"
    BY DEF WriteDeduction
  <1>1. /\ records \subseteq Records
        /\ \A r \in records: r \notin deducted /\ (r \in Absences \/ request[r].status = "approved")
    BY <1>0 DEF DeductionInv, CallsDeduct, Selected
  <1>2. deducted' = deducted \cup records /\ UNCHANGED request
    BY <1>1 DEF WriteDeduction, Exists, LeaveStatuses
  <1>3. history' = history \o new
    BY DEF WriteDeduction
  <1>4. /\ new \in Seq(LeaveEntry) /\ n \in Nat
        /\ \A k \in 1..n: new[k].record \in records /\ new[k].cancels = FALSE
        /\ \A i, j \in 1..n: new[i].record = new[j].record => i = j
        /\ \A r \in records: \E k \in 1..n: new[k].record = r
    BY <1>1, EntriesOfRecords DEF DeductionInv, QuotaInv, RequestsOK
  <1>5. history \in Seq(LeaveEntry) /\ L \in Nat /\ DOMAIN history = 1..L
    BY DEF DeductionInv, HistoryOK
  <1> HIDE DEF new
  <1>6. /\ history' \in Seq(LeaveEntry) /\ DOMAIN history' = 1..(L + n)
        /\ \A k \in 1..L: history'[k] = history[k]
        /\ \A k \in 1..n: history'[L + k] = new[k]
    BY <1>3, <1>4, <1>5
  <1>7. \A k \in 1..(L + n): k \in 1..L \/ (k - L \in 1..n /\ history'[k] = new[k - L])
    <2>1. \A k \in 1..(L + n): k \notin 1..L => k - L \in 1..n /\ L + (k - L) = k
      BY <1>4, <1>5
    <2> QED
      BY <1>6, <2>1
  <1> HIDE DEF L, n
  \* the application of a record that may be deducted was cancelled
  <1>8. ASSUME NEW i \in 1..L, ~history[i].cancels, history[i].record \in records
        PROVE  \E k \in 1..L: Cancels(history, i, k)
    <2>1. history[i].record \notin deducted
      BY <1>1, <1>8
    <2>2. ~(history[i].record \in Requests /\ request[history[i].record].status = "deleted")
      BY <1>1, <1>8, LeaveAssumption
    <2> QED
      BY <1>5, <1>8, <2>1, <2>2 DEF DeductionInv, HistoryOK, Stands
  <1>9. \A i, k \in 1..L: Cancels(history, i, k) => Cancels(history', i, k)
    BY <1>6 DEF Cancels
  <1>10. Alternates(history')
    <2> SUFFICES ASSUME NEW i \in 1..(L + n), NEW j \in 1..(L + n), i < j,
                        history'[i].record = history'[j].record,
                        ~history'[i].cancels, ~history'[j].cancels
                 PROVE  \E k \in 1..(L + n): Cancels(history', i, k) /\ k < j
      BY <1>6 DEF Alternates
    <2>1. CASE j \in 1..L
      <3>1. i \in 1..L
        BY <1>4, <1>5, <2>1
      <3>2. \E k \in 1..L: Cancels(history, i, k) /\ k < j
        BY <1>5, <1>6, <2>1, <3>1 DEF DeductionInv, HistoryOK, Alternates
      <3> QED
        BY <1>4, <1>5, <1>9, <3>1, <3>2 DEF n, L
    <2>2. CASE i \in 1..L /\ j \notin 1..L
      <3>0. j - L \in 1..n /\ history'[j] = new[j - L]
        BY <1>7, <2>2
      <3>1. history[i].record \in records /\ ~history[i].cancels
        <4>1. history'[i] = history[i]
          BY <1>6, <2>2
        <4>2. history'[j].record \in records
          BY <1>4, <3>0
        <4> QED
          BY <4>1, <4>2
      <3>2. PICK k \in 1..L: Cancels(history, i, k)
        BY <1>8, <2>2, <3>1
      <3>3. k \in 1..(L + n) /\ k < j
        BY <1>4, <1>5, <2>2
      <3> QED
        BY <1>9, <2>2, <3>2, <3>3
    <2>3. CASE i \notin 1..L
      <3>1. j \notin 1..L
        BY <1>4, <1>5, <2>3
      <3>2. i - L = j - L
        BY <1>4, <1>7, <2>3, <3>1
      <3> QED
        BY <1>4, <1>5, <3>2
    <2> QED
      BY <2>1, <2>2, <2>3
  <1>11. Stands(history', request', deducted')
    <2> SUFFICES ASSUME NEW i \in 1..(L + n), ~history'[i].cancels,
                        ~\E k \in 1..(L + n): Cancels(history', i, k)
                 PROVE  \/ history'[i].record \in deducted'
                        \/ /\ history'[i].record \in Requests
                           /\ request'[history'[i].record].status = "deleted"
      BY <1>6 DEF Stands
    <2>1. CASE i \in 1..L
      <3>1. ~\E k \in 1..L: Cancels(history, i, k)
        BY <1>4, <1>5, <1>9, <2>1
      <3> QED
        BY <1>2, <1>5, <1>6, <2>1, <3>1 DEF DeductionInv, HistoryOK, Stands
    <2>2. CASE i \notin 1..L
      BY <1>2, <1>4, <1>7, <2>2
    <2> QED
      BY <2>1, <2>2
  <1>12. Recorded(history', deducted')
    <2> SUFFICES ASSUME NEW r \in deducted'
                 PROVE  \E k \in 1..(L + n): history'[k].record = r /\ ~history'[k].cancels
      BY <1>6 DEF Recorded
    <2>1. CASE r \in deducted
      <3>1. PICK k \in 1..L: history[k].record = r /\ ~history[k].cancels
        BY <1>5, <2>1 DEF DeductionInv, HistoryOK, Recorded
      <3> QED
        BY <1>4, <1>5, <1>6, <3>1
    <2>2. CASE r \in records
      <3>1. PICK k \in 1..n: new[k].record = r
        BY <1>4, <2>2
      <3>2. L + k \in 1..(L + n)
        BY <1>4, <1>5
      <3> QED
        BY <1>4, <1>6, <3>1, <3>2
    <2> QED
      BY <1>2, <2>1, <2>2
  <1>13. deducted' \subseteq Records
    BY <1>1, <1>2 DEF DeductionInv, HistoryOK
  <1>14. /\ Alternates(history)' /\ Stands(history, request, deducted)'
         /\ Recorded(history, deducted)'
    BY <1>10, <1>11, <1>12
  <1> QED
    BY <1>6, <1>13, <1>14 DEF HistoryOK
\* A restoration cancels what was applied before it.
LEMMA UndoKeeps ==
  ASSUME DeductionInv, NEW c \in Clients, WriteUndo(c)
  PROVE  HistoryOK'
  <1> DEFINE r == call[c].record
             last == [record |-> r, days |-> - call[c].days, cancels |-> TRUE]
             L == Len(history)
  <1>1. /\ call[c].at = "undo"
        /\ deducted' = deducted \ {r} /\ UNCHANGED request
        /\ history' = Append(history, last)
    BY DEF WriteUndo, ReturnedLength
  <1>2. last \in LeaveEntry /\ last.record = r /\ last.cancels = TRUE
    <2>1. r \in Records /\ call[c].days \in Int
      BY <1>1 DEF DeductionInv, CallsDeduct
    <2> QED
      BY <2>1 DEF LeaveEntry
  <1>3. history \in Seq(LeaveEntry) /\ L \in Nat /\ DOMAIN history = 1..L
    BY DEF DeductionInv, HistoryOK
  <1> HIDE DEF last
  <1>4. /\ history' \in Seq(LeaveEntry) /\ DOMAIN history' = 1..(L + 1)
        /\ \A k \in 1..L: history'[k] = history[k]
        /\ history'[L + 1] = last
    BY <1>1, <1>2, <1>3
  <1> HIDE DEF L, r
  <1>5. \A k \in 1..(L + 1): k \in 1..L \/ k = L + 1
    BY <1>3
  <1>6. /\ 1..L \subseteq 1..(L + 1) /\ L + 1 \in 1..(L + 1)
        /\ \A k \in 1..L: k < L + 1
    BY <1>3
  <1>7. \A i, k \in 1..L: Cancels(history, i, k) => Cancels(history', i, k)
    BY <1>4 DEF Cancels
  <1>8. ASSUME NEW i \in 1..(L + 1), ~history'[i].cancels
        PROVE  i \in 1..L /\ history'[i] = history[i] /\ ~history[i].cancels
    <2>1. i # L + 1
      BY <1>2, <1>4, <1>8
    <2> QED
      BY <1>4, <1>5, <1>8, <2>1
  <1>9. Alternates(history')
    <2> SUFFICES ASSUME NEW i \in 1..(L + 1), NEW j \in 1..(L + 1), i < j,
                        history'[i].record = history'[j].record,
                        ~history'[i].cancels, ~history'[j].cancels
                 PROVE  \E k \in 1..(L + 1): Cancels(history', i, k) /\ k < j
      BY <1>4 DEF Alternates
    <2>1. /\ i \in 1..L /\ j \in 1..L
          /\ history[i].record = history[j].record
          /\ ~history[i].cancels /\ ~history[j].cancels
      BY <1>8
    <2>2. \E k \in 1..L: Cancels(history, i, k) /\ k < j
      BY <1>3, <2>1 DEF DeductionInv, HistoryOK, Alternates
    <2> QED
      BY <1>6, <1>7, <2>1, <2>2
  <1>10. Stands(history', request', deducted')
    <2> SUFFICES ASSUME NEW i \in 1..(L + 1), ~history'[i].cancels,
                        ~\E k \in 1..(L + 1): Cancels(history', i, k)
                 PROVE  \/ history'[i].record \in deducted'
                        \/ /\ history'[i].record \in Requests
                           /\ request'[history'[i].record].status = "deleted"
      BY <1>4 DEF Stands
    <2>1. i \in 1..L /\ history'[i] = history[i] /\ ~history[i].cancels
      BY <1>8
    <2>2. history[i].record # r
      <3>1. ~Cancels(history', i, L + 1)
        BY <1>6
      <3> QED
        BY <1>2, <1>4, <1>6, <2>1, <3>1 DEF Cancels
    <2>3. ~\E k \in 1..L: Cancels(history, i, k)
      BY <1>6, <1>7, <2>1
    <2>4. \/ history[i].record \in deducted
          \/ history[i].record \in Requests /\ request[history[i].record].status = "deleted"
      BY <1>3, <2>1, <2>3 DEF DeductionInv, HistoryOK, Stands
    <2> QED
      BY <1>1, <2>1, <2>2, <2>4 DEF r
  <1>11. Recorded(history', deducted')
    <2> SUFFICES ASSUME NEW q \in deducted'
                 PROVE  \E k \in 1..(L + 1): history'[k].record = q /\ ~history'[k].cancels
      BY <1>4 DEF Recorded
    <2>1. q \in deducted
      BY <1>1
    <2>2. PICK k \in 1..L: history[k].record = q /\ ~history[k].cancels
      BY <1>3, <2>1 DEF DeductionInv, HistoryOK, Recorded
    <2> QED
      BY <1>4, <1>6, <2>2
  <1>12. /\ Alternates(history)' /\ Stands(history, request, deducted)'
         /\ Recorded(history, deducted)'
    BY <1>9, <1>10, <1>11
  <1>13. deducted' \subseteq Records
    BY <1>1 DEF DeductionInv, HistoryOK
  <1> QED
    BY <1>4, <1>12, <1>13 DEF HistoryOK

\* A request that is deleted takes its mark with it and is never deducted again.
LEMMA DeletionKeeps ==
  ASSUME DeductionInv, NEW r \in Requests, DeleteRequest(r)
  PROVE  HistoryOK'
  <1>1. /\ request' = [request EXCEPT ![r].status = "deleted"]
        /\ deducted' = deducted \ {r} /\ UNCHANGED history
    BY DEF DeleteRequest
  <1>2. request \in [Requests -> RequestRow]
    BY DEF DeductionInv, QuotaInv, RequestsOK
  <1>3. /\ request'[r].status = "deleted"
        /\ \A q \in Requests: request[q].status = "deleted" => request'[q].status = "deleted"
    BY <1>1, <1>2 DEF RequestRow
  <1>4. Stands(history, request', deducted')
    BY <1>1, <1>3 DEF DeductionInv, HistoryOK, Stands
  <1>5. Recorded(history, deducted')
    BY <1>1 DEF DeductionInv, HistoryOK, Recorded
  <1>6. Stands(history, request, deducted)' /\ Recorded(history, deducted)'
    BY <1>1, <1>4, <1>5
  <1> QED
    BY <1>1, <1>6 DEF DeductionInv, HistoryOK
\* A call about deductions starts with what it just selected, and leaves nothing behind.
LEMMA DeductionCalls ==
  ASSUME "leave" \notin Overlapping, DeductionInv, NEW c \in Clients, DeductionStep(c)
  PROVE  CallsDeduct'
  <1>1. ASSUME NEW records \in SUBSET Records, BeginApply(c, records)
        PROVE  CallsDeduct'
    <2> DEFINE next == [at |-> "apply", records |-> Eligible(records)]
    <2>1. Quiet /\ Goto(c, next) /\ UNCHANGED leaveVars
      BY <1>1, StartsAlone DEF BeginApply
    <2>2. /\ call'[c] = next
          /\ \A d \in Clients \ {c}: call'[d] = Idle
      BY <2>1, AloneOrNone DEF DeductionInv, QuotaInv
    <2>3. call'[c].at = "apply" /\ call'[c].records = Eligible(records)
      BY <2>2
    <2>4. Selected(c)'
      BY <2>1, <2>3 DEF Selected, Eligible, leaveVars
    <2>5. ASSUME NEW d \in Clients
          PROVE  /\ call'[d].at = "apply" => Selected(d)'
                 /\ call'[d].at # "undo"
      <3>1. CASE d = c
        BY <2>3, <2>4, <3>1
      <3>2. CASE d # c
        BY <2>2, <3>2 DEF Idle
      <3> QED
        BY <3>1, <3>2
    <2> QED
      BY <2>5, Zenon DEF CallsDeduct
  <1>2. ASSUME NEW r \in Records, BeginUndo(c, r)
        PROVE  CallsDeduct'
    <2> DEFINE next == [at |-> "undo", record |-> r, days |-> LastAppliedDays(r)]
    <2>1. Quiet /\ Goto(c, next)
      BY <1>2, StartsAlone DEF BeginUndo
    <2>2. /\ call'[c] = next
          /\ \A d \in Clients \ {c}: call'[d] = Idle
      BY <2>1, AloneOrNone DEF DeductionInv, QuotaInv
    <2>3. /\ call'[c].at = "undo" /\ call'[c].record = r
          /\ call'[c].days = LastAppliedDays(r)
      BY <2>2
    <2>4. LastAppliedDays(r) \in Int
      BY LastAppliedIsInt DEF DeductionInv, HistoryOK
    <2>5. ASSUME NEW d \in Clients
          PROVE  /\ call'[d].at # "apply"
                 /\ call'[d].at = "undo" => call'[d].record \in Records /\ call'[d].days \in Int
      <3>1. CASE d = c
        BY <2>3, <2>4, <3>1
      <3>2. CASE d # c
        BY <2>2, <3>2 DEF Idle
      <3> QED
        BY <3>1, <3>2
    <2> QED
      BY <2>5, Zenon DEF CallsDeduct
  <1>3. ASSUME WriteDeduction(c) \/ WriteUndo(c)
        PROVE  CallsDeduct'
    <2>1. call[c] # Idle /\ Goto(c, Idle)
      BY <1>3 DEF WriteDeduction, WriteUndo, Return, Idle
    <2>2. \A d \in Clients: call'[d] = Idle
      BY <2>1, AloneOrNone DEF DeductionInv, QuotaInv
    <2>3. ASSUME NEW d \in Clients
          PROVE  call'[d].at # "apply" /\ call'[d].at # "undo"
      BY <2>2 DEF Idle
    <2> QED
      BY <2>3 DEF CallsDeduct
  <1> QED
    BY <1>1, <1>2, <1>3 DEF DeductionStep

LEMMA DeductionsStep ==
  ASSUME "leave" \notin Overlapping, DeductionInv, LeaveNext
  PROVE  DeductionInv'
  <1>1. QuotaInv'
    BY QuotasStep DEF DeductionInv
  <1>2. CASE NextWeek
    <2>1. UNCHANGED <<request, deducted, history, call>>
      BY <1>2 DEF NextWeek
    <2> QED
      BY <1>1, <2>1 DEF DeductionInv, HistoryOK, CallsDeduct, Selected
  <1>3. ASSUME NEW r \in Requests, DeleteRequest(r)
        PROVE  DeductionInv'
    <2>1. HistoryOK'
      BY <1>3, DeletionKeeps
    <2>2. Quiet /\ UNCHANGED call
      BY <1>3 DEF DeleteRequest, MayRun
    <2>3. ASSUME NEW d \in Clients
          PROVE  call'[d].at # "apply" /\ call'[d].at # "undo"
      BY <2>2 DEF Quiet, Idle
    <2>4. CallsDeduct'
      BY <2>3 DEF CallsDeduct
    <2> QED
      BY <1>1, <2>1, <2>4 DEF DeductionInv
  <1>4. ASSUME NEW c \in Clients, RequestStep(c)
        PROVE  DeductionInv'
    <2>1. HistoryOK'
      BY <1>4, DeletedStays, HistoryKept DEF DeductionInv
    <2>2. CallsDeduct'
      BY <1>4, RequestCalls DEF DeductionInv
    <2> QED
      BY <1>1, <2>1, <2>2 DEF DeductionInv
  <1>5. ASSUME NEW c \in Clients, DeductionStep(c)
        PROVE  DeductionInv'
    <2>1. CallsDeduct'
      BY <1>5, DeductionCalls
    <2>2. HistoryOK'
      <3>1. CASE WriteDeduction(c)
        BY <3>1, DeductionKeeps
      <3>2. CASE WriteUndo(c)
        BY <3>2, UndoKeeps
      <3>3. CASE UNCHANGED leaveVars
        BY <3>3, HistoryKept DEF DeductionInv, leaveVars
      <3> QED
        BY <1>5, <3>1, <3>2, <3>3 DEF DeductionStep, BeginApply, BeginUndo
    <2> QED
      BY <1>1, <2>1, <2>2 DEF DeductionInv
  <1> QED
    BY <1>2, <1>3, <1>4, <1>5 DEF LeaveNext

LEMMA AlternatesIsOnce ==
  ASSUME HistoryOK
  PROVE  NeverAppliedTwice
  <1>1. ASSUME NEW i \in DOMAIN history, NEW j \in DOMAIN history,
               i < j /\ history[i].record = history[j].record
                     /\ ~history[i].cancels /\ ~history[j].cancels
        PROVE  \E k \in i..j: history[k].record = history[i].record /\ history[k].cancels
    <2>1. PICK k \in DOMAIN history: Cancels(history, i, k) /\ k < j
      BY <1>1 DEF HistoryOK, Alternates
    <2>2. DOMAIN history \subseteq Int
      BY DEF HistoryOK
    <2>3. k \in i..j
      BY <2>1, <2>2 DEF Cancels
    <2> QED
      BY <2>1, <2>3 DEF Cancels
  <1>2. \A r \in deducted: \E k \in DOMAIN history: history[k].record = r /\ ~history[k].cancels
    BY DEF HistoryOK, Recorded
  <1> QED
    BY <1>1, <1>2 DEF NeverAppliedTwice

\* No record is deducted a second time before its deduction was cancelled, however many
\* absences and requests there are, in whatever order they are deducted, restored (twice if
\* one likes), cancelled and deleted, one call at a time; and what is deducted has its row.
THEOREM DeductedOnce ==
  ASSUME "leave" \notin Overlapping
  PROVE  LeaveSpec => []NeverAppliedTwice
  <1>1. LeaveInit /\ call = [c \in Clients |-> Idle] => DeductionInv
    <2> SUFFICES ASSUME LeaveInit, call = [c \in Clients |-> Idle]
                 PROVE  DeductionInv
      OBVIOUS
    <2>1. HistoryOK
      BY DEF LeaveInit, HistoryOK, Alternates, Stands, Recorded
    <2>2. ASSUME NEW d \in Clients
          PROVE  call[d].at # "apply" /\ call[d].at # "undo"
      BY DEF Idle
    <2>3. CallsDeduct
      BY <2>2, Zenon DEF CallsDeduct
    <2> QED
      BY <2>1, <2>3, QuotasInitially DEF DeductionInv
  <1>2. DeductionInv /\ [LeaveNext]_<<leaveVars, call>> => DeductionInv'
    <2>1. CASE UNCHANGED <<leaveVars, call>>
      BY <2>1 DEF leaveVars, DeductionInv, HistoryOK, CallsDeduct, Selected, QuotaInv, OneCall,
                  RequestsOK, CallsFit, Fits
    <2> QED
      BY <2>1, DeductionsStep
  <1>3. DeductionInv => NeverAppliedTwice
    BY AlternatesIsOnce DEF DeductionInv
  <1> QED
    BY <1>1, <1>2, <1>3, PTL DEF LeaveSpec
=============================================================================
