\* One arrival entered by hand on the second day, which is off.
CONSTANTS
  Foci = {"discipline"}
  Clients = {"c1"}
  Overlapping = {}
  r1 = r1
  r2 = r2
  \* leave
  Requests = {r1, r2}
  Absences = {"a1"}
  Annual = 3
  PerRequest = 2
  JokerMax = 1
  Lengths = {2, 3}
  OneDay = 1
  Years = {1, 2}
  ThisYear = 1
  Weeks = 2
  MaxHistory = 3
  \* attendance and sanctions
  AttendanceCalls <- AttendanceOnly
  Days = 2
  Hours = 2
  Start = 1
  FullDay = 1
  WorkDays = {1}
  WeekOf <- OnePeriod
  MonthOf <- OnePeriod
  YearOf <- OnePeriod
  LatesPerWeek = 3
  LatesPerMonth = 4
  WarningsPerYear = 3
  SuspensionsPerYear = 2
  EntryDays = {1, 2}
  MaxRows = 1
  MaxSanctions = 1
  \* initiations and documents of employees
  Recruits = {"e1"}
  Account = {"e1"}
  Documents = {"cv"}
  Scores = {4, 9}
  \* regulations and HR documents
  Readers = {"e1"}
  Rules = {"reg1", "reg2"}
  Papers = {"d1"}
  ToSign = {"d1"}
  ToAcknowledge = {"d1"}
  \* evaluations
  Rated = {"e1"}
  Months = {1}
  Kpis = {"k1", "k2"}
  Points = {40, 89, 90}
  DefaultWeight <- KpiWeights
  Weights = {50}
  BonusFloor = 90
  \* tickets, events, rituals
  Tickets = {"t1"}
  Events = {"v1"}
  EventDays = {1, 3, 5}
  Rituals = {"daily", "monthly"}
  RitualDay <- RitualDays2
  MonthLength = 5
  DaysAhead = 3
  LastRitualDay = 4
  \* journals
  Writers = {"e1"}
  Window = 1
  LastRecordDay = 2
  \* overtime
  SheetDays = {1, 2}
  Times = {480, 540, 1080}
  \* openings, applications and positions
  Openings = {"o1"}
  Emails = {"m1"}
  PerDay = 2
  LastHiringDay = 2
  Positions = {"x1", "x2"}
  Holders = {"e1"}
  \* reminders
  Servers = {"s1", "s2"}
  DueTasks = {"t1"}
  LastReminder = 2
  OnDuty = {0, 1}
  Slots = 2
SPECIFICATION StaffSpec
INVARIANTS LateOnlyOnWorkDays
CHECK_DEADLOCK FALSE
