\* One task of a project is deleted, nothing else happens meanwhile.
CONSTANTS
  Foci = {"progress"}
  Clients = {"c1"}
  Overlapping = {}
  \* numbering
  Base = 3
  Width = 2
  MaxDocuments = 8
  \* dependencies of tasks
  Tasks = {"a", "b", "c"}
  DependencyTypes = {"finish_to_start", "start_to_start"}
  Lags = {1}
  Duration <- OneDay
  TaskStatuses = {"in_progress"}
  MaxRows = 3
  \* progress
  ProgressTasks = {"t1", "t2"}
  Subtasks = {"s1", "s2"}
  Percents = {0, 30}
  \* projects
  People = {"p1", "p2"}
  ProjectTasks = {"t1"}
  LastDate = 2
  \* academy
  Courses = {"course"}
  Sessions = {"session"}
  Enrollments = {"n1", "n2"}
  Learners = {"p1"}
  Employed = {"p1"}
  SentStatuses = {"failed"}
  LastDay = 2
  \* accounts and devices
  Accounts = {"u1", "u2"}
  Legacy = {"u1"}
  Fingerprints = {"f1"}
  \* roles
  Holders = {"u1"}
  Branches = {"o1"}
  Roles = {"base", "chief", "everywhere"}
  OrgOf <- RoleOrgs
  BaseRole = "base"
  Permissions = {"p1"}
  \* pay
  Staff = {"e1"}
  Schedules = {"s1", "s2"}
  OfEmployee <- OneEmployee
  PayDays = {2, 3}
  LastDayOf <- MonthLengths
  Amounts = {100}
  MaxPayments = 2
  MaxEntries = 1
  \* organisations and departments
  Organizations = {"o1", "o2"}
  Departments = {"d1", "d2"}
  Codes = {"X"}
  \* libraries
  Libraries = {"l1", "l2"}
  Folders = {"f1", "f2"}
  Names = {"n"}
  \* sockets and comments
  Sockets = {"s1", "s2"}
  Owner <- OneUser
  SnapshotLimit = 1
  MaxComments = 2
  MaxOnline = 3
  \* reading of tasks
  Tenants = {"o1", "o2", "o3"}
  ParentOf <- Above
  SharedProjects = {"p"}
  TenantOf <- InTheBranch
SPECIFICATION OfficeSpec
PROPERTIES DeletionRecounted
CHECK_DEADLOCK FALSE
