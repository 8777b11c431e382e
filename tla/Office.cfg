CONSTANTS
  User = {u1, u2}
  Socket = {s1, s2, s3, s4}
  Watching = {s1}
  Unknown = Unknown
  Restarts = 1
  Task = {t1}
  Document = {d1}
  Item = {n1, n2, n3}
  Reader = {u1, u2}
  Event = {e1}
  Caller = {r1, r2}
  Person = {u1, u2}
  Inspected = u1
  Request = {1, 2}
  Traced <- SomeTraced
  Filter <- SomeFilters
  Window <- SomeWindows
  MaxPageSize = 1
  MaxExportSize = 1
  PerDay = 2
  Week = 1
  MaxTime = 2
  Null = Null
SPECIFICATION OfficeSpec
CHECK_DEADLOCK FALSE
INVARIANTS
  PresenceWellFormed
  ListsWellFormed
  NoticesReachAudience
  TracesAreTrue
  AnswersFit
  FiguresAgree
PROPERTIES
  GhostsVanish
