CONSTANTS
  Task = {t1, t2, t3}
  Project = {p1, p2}
  User = {u1}
  Entry = {1, 2, 3}
  Request = {r1, r2}
  Null = Null
  MaxTime = 1
  Client <- AnyClient
SYMMETRY Symmetry
SPECIFICATION ConcurrentSpec
INVARIANTS
  CompletedIffDone
  RowsWellFormed
  ActiveTimersBounded
PROPERTIES
  CompletionDateStable
