CONSTANTS
  User = {u1, u2}
  Call = {c1, c2}
  Request = {r1, r2}
  Null = Null
  RingingTimeout = 0
  MaxTime = 1
  Take = 1
  LastMessage = 3
  Person = {v1, v2}
  FirstPerson = v1
  Entry = {e1, e2}
  FirstEntry = e1
  Duration = {2, 61, 100}
  Ended = {6, 7}
  Work = {1, 2}
  Reporter = {q1}
  Settings <- SomeSettings
  FirstSettings <- DefaultSettings
SYMMETRY Symmetry
SPECIFICATION MCSpec
CHECK_DEADLOCK FALSE
INVARIANTS
  CallRowsWellFormed
  MessagesAreFound
  WorkloadTellsTime
PROPERTIES
  CallsSettle
