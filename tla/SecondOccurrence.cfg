CONSTANTS
  Task = {t1, t2, t3}
  Project = {p1}
  User = {u1}
  Entry = {1}
  Request = {r1}
  Null = Null
  MaxTime = 1
  Client <- AnyClient
SYMMETRY Symmetry
SPECIFICATION RecurrenceSpec
PROPERTIES
  NoSecondOccurrence
