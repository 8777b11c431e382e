CONSTANTS
  t1 = t1
  t2 = t2
  t3 = t3
  t4 = t4
  Task = {t1, t2, t3, t4}
  Request = {r1, r2}
  Null = Null
  Day = {0, 2}
  Listing <- Listed
  Sprint = {s1, s2, s3}
  Phase = {p1}
  Milestone = {k1}
  Issue = {i1}
  Story = {a, b}
  Points <- SomePoints
  LastDay = 2
  Applicant = {v1}
  Absence = {a1, a2}
  Reader = {v1, v2}
  Shared = {project}
  LastAway = 1
  LastShown = 1
  Changes = 1
  Place = {1, 2}
  Time = {0, 1, 2, 4}
  Horizon = 8
  Deadline = {k1}
  Leave = {l1}
  Plans <- MCPlans
SYMMETRY Symmetry
CHECK_DEADLOCK FALSE
SPECIFICATION MCSpec
INVARIANTS
  PlanningWellFormed
  PertIsExact
  CalendarHolds
PROPERTIES
  CascadeSettles
  DatesFollow
