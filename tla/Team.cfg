CONSTANTS
  User = {m, n}
  Message = {m1, m2}
  FirstMessage = m1
  Thread = {c1, c2, c3}
  FirstThread = c1
  HistoryLimit = 2
  Clients <- TeamClients
  Colleague = {u1, u2, u3}
  Task = {t1}
  Plan <- Everybody
  Request = {r1, r2}
  Null = Null
SYMMETRY Symmetry
SPECIFICATION MCSpec
CHECK_DEADLOCK FALSE
INVARIANTS
  TeamWellFormed
  NoMessageMissed
  WorkInLivingHands
PROPERTIES
  AssigneesAsRequested
