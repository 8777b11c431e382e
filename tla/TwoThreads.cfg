CONSTANTS
  User = {m, n}
  Message = {m1}
  FirstMessage = m1
  Thread = {c1, c2}
  FirstThread = c1
  HistoryLimit = 2
  Clients <- ThreadClients
  Colleague = {u1}
  Task = {}
  Plan <- Nobody
  Request = {r1, r2}
  Null = Null
SYMMETRY Symmetry
SPECIFICATION MCSpec
CHECK_DEADLOCK FALSE
INVARIANTS
  OneThreadPerPair
