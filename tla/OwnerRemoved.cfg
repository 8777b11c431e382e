CONSTANTS
  User = {u1, u2}
  GlobalAdmin = {}
  Invitation = {i1}
  FirstInvitation = i1
  Request = {r1}
  Null = Null
  Writer = {w1}
  Content = {x1}
  Client <- AnyClient
  Offered = {"ADMIN", "MEMBER"}
SYMMETRY Symmetry
SPECIFICATION OwnerSpec
CHECK_DEADLOCK FALSE
INVARIANT OwnerIsMember
