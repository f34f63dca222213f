SPECIFICATION HSpec
CONSTANTS
  u1 = u1
  NoSocket = NoSocket
  Users = {u1}
  Projects = {p1}
  Sockets = {s1}
  UserOf <- MCUserOf
  Subscribes = {h1, h2}
  Publications = {k1, k2}
  Limit = 2
SYMMETRY Ids
INVARIANTS
  SentToAuthorized
  EvictedForCause
  RoomsFollowAccess
