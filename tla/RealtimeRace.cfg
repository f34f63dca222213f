SPECIFICATION HSpec
CONSTANTS
  u1 = u1
  NoSocket = NoSocket
  Users = {u1}
  Projects = {p1}
  Sockets = {s1}
  UserOf <- MCUserOf
  Subscribes = {h1}
  Publications = {k1}
  Limit = 2
INVARIANT LosingAccessEvicts
