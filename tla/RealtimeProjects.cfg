SPECIFICATION HFairSpec
CONSTANTS
  u1 = u1
  NoSocket = NoSocket
  Users = {u1}
  Projects = {p1, p2}
  Sockets = {s1}
  UserOf <- MCUserOf
  Subscribes = {h1}
  Publications = {k1}
  Limit = 2
PROPERTY StrangersLeave
