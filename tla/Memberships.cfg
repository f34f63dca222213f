SPECIFICATION HSpec
CONSTANTS
  None = None
  o1 = o1
  o2 = o2
  p3 = p3
  Users = {u1, u2}
  Organizations = {o1}
  Projects = {p1, p2}
  Requests = {r1, r2}
  OrganizationOf <- MCOrganizationOf
SYMMETRY Ids
INVARIANTS
  PrimaryIsOwner
  EveryProjectHasOwner
PROPERTIES
  OwnersChangeMembers
  RosterChangesEntitled
  RemovalCoversProjects
