SPECIFICATION GithubSpec
CONSTANTS
  None = None
  g1 = g1
  u1 = u1
  u2 = u2
  i1 = i1
  Projects = {j1, j2}
  Connections = {x1, x2}
  Externals = {g1}
  Issues = {e1}
  RepositoryOf <- MCRepositoryOf
  Tasks = {t1, t2}
  Deliveries = {d1, d2}
  Requests = {r1, r2}
  Users = {u1, u2}
  States = {s1, s2}
  Installations = {i1}
  Administers <- MCAdministers
  Flows = {r1, r2}
  Nobody = Nobody
SYMMETRY Ids
INVARIANTS
  AppliedOnce
  SyncFindsItsRows
  ForeignKeysHold
  NoDeadlock
PROPERTY FlowsAreExclusive
