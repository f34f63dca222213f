SPECIFICATION FairSpec
CONSTANTS
  None = None
  Users = {u1}
  Tasks = {k1, k2}
  Entries = {e1, e2}
  Requests = {r1, r2}
  Second = 2
  MaxTime = 2
INVARIANTS
  EntriesSound
  StartNeverConflicts
PROPERTIES
  EntriesEndByTheirUser
  RequestsEnd
