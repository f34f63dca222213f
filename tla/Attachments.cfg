SPECIFICATION FairSpec
CONSTANTS
  None = None
  Users = {u1, u2}
  Tasks = {k1}
  Files = {f1}
  Requests = {r1, r2}
  Faults = {"storage", "tornWrite", "timeout", "crash", "lostCommit"}
INVARIANTS
  AttachmentsAvailable
  NoOrphans
  RestoreFindsKeyFree
PROPERTIES
  FilesLeaveByRemoval
  RequestsEnd
