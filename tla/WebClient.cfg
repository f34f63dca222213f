SPECIFICATION WebClientSpec
CONSTANTS
  Changes = {c1, c2}
  Ours = {c1}
  Base = base
  MaxFaults = 2
  Tasks = {1, 2, 3}
  Columns = {k1, k2}
  IdOrder <- MCIdOrder
  Own = own
  Rival = rival
  None = None
  MaxDrops = 2
  MaxRivals = 1
  Fields = {title, column}
  Values = {v1, v2}
  Gone = Gone
SYMMETRY ColumnIds
INVARIANTS
  ConnectedCacheConverges
  OwnChangesShow
  DropsLandWhereShown
PROPERTY EditsAreKept
CHECK_DEADLOCK FALSE
