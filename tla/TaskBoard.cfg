SPECIFICATION Spec
CONSTANTS
  None = None
  p1 = p1
  p2 = p2
  c1 = c1
  c2 = c2
  c3 = c3
  Projects = {p1, p2}
  Columns = {c1, c2, c3}
  Tasks = {t1, t2, t3}
  Requests = {r1, r2}
  ProjectOf <- MCProjectOf
  StartPosition <- MCStartPosition
SYMMETRY Ids
INVARIANTS
  DensePositions
  NoPositionConflict
  TasksOnColumnsOfProject
PROPERTY ImplementsOrderedBoard
