SPECIFICATION FairSpec
CONSTANTS
  None = None
  p1 = p1
  p2 = p2
  c1 = c1
  c2 = c2
  c3 = c3
  Projects = {p1, p2}
  Columns = {c1, c2, c4, c5}
  Tasks = {t1}
  Requests = {r1, r2}
  ProjectOf <- MCProjectOf
  StartPosition <- MCStartPosition
PROPERTIES
  ColumnsAppend
  RequestsEnd
