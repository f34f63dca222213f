SPECIFICATION Spec
CONSTANTS
  None = None
  Projects = {j1, j2}
  Pages = {p1, p2, p3}
  MaxDepth = 2
  Requests = {r1, r2}
SYMMETRY Ids
INVARIANTS
  PagesFormForest
  SiblingsDense
PROPERTY ChangesTakeEffect
